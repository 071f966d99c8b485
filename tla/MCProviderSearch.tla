-------------------------- MODULE MCProviderSearch --------------------------
EXTENDS ProviderSearch

Core == INSTANCE ProvidersCore
A == INSTANCE ProvidersA
B == INSTANCE ProvidersB
C == INSTANCE ProvidersC
DE == INSTANCE ProvidersDE
F == INSTANCE ProvidersF
G == INSTANCE ProvidersG
H == INSTANCE ProvidersH
Auth == INSTANCE ProvidersAuth
MCPlans ==
    Core!CorePlans \cup A!APlans \cup B!BPlans \cup C!CPlans \cup DE!DEPlans
        \cup F!FPlans \cup G!GPlans \cup H!HPlans \cup Auth!AuthPlans
KeepingPlans == {C!Sopanya}
=============================================================================
