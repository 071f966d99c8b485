---------------------------- MODULE ChannelList -----------------------------
(* The list of Telegram channels in channels.toml and the edits of the         *)
(* `pansou channel` commands and of an ending search (channel/mod.rs).         *)
(* A list is [known, on]: its names and those of them that are enabled; the    *)
(* order of the names is left out.                                             *)
EXTENDS Integers, FiniteSets

CONSTANTS
    Name,           \* normalized channel names
    DefaultName,    \* the channel of ChannelList::default
    Limit           \* MAX_ENABLED_CHANNELS

ASSUME ListAssumption == IsFiniteSet(Name) /\ DefaultName \in Name /\ Limit \in Nat \ {0}

List == {l \in [known : SUBSET Name, on : SUBSET Name] : l.on \subseteq l.known}

(* The file: missing, one this version cannot read (not TOML, an unknown      *)
(* field or version, an invalid name), or its [[channels]] rows as written,   *)
(* by hand perhaps, so that a name may occur twice.                           *)
Absent == [kind |-> "absent", rows |-> {}]
Unreadable == [kind |-> "unreadable", rows |-> {}]
Rows(rs) == [kind |-> "rows", rows |-> rs]
File == {Absent, Unreadable} \cup {Rows(rs) : rs \in SUBSET (Name \X BOOLEAN)}

(* ChannelStore::load: duplicates are merged, enabled if one of them is.      *)
Load(file) ==
    IF file.kind = "absent" THEN [known |-> {DefaultName}, on |-> {DefaultName}]
    ELSE [known |-> {r[1] : r \in file.rows},
          on |-> {r[1] : r \in {s \in file.rows : s[2]}}]

(* What modify serializes.                                                    *)
Store(list) == Rows((list.on \X {TRUE}) \cup ((list.known \ list.on) \X {FALSE}))

(* The operations.  set_enabled fails when it meets a name not in the list.   *)
Kinds == {"add", "add_disabled", "remove", "enable", "disable",
          "disable_existing", "enable_all", "disable_all"}
Operation ==
    [kind : Kinds \ {"enable_all", "disable_all"}, names : SUBSET Name \ {{}}]
      \cup [kind : {"enable_all", "disable_all"}, names : {{}}]

Found(list, op) == op.kind \in {"enable", "disable"} => op.names \subseteq list.known

Edited(list, op) ==
    CASE op.kind = "add" ->
            [known |-> list.known \cup op.names, on |-> list.on \cup (op.names \ list.known)]
      [] op.kind = "add_disabled" -> [list EXCEPT !.known = @ \cup op.names]
      [] op.kind = "remove" -> [known |-> list.known \ op.names, on |-> list.on \ op.names]
      [] op.kind = "enable" -> [list EXCEPT !.on = @ \cup op.names]
      [] op.kind \in {"disable", "disable_existing"} -> [list EXCEPT !.on = @ \ op.names]
      [] op.kind = "enable_all" -> [list EXCEPT !.on = list.known]
      [] op.kind = "disable_all" -> [list EXCEPT !.on = {}]

(* enforce_limit is set by the operations that can enable a channel.          *)
EnforcesLimit_Bug(op) == op.kind = "add"
EnforcesLimit(op) == op.kind \in {"add", "enable", "enable_all"}

WithinLimit(list, op) == EnforcesLimit(op) => Cardinality(list.on) <= Limit

(* modify: refused, nothing to do, or a new list.                             *)
Refused(list, op) ==
    \/ ~Found(list, op)
    \/ Edited(list, op) # list /\ ~WithinLimit(Edited(list, op), op)
After(list, op) == IF Refused(list, op) THEN list ELSE Edited(list, op)
=============================================================================
