------------------------------- MODULE Members -------------------------------
(***************************************************************************)
(* Lists of named members, the fields or the methods of a class, as        *)
(* ClassInfo and the parser's nodes keep them.                             *)
(***************************************************************************)
EXTENDS Naturals, Sequences

(* Members are found by name, the first of that name being the one found.  *)
HasMember(members, n) == \E i \in DOMAIN members : members[i].name = n

GetMember(members, n) ==
  members[CHOOSE i \in DOMAIN members :
            /\ members[i].name = n
            /\ \A j \in 1 .. i - 1 : members[j].name # n]

(* ClassInfo::add_field and add_method: append unless the name is taken.   *)
AddMember(members, m) ==
  IF HasMember(members, m.name) THEN members ELSE Append(members, m)

AddMembers(members) ==
  LET added[k \in 0 .. Len(members)] ==
        IF k = 0 THEN <<>> ELSE AddMember(added[k - 1], members[k])
  IN added[Len(members)]

(* Some add_field or add_method of the list returns false.                 *)
Repeats(members) ==
  \E i, j \in DOMAIN members : i < j /\ members[i].name = members[j].name

(* The place of a member of that name.                                     *)
FirstNamed(members, n) == CHOOSE i \in DOMAIN members :
  members[i].name = n /\ \A j \in 1 .. i - 1 : members[j].name # n

LastNamed(members, n) == CHOOSE i \in DOMAIN members :
  members[i].name = n /\ \A j \in i + 1 .. Len(members) : members[j].name # n

(* One turn of collect_methods' loop: a method of a name that is known      *)
(* replaces the one that has it, in its slot.                              *)
Collect(methods, m) ==
  IF HasMember(methods, m.name)
  THEN [methods EXCEPT ![FirstNamed(methods, m.name)] = m]
  ELSE Append(methods, m)

CollectAll(members) ==
  LET collected[k \in 0 .. Len(members)] ==
        IF k = 0 THEN <<>> ELSE Collect(collected[k - 1], members[k])
  IN collected[Len(members)]
=============================================================================
