--------------------------- MODULE ActiveDirectory ---------------------------
(***************************************************************************)
(* The domain controller the connector reads, as internal/ldap uses it:    *)
(* users with an update sequence number (uSNChanged) drawn from one        *)
(* counter, tombstones for deleted users, groups with a CN.  It is outside *)
(* the repository; administrators change it at any time.                   *)
(*                                                                         *)
(* Every change of a user raises its uSNChanged, a change of its groups    *)
(* included (real domain controllers raise only the group's: the model is  *)
(* on the connector's side here).                                          *)
(***************************************************************************)
EXTENDS ConnectorTypes, Naturals

CONSTANTS
    MaxUsn,     \* bound: number of changes administrators make
    Moves       \* the kinds of change this instance makes

VARIABLES
    ad,         \* the user objects, tombstones included
    cn,         \* the CN of each group
    usn         \* highestCommittedUSN

adVars == <<ad, cn, usn>>

\* "hidden": the object exists and does not match the search base and filter.
Entry == [status: {"live", "hidden", "deleted"}, name: Names, attr: Attrs,
          disabled: BOOLEAN, memberOf: SUBSET Groups, usn: Nat]

ASSUME DirectoryAssumption == MaxUsn \in Nat /\ None \notin Entry

AdTypeOK ==
    /\ ad \in [Guids -> Entry \cup {None}]
    /\ cn \in [Groups -> CNs]
    /\ usn \in Nat

AdInit ==
    /\ ad = [g \in Guids |-> None]
    /\ cn \in [Groups -> CNs]
    /\ usn = 0

Has(g, status) == ad[g] # None /\ ad[g].status = status
Live(g) == Has(g, "live")
Present(g) == Live(g) \/ Has(g, "hidden")

\* sAMAccountName is unique among the objects that are not deleted.
FreeInAd(n) == \A g \in Guids : Present(g) => ad[g].name # n

-----------------------------------------------------------------------------
(* What administrators do. *)

Write(g, entry) ==
    /\ usn < MaxUsn
    /\ usn' = usn + 1
    /\ ad' = [ad EXCEPT ![g] = [entry EXCEPT !.usn = usn + 1]]
    /\ UNCHANGED cn

AddUser(g) ==
    /\ "add" \in Moves
    /\ ad[g] = None
    /\ \E n \in Names, a \in Attrs, d \in BOOLEAN, m \in SUBSET Groups :
          /\ FreeInAd(n)
          /\ Write(g, [status |-> "live", name |-> n, attr |-> a,
                       disabled |-> d, memberOf |-> m, usn |-> 0])

RenameUser(g) ==
    /\ "rename" \in Moves
    /\ Live(g)
    /\ \E n \in Names : FreeInAd(n) /\ Write(g, [ad[g] EXCEPT !.name = n])

EditUser(g) ==
    /\ "edit" \in Moves
    /\ Live(g)
    /\ \E a \in Attrs \ {ad[g].attr} : Write(g, [ad[g] EXCEPT !.attr = a])

ToggleDisabled(g) ==
    /\ "disable" \in Moves
    /\ Live(g)
    /\ Write(g, [ad[g] EXCEPT !.disabled = ~ad[g].disabled])

Regroup(g) ==
    /\ "regroup" \in Moves
    /\ Live(g)
    /\ \E m \in (SUBSET Groups) \ {ad[g].memberOf} :
          Write(g, [ad[g] EXCEPT !.memberOf = m])

\* Moving out of the search base leaves no tombstone; moving back may follow.
MoveOut(g) ==
    /\ "hide" \in Moves
    /\ Live(g)
    /\ Write(g, [ad[g] EXCEPT !.status = "hidden"])

MoveBack(g) ==
    /\ "hide" \in Moves
    /\ Has(g, "hidden")
    /\ Write(g, [ad[g] EXCEPT !.status = "live"])

DeleteObject(g) ==
    /\ "delete" \in Moves
    /\ Present(g)
    /\ Write(g, [ad[g] EXCEPT !.status = "deleted", !.memberOf = {}])

\* A tombstone brought back from the recycle bin keeps its objectGUID.
RestoreObject(g) ==
    /\ "restore" \in Moves
    /\ Has(g, "deleted")
    /\ FreeInAd(ad[g].name)
    /\ Write(g, [ad[g] EXCEPT !.status = "live"])

\* A CN is unique in its container only: two groups may have the same.
RenameGroup(gr) ==
    /\ "rename_group" \in Moves
    /\ usn < MaxUsn
    /\ \E c \in CNs \ {cn[gr]} : cn' = [cn EXCEPT ![gr] = c]
    /\ usn' = usn + 1
    /\ UNCHANGED ad

AdNext ==
    \/ \E g \in Guids :
          \/ AddUser(g) \/ RenameUser(g) \/ EditUser(g) \/ ToggleDisabled(g)
          \/ Regroup(g) \/ MoveOut(g) \/ MoveBack(g)
          \/ DeleteObject(g) \/ RestoreObject(g)
    \/ \E gr \in Groups : RenameGroup(gr)

-----------------------------------------------------------------------------
(* What a search returns at the instant it is answered. *)

\* ExtractUser: one entry of a user search.
UserOf(g) == [name |-> ad[g].name, attr |-> ad[g].attr,
              disabled |-> ad[g].disabled,
              memberOf |-> {cn[gr] : gr \in ad[g].memberOf}]

\* SearchUsers for low = 0, SearchChangedUsers(low) otherwise.
Search(low) == {g \in Guids : Live(g) /\ ad[g].usn >= low + 1}

\* SearchDeletedObjects(low).
Tombstones(low) == {g \in Guids : Has(g, "deleted") /\ ad[g].usn >= low + 1}

\* ExtractGroup: one entry of SearchGroups.
GroupOf(gr) ==
    [cn |-> cn[gr], members |-> {g \in Guids : Present(g) /\ gr \in ad[g].memberOf}]
=============================================================================
