--------------------------- MODULE ConnectorTypes ---------------------------
(***************************************************************************)
(* The data every part of the directory connector talks about.             *)
(*                                                                         *)
(* An identity is an objectGUID.  It has a username (sAMAccountName), one  *)
(* attribute standing for e-mail, first and last name, a disabled flag and *)
(* the groups its memberOf lists.  A group is an objectGUID with a CN.  A  *)
(* user's DN is unique to the user, so the user's GUID stands for it.      *)
(***************************************************************************)
CONSTANTS
    Guids,      \* identities: objectGUIDs of users
    Names,      \* usernames (sAMAccountName in AD, userName in SCIM)
    Attrs,      \* values of mail, givenName and sn, taken together
    Groups,     \* objectGUIDs of the groups the filters let through
    CNs,        \* common names of groups
    None        \* no row, no account, no directory object

(***************************************************************************)
(* What a user search returns of a user (ldap.ADUser) and what the state   *)
(* database keeps of it (state.SyncedUser).  memberOf holds DNs; the only  *)
(* use made of one is to compare its leading CN with a group's CN.         *)
(***************************************************************************)
UserData == [name: Names, attr: Attrs, disabled: BOOLEAN, memberOf: SUBSET CNs]

(***************************************************************************)
(* A row of the groups table (state.SyncedGroup).  members is the JSON     *)
(* text of the Members column: usernames after SyncMembership, DNs (here   *)
(* GUIDs) after SyncGroups.  hasId is FALSE for the empty SCIMGroupID.     *)
(***************************************************************************)
GroupRow == [cn: CNs, members: SUBSET (Names \cup Guids), hasId: BOOLEAN]

(***************************************************************************)
(* What a group search returns of a group (ldap.ADGroup).                  *)
(***************************************************************************)
GroupData == [cn: CNs, members: SUBSET Guids]

\* None is nothing else, and a DN is no username.
ASSUME TypesAssumption ==
    /\ None \notin Guids \cup UserData \cup GroupRow \cup GroupData
    /\ Names \cap Guids = {}
=============================================================================
