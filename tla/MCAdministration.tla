-------------------------- MODULE MCAdministration --------------------------
(***************************************************************************)
(* What administrators look after: the permissions of roles, departments,  *)
(* users and the data dictionary.  The four services write different       *)
(* tables, so a behaviour of them together is one of each, and TLC         *)
(* explores them one at a time: `part' says which.                         *)
(***************************************************************************)
EXTENDS Departments, TLC

VARIABLES
    part,
    rows, cache, roleReq,
    user, userReq,
    dictionary, byTypeCache, itemReq

Roles == INSTANCE Permissions WITH req <- roleReq
Accounts == INSTANCE Users WITH req <- userReq
Values == INSTANCE Dictionaries WITH req <- itemReq

roleVars == <<rows, cache, roleReq>>
userVars == <<user, userReq>>
itemVars == <<dictionary, byTypeCache, itemReq>>
allVars == <<part, vars, roleVars, userVars, itemVars>>

-----------------------------------------------------------------------------
\* A role that has one function before anybody configures it; one menu brings
\* the function that it requires, another one brings it back.
CONSTANTS profile, menu1, menu2, view, edit

MenusOf == [r \in Role |-> {profile}]
FunctionsOf == [r \in Role |-> {edit}]
BaseOf == [m \in Menu |-> IF m = menu1 THEN {view} ELSE {}]
RequiresOf == [f \in Function |-> IF f = edit THEN {view} ELSE {}]
PacksOf ==
    {[role |-> r, menu |-> menu2, given |-> {}, unless |-> {edit}, adds |-> {edit}] : r \in Role}
SentMenus == {{menu1}, {menu2}}
SentFunctions == {{edit}}

Nothing == [type |-> None, isDefault |-> None, isEnabled |-> None]
\* Two spellings of one type, and another type.
CONSTANTS t1, t2, t3
KeyOf == [t \in Type |-> IF t = t2 THEN t1 ELSE t]

SentBodies ==
    {[Nothing EXCEPT !.type = t3],
     [Nothing EXCEPT !.isDefault = TRUE, !.isEnabled = FALSE]}

-----------------------------------------------------------------------------
InitAll ==
    /\ part \in {"permissions", "departments", "users", "dictionaries"}
    /\ Init /\ Roles!Init /\ Accounts!Init /\ Values!Init

OnlyTree == part = "departments" /\ UNCHANGED <<part, roleVars, userVars, itemVars>>
OnlyRoles == part = "permissions" /\ UNCHANGED <<part, vars, userVars, itemVars>>
OnlyUsers == part = "users" /\ UNCHANGED <<part, vars, roleVars, itemVars>>
OnlyValues == part = "dictionaries" /\ UNCHANGED <<part, vars, roleVars, userVars>>

NextOfOne ==
    \/ OnlyTree /\ Next
    \/ OnlyRoles /\ Roles!Next
    \/ OnlyUsers /\ Accounts!Next
    \/ OnlyValues /\ Values!Next

\* As each module says; the services that are not explored have nothing to do.
FairnessOfOne ==
    /\ \A w \in Worker : WF_allVars(OnlyTree /\ Walk(w))
    /\ \A w \in Worker : WF_allVars(OnlyRoles /\ Roles!Step(w))
    /\ \A r \in Role : WF_allVars(OnlyRoles /\ Roles!Expire(r))
    /\ \A w \in Worker : WF_allVars(OnlyValues /\ Values!Step(w))
    /\ \A t \in Type : WF_allVars(OnlyValues /\ Values!Expire(t))

SpecAll == InitAll /\ [][NextOfOne]_allVars /\ FairnessOfOne

-----------------------------------------------------------------------------
\* Every table and every handler is as its module says; the other properties
\* of Departments are checked as they stand.
TypesOK == TypeOK /\ Roles!TypeOK /\ Accounts!TypeOK /\ Values!TypeOK

\* See Permissions.
MenusAreChosen == Roles!MenusAreChosen

\* See Users.
RemovalKeepsAdmin == Accounts!RemovalKeepsAdmin

\* Whatever a read stored after a write dropped it, readers get in the end what
\* was changed for good: the permissions of a role (see Permissions) and the
\* values of a type (see Dictionaries).
ChangesReach == Roles!RevocationReaches /\ Values!WithdrawalReaches

=============================================================================
