--------------------------- MODULE Administration ---------------------------
(***************************************************************************)
(* The constants of Permissions, Departments, Users and Dictionaries.      *)
(***************************************************************************)
EXTENDS Naturals, FiniteSets

CONSTANTS
    Worker,   \* request handlers that can be in flight at one time
    None      \* SQL NULL, and a field that a request leaves alone

\* Permissions
CONSTANTS
    Role,              \* roles
    Menu, Function,    \* ALL_MENU_KEYS, ALL_FUNCTION_KEYS
    SystemMenu,        \* "/profile"
    DefaultMenus, DefaultFunctions,   \* what a role without rows has
    Base,              \* MENU_BASE_FUNCTIONS: what a menu brings
    Requires,          \* FUNCTION_INHERITANCE: what a function brings
    Packs,             \* functions added to rows written before there were such
    MenuLists, FunctionLists   \* the lists that administrators send

ASSUME PermissionConstants ==
    /\ Menu \cap Function = {}
    /\ SystemMenu \in Menu
    /\ DefaultMenus \in [Role -> SUBSET Menu]
    /\ DefaultFunctions \in [Role -> SUBSET Function]
    /\ Base \in [Menu -> SUBSET Function]
    /\ Requires \in [Function -> SUBSET Function]
    /\ Packs \subseteq [role : Role, menu : Menu, given : SUBSET Function,
                       unless : SUBSET Function, adds : SUBSET Function]
    /\ MenuLists \subseteq SUBSET Menu
    /\ FunctionLists \subseteq SUBSET Function
    /\ None \notin Role

\* Departments
CONSTANT
    Department   \* department ids

ASSUME DepartmentConstants == None \notin Department

\* Users
CONSTANTS
    User,        \* user ids
    Seeded       \* the administrator that the database is seeded with

ASSUME UserConstants ==
    /\ IsFiniteSet(User)
    /\ None \notin User \cup BOOLEAN
    /\ Seeded \in User

\* Dictionaries
CONSTANTS
    Item,     \* dictionary ids
    Type,     \* types of the dictionary, as they are written
    TypeKey,  \* the same in capitals and without blanks around
    Bodies    \* what requests to update an item send

ASSUME DictionaryConstants ==
    /\ None \notin Item \cup Type \cup BOOLEAN
    /\ TypeKey \in [Type -> Type]
    /\ Bodies \subseteq [type : Type \cup {None}, isDefault : BOOLEAN \cup {None},
                         isEnabled : BOOLEAN \cup {None}]

=============================================================================
