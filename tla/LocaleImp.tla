------------------------------- MODULE LocaleImp -------------------------------
(***************************************************************************)
(* Locales (src/locale.cpp): a locale is a handle on a counted __imp, an   *)
(* __imp a vector of counted facets.  An __imp is never changed once it is *)
(* built; to build it, facets of one or two others are shared and new ones *)
(* installed one by one, and each of them may throw.                       *)
(***************************************************************************)
EXTENDS Integers, FiniteSets, FiniteSetsExt

CONSTANTS
  Locales,     \* the locale objects of the program
  Facets,      \* the facet objects there can be at a time
  c0, c1,      \* the facets of the classic locale
  UserIds,     \* the ids of facets of the program; 0 and 1 are the standard ones
  MaxImps,     \* bound: the __imps there can be at a time
  MaxCalls     \* bound: the constructions

VARIABLES
  imp,         \* the __imps: their owners and facets
  owners,      \* the owners of each facet, 0 when it does not exist
  locale,      \* the __imp of each locale object, and that of the global locale
  building,    \* the __imp under construction
  misused,     \* a facet or an __imp was used that does not exist
  leaked,      \* history: the owners of each facet that nothing will release
  calls

lvars == <<imp, owners, locale, building, misused, leaked, calls>>

None == 0
Standard == {0, 1}
Ids == Standard \cup UserIds
Global == "global"
Handles == Locales \cup {Global}
Classic == 1
NoImp == [owners |-> 0, facets |-> [i \in Ids |-> None]]
NotBuilding == [by |-> None]
Slots(facets, f) == Cardinality({i \in Ids : facets[i] = f})

Init ==
  /\ imp = [n \in 1..MaxImps |->
       IF n = Classic
       THEN [owners |-> 2, facets |-> [i \in Ids |-> CASE i = 0 -> c0 [] i = 1 -> c1 [] OTHER -> None]]
       ELSE NoImp]
  /\ owners = [f \in Facets |-> IF f \in {c0, c1} THEN 2 ELSE 0]
  /\ locale = [l \in Handles |-> IF l = Global THEN Classic ELSE None]
  /\ building = NotBuilding
  /\ misused = FALSE
  /\ leaked = [f \in Facets |-> 0]
  /\ calls = 0

(* ~__imp: every facet is released.                                        *)
Released(count, facets) == [f \in Facets |-> count[f] - Slots(facets, f)]
Shared(count, facets) == [f \in Facets |-> count[f] + Slots(facets, f)]

(* __add_shared on to, __release_shared on from, in this order.            *)
Exchange(from, to) ==
  LET added == IF to = None THEN imp ELSE [imp EXCEPT ![to].owners = @ + 1]
      dies == from # None /\ added[from].owners = 1
  IN
  /\ imp' = CASE from = None -> added
              [] dies -> [added EXCEPT ![from] = NoImp]
              [] OTHER -> [added EXCEPT ![from].owners = @ - 1]
  /\ owners' = IF dies THEN Released(owners, imp[from].facets) ELSE owners
  /\ misused' = (misused \/ (to # None /\ imp'[to] = NoImp))
  /\ UNCHANGED <<building, leaked, calls>>
-----------------------------------------------------------------------------
Idle == building = NotBuilding

(* locale(), locale(const locale&).                                        *)
Copy(l, from) ==
  /\ Idle
  /\ locale[l] = None /\ locale[from] # None
  /\ Exchange(None, locale[from])
  /\ locale' = [locale EXCEPT ![l] = locale[from]]

(* operator=                                                               *)
Assign(l, from) ==
  /\ Idle
  /\ locale[l] # None /\ locale[from] # None
  /\ Exchange(locale[l], locale[from])
  /\ locale' = [locale EXCEPT ![l] = locale[from]]

Destroy(l) ==
  /\ Idle
  /\ l # Global /\ locale[l] # None
  /\ Exchange(locale[l], None)
  /\ locale' = [locale EXCEPT ![l] = None]
-----------------------------------------------------------------------------
(* The constructors of __imp share the facets of other, and have those of  *)
(* the ids todo to install: new ones, or those of one.                     *)
Begin(l, other, one, todo) ==
  LET n == CHOOSE m \in 1..MaxImps : imp[m] = NoImp IN
  /\ Idle
  /\ calls < MaxCalls /\ calls' = calls + 1
  /\ locale[l] = None
  /\ \E m \in 1..MaxImps : imp[m] = NoImp
  /\ owners' = Shared(owners, imp[other].facets)
  /\ building' = [by |-> l, imp |-> n, facets |-> imp[other].facets, one |-> one, todo |-> todo]
  /\ UNCHANGED <<imp, locale, misused, leaked>>

(* locale(name), locale(other, name, c), locale(other, one, c)             *)
BeginNamed(l) == Begin(l, Classic, None, Standard)
BeginCategory(l, other, c) == locale[other] # None /\ Begin(l, locale[other], None, c)
BeginCombine(l, other, one, c) ==
  locale[other] # None /\ locale[one] # None /\ Begin(l, locale[other], locale[one], c)

(* install: the facet is shared before the one in its place is released.   *)
Install(f, i) ==
  /\ building' = [building EXCEPT !.facets[i] = f, !.todo = @ \ {i}]
  /\ owners' = [g \in Facets |->
       owners[g] + (IF g = f THEN 1 ELSE 0) - (IF g = building.facets[i] THEN 1 ELSE 0)]
  /\ misused' = (misused \/ (building.one # None /\ owners[f] = 0))
  /\ UNCHANGED <<imp, locale, leaked, calls>>

InstallNew(f) ==
  /\ ~Idle
  /\ building.one = None
  /\ owners[f] = 0
  /\ \E i \in building.todo : (\A j \in building.todo : i <= j) /\ Install(f, i)

InstallFrom ==
  /\ ~Idle
  /\ building.one # None
  /\ \E i \in building.todo :
       /\ \A j \in building.todo : i <= j
       /\ imp[building.one].facets[i] # None
       /\ Install(imp[building.one].facets[i], i)

(* A facet of this name cannot be constructed.                             *)
(* Mutant: only the facets that were installed are released.               *)
InstallThrowsPartly ==
  /\ ~Idle
  /\ building.one = None /\ building.todo # {}
  /\ owners' = Released(owners, [i \in Ids |->
       IF i \in building.todo THEN None ELSE building.facets[i]])
  /\ building' = NotBuilding
  /\ UNCHANGED <<imp, locale, misused, leaked, calls>>
InstallThrows ==
  /\ ~Idle
  /\ building.one = None /\ building.todo # {}
  /\ owners' = Released(owners, building.facets)
  /\ building' = NotBuilding
  /\ UNCHANGED <<imp, locale, misused, leaked, calls>>

(* The locale is made.                                                     *)
Built ==
  /\ ~Idle
  /\ building.todo = {}
  /\ imp' = [imp EXCEPT ![building.imp] = [owners |-> 1, facets |-> building.facets]]
  /\ locale' = [locale EXCEPT ![building.by] = building.imp]
  /\ building' = NotBuilding
  /\ UNCHANGED <<owners, misused, leaked, calls>>

(* locale(other, f), with a new facet or one that some locale has; with no *)
(* facet it is a copy.  The vector has room for one more than other's, and *)
(* grows for an id beyond it.                                              *)
BeginInstall(l, other, f, i) ==
  /\ Idle
  /\ calls < MaxCalls /\ calls' = calls + 1
  /\ locale[l] = None /\ locale[other] # None
  /\ \E m \in 1..MaxImps : imp[m] = NoImp
  /\ owners[f] = 0 \/ \E m \in 1..MaxImps : imp[m].facets[i] = f

Install_ctor(l, other, f, i) ==
  LET n == CHOOSE m \in 1..MaxImps : imp[m] = NoImp
      new == [imp[locale[other]].facets EXCEPT ![i] = f]
  IN
  /\ BeginInstall(l, other, f, i)
  /\ imp' = [imp EXCEPT ![n] = [owners |-> 1, facets |-> new]]
  /\ owners' = Shared(owners, new)
  /\ locale' = [locale EXCEPT ![l] = n]
  /\ UNCHANGED <<building, misused, leaked>>

(* There is no memory to grow: f is given back by its two holders, a new   *)
(* facet ends with them; the facets of other, which are shared by then,    *)
(* are not, for no destructor of an __imp that is not built runs.          *)
Size(facets) == Max({i + 1 : i \in {j \in Ids : facets[j] # None}})

(* Mutant: neither is f.                                                   *)
InstallCtorThrowsHolding(l, other, f, i) ==
  LET old == imp[locale[other]].facets IN
  /\ BeginInstall(l, other, f, i)
  /\ i > Size(old)
  /\ owners' = Shared(owners, [old EXCEPT ![i] = f])
  /\ leaked' = Shared(leaked, old)
  /\ UNCHANGED <<imp, locale, building, misused>>
InstallCtorThrows(l, other, f, i) ==
  LET old == imp[locale[other]].facets IN
  /\ BeginInstall(l, other, f, i)
  /\ i > Size(old)
  /\ owners' = Shared(owners, old)
  /\ leaked' = Shared(leaked, old)
  /\ UNCHANGED <<imp, locale, building, misused>>

Next ==
  \/ \E l \in Handles, from \in Handles : Copy(l, from) \/ Assign(l, from)
  \/ \E l \in Locales : Destroy(l) \/ BeginNamed(l)
  \/ \E l \in Locales, other \in Handles, c \in SUBSET Standard \ {{}} :
       \/ BeginCategory(l, other, c)
       \/ \E one \in Handles : BeginCombine(l, other, one, c)
  \/ \E l \in Locales, other \in Handles, f \in Facets, i \in UserIds :
       Install_ctor(l, other, f, i) \/ InstallCtorThrows(l, other, f, i)
  \/ \E f \in Facets : InstallNew(f)
  \/ InstallFrom \/ InstallThrows \/ Built

Spec == Init /\ [][Next]_lvars
-----------------------------------------------------------------------------
(* A facet lives as long as an __imp that has it, through copies,          *)
(* assignments and constructions that throw, and an __imp as long as a     *)
(* locale that refers to it: nothing is used after its end and nothing is  *)
(* lost, but for the owners that a locale(other, f) has left behind which  *)
(* threw when it had shared the facets of other, and only those.  The      *)
(* classic locale has an owner of its own.                                 *)
CountsExact ==
  /\ ~misused
  /\ \A n \in 1..MaxImps :
       imp[n].owners = Cardinality({l \in Handles : locale[l] = n})
                       + (IF n = Classic THEN 1 ELSE 0)
  /\ \A f \in Facets :
       owners[f] = Cardinality({<<n, i>> \in (1..MaxImps) \X Ids : imp[n].facets[i] = f})
                   + (IF Idle THEN 0 ELSE Slots(building.facets, f))
                   + (IF f \in {c0, c1} THEN 1 ELSE 0)
                   + leaked[f]
================================================================================
