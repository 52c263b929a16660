--------------------------------- MODULE Version ---------------------------------
(***************************************************************************)
(* FeatureFlag.SupportsVersion: whether an agent's version is at least the *)
(* one that brought a feature, component by component from the left.  A    *)
(* component is what strconv.Atoi makes of it, NaN where that fails.       *)
(***************************************************************************)
EXTENDS Naturals, Sequences

CONSTANTS
    NaN,        \* a component that is not a number
    Numbers,    \* the numbers of components
    MaxParts    \* bound: components of a version

(* A machine integer has a largest value, and so have the components. *)
ASSUME VersionAssumption ==
    /\ Numbers \subseteq Nat /\ NaN \notin Numbers /\ MaxParts \in Nat
    /\ \E largest \in Numbers : \A c \in Numbers : c <= largest

VARIABLES
    flag,      \* the version that brought the feature
    agent,     \* the agent's version
    i,         \* the component to look at
    supports   \* "unknown", "yes" or "no"

versionVars == <<flag, agent, i, supports>>

Versions == UNION {[1 .. n -> Numbers \union {NaN}] : n \in 1 .. MaxParts}

VersionInit ==
    /\ flag \in Versions
    /\ agent \in Versions
    /\ i = 1
    /\ supports = "unknown"

Answer(a) == supports' = a /\ UNCHANGED <<flag, agent, i>>

Looking == supports = "unknown" /\ Len(flag) = Len(agent) /\ i <= Len(flag)

(* "versions simply aren't comparable" *)
DifferentLength ==
    supports = "unknown" /\ Len(flag) # Len(agent) /\ Answer("no")

NotANumber == Looking /\ NaN \in {flag[i], agent[i]} /\ Answer("no")

Numeric == Looking /\ NaN \notin {flag[i], agent[i]}

Newer == Numeric /\ agent[i] > flag[i] /\ Answer("yes")

(* A slip that lets an old version pass if a later component is newer. *)
OlderLooksOn ==
    Numeric /\ agent[i] < flag[i] /\ i' = i + 1 /\ UNCHANGED <<flag, agent, supports>>

Older == Numeric /\ agent[i] < flag[i] /\ Answer("no")

Same ==
    /\ Numeric /\ agent[i] = flag[i]
    /\ i' = i + 1
    /\ UNCHANGED <<flag, agent, supports>>

Equal ==
    /\ supports = "unknown" /\ Len(flag) = Len(agent) /\ i > Len(flag)
    /\ Answer("yes")

VersionNext == DifferentLength \/ NotANumber \/ Newer \/ Older \/ Same \/ Equal

VersionSpec == VersionInit /\ [][VersionNext]_versionVars

--------------------------------------------------------------------------------
(* Properties.                                                               *)

(* A base no component reaches. *)
Base == CHOOSE b \in {c + 1 : c \in Numbers} : \A c \in Numbers : c < b

(* The first k components as one number in that base, for every k up to n. *)
Values(v, n) ==
    LET value[k \in 0 .. n] == IF k = 0 THEN 0 ELSE value[k - 1] * Base + v[k]
    IN  value

(* How many components come before one that is not a number in either. *)
NumericParts ==
    CHOOSE n \in 0 .. Len(flag) :
        /\ \A k \in 1 .. n : NaN \notin {flag[k], agent[k]}
        /\ n < Len(flag) => NaN \in {flag[n + 1], agent[n + 1]}

(* An agent is said to have the feature only if its version is at least the   *)
(* flag's, read as numbers, and strictly newer within those there are if a    *)
(* component is not a number; and of versions of one length that are numbers  *)
(* throughout only an older one is said to lack it.                           *)
VersionIsOrder ==
    LET n == NumericParts
        allNumbers == n = Len(flag)
        new == Values(agent, n)[n]
        old == Values(flag, n)[n]
    IN  /\ supports = "yes" =>
              /\ Len(flag) = Len(agent)
              /\ new >= old + (IF allNumbers THEN 0 ELSE 1)
        /\ supports = "no" /\ Len(flag) = Len(agent) /\ allNumbers => new < old

================================================================================
