----------------------------- MODULE MCSessions -----------------------------
(* The two parts of the package sessions/, which no code lets meet: in each *)
(* behaviour one of them, the persistence or the forks.                     *)
EXTENDS SessionPersistence, SessionForking, TLC

CONSTANTS Parts

VARIABLES part

ASSUME Parts \subseteq {"persistence", "forks"}

MCInit == part \in Parts /\ Init /\ ForksInit

MCNext ==
    \/ part = "persistence" /\ Next /\ UNCHANGED <<part, forkVars>>
    \/ part = "forks" /\ ForksNext /\ UNCHANGED <<part, vars>>

MCSpec == MCInit /\ [][MCNext]_<<part, vars, forkVars>>

\* Three outputs of which two print alike, as 1 and "1" do.
MCText(o) == CASE o = "one" -> "1" [] o = "'one'" -> "1" [] OTHER -> "2"

Symmetry ==
    Permutations(Sids) \cup Permutations(Clients) \cup Permutations(Keys)
=============================================================================
