------------------------------- MODULE MCRaft -------------------------------
(***************************************************************************)
(* Instances of Raft for TLC: who may stand for election and how far a     *)
(* leader may append, term by term.                                        *)
(***************************************************************************)
EXTENDS Raft, TLC

CONSTANTS s1, s2, s3

\* Electable.
Anyone      == [t \in 1 .. MaxTerm |-> Server]
OnlyFirst   == [t \in 1 .. MaxTerm |-> {s1}]
TakingTurns == [t \in 1 .. MaxTerm |-> IF t % 2 = 1 THEN {s1} ELSE {s3}]
ThirdLast   == [t \in 1 .. MaxTerm |-> IF t < MaxTerm THEN {s1} ELSE {s3}]

\* MaxIndex.
NoEntries  == [t \in 1 .. MaxTerm |-> 0]
OneEntry   == [t \in 1 .. MaxTerm |-> 1]
TwoEntries == [t \in 1 .. MaxTerm |-> 2]
TwoNoneOne == <<2, 0, 1>>
TwoOneTwo  == <<2, 1, 0, 0, 2, 0>>

\* Constraints: in some terms some servers hear nothing but RequestVote.
Hears(link) ==
    \A m \in net : m.type \in {"AppendEntries", "InstallSnapshot"}
                   => <<m.src, m.dst>> \in link[m.Term]
SecondOnlyVotes == Hears([t \in 1 .. MaxTerm |-> {<<s1, s3>>, <<s3, s1>>}])
OneLinkPerTerm  == Hears(<<{}, {}, {<<s1, s2>>}, {<<s3, s1>>}, {}, {}>>)

\* A constraint: replication starts with both entries, and the second server only
\* stores them: it does not hear that they are committed.
SecondOnlyStores ==
    /\ commitIndex[s2] = 0
    /\ \A m \in net : m.type = "AppendEntries" => lastLogIndex(s1) = 2

Symmetry == {p \in Permutations(Server) :
               \A t \in 1 .. MaxTerm : {p[i] : i \in Electable[t]} = Electable[t]}
=============================================================================
