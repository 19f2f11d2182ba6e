------------------------- MODULE RaftElectionProofs -------------------------
(***************************************************************************)
(* Raft writes its persistent fields through to disk, votes once per term  *)
(* and elects at most one leader per term.                                 *)
(***************************************************************************)
EXTENDS RaftProofs

-----------------------------------------------------------------------------
(* What is on disk.                                                        *)

\* A step that changes the persistent fields of i alone and persists them.
LEMMA PersistSaves ==
    ASSUME TypeOK, Durable, NEW i \in Server, persist(i),
           \A j \in Server \ {i} :
              /\ CurrentTerm'[j] = CurrentTerm[j] /\ VotedFor'[j] = VotedFor[j]
              /\ Log'[j] = Log[j] /\ LastIncludedIndex'[j] = LastIncludedIndex[j]
              /\ SnapshotData'[j] = SnapshotData[j]
    PROVE  Durable'
<1> SUFFICES ASSUME NEW j \in Server
             PROVE  persisted'[j] = [CurrentTerm |-> CurrentTerm'[j], VotedFor |-> VotedFor'[j],
                        Log |-> Log'[j], SnapshotIndex |-> LastIncludedIndex'[j],
                        Snapshot |-> SnapshotData'[j]]
  BY Zenon DEF Durable
<1>1. CASE j = i
  BY <1>1 DEF persist, TypeOK
<1>2. CASE j # i
  BY <1>2, Zenon DEF persist, TypeOK, Durable
<1> QED BY <1>1, <1>2

\* A step that changes neither the persistent fields nor the disk.
LEMMA NothingToSave ==
    ASSUME Durable, UNCHANGED persistent
    PROVE  Durable'
BY DEF Durable, persistent

\* Stepping down after a reply of a newer term persists.
LEMMA StepDownSaves ==
    ASSUME TypeOK, Durable, NEW i \in Server, NEW term, StepDown(i, term)
    PROVE  Durable'
<1>1. persist(i)
  BY DEF StepDown
<1> QED BY <1>1, PersistSaves, Zenon DEF TypeOK, StepDown, becomeFollowerWithTerm, logVars

\* What a server does on its own is persisted where it must be: startElection,
\* Start and Snapshot persist, the others change no persistent field.
LEMMA DurableStep ==
    ASSUME TypeOK, Durable, NEW i \in Server, Step(i)
    PROVE  Durable'
<1>1. CASE startElection(i)
  <2>1. persist(i)
    BY <1>1 DEF startElection
  <2> QED BY <1>1, <2>1, PersistSaves, Zenon DEF TypeOK, startElection, logVars
<1>2. ASSUME NEW c \in Command, Start(i, c) PROVE Durable'
  <2>1. persist(i)
    BY <1>2 DEF Start
  <2> QED BY <1>2, <2>1, PersistSaves, Zenon DEF TypeOK, Start
<1>3. ASSUME NEW j \in Server, replicateToFollower(i, j) PROVE Durable'
  BY <1>3, NothingToSave DEF replicateToFollower, Panic
<1>4. CASE Snapshot(i)
  <2>1. CASE Panic(i)
    BY <2>1, NothingToSave DEF Panic
  <2>2. CASE ~Panic(i)
    <3>1. persist(i)
      BY <1>4, <2>2 DEF Snapshot
    <3> QED BY <1>4, <2>2, <3>1, PersistSaves, Zenon DEF TypeOK, Snapshot
  <2> QED BY <2>1, <2>2
<1>5. CASE ApplierTake(i) \/ ServiceReceive(i) \/ ApplierDone(i)
  BY <1>5, NothingToSave, Zenon DEF ApplierTake, ServiceReceive, ApplierDone
<1> QED BY <1>1, <1>2, <1>3, <1>4, <1>5, Zenon DEF Step

\* The handlers that skip persist change no persistent field: RequestVote without
\* a newer term or a grant, AppendEntries that finds every entry in place, a stale
\* InstallSnapshot.
LEMMA DurableHandle ==
    ASSUME TypeOK, Durable, NEW m \in net, Handle(m)
    PROVE  Durable'
<1> DEFINE i == m.dst
           newer == m.Term > CurrentTerm[i]
<1>1. i \in Server
  BY MessageKinds DEF TypeOK
<1>2. CASE RequestVote(m)
  <2>1. m.Term \in Nat /\ CurrentTerm[i] \in Nat
    <3>1. m \in VoteMsgs
      BY <1>2, MessageKinds, Zenon DEF TypeOK, RequestVote
    <3> QED BY <1>1, <3>1, Zenon DEF TypeOK, VoteMsgs
  <2>2. CASE persist(i)
    BY <1>1, <1>2, <2>2, PersistSaves, Zenon DEF TypeOK, RequestVote, logVars
  <2>3. CASE ~persist(i)
    <3> DEFINE grant == FreeToVote(m, i, VotedFor[i]) /\ LogUpToDate(m, i)
    <3>1. ~newer /\ UNCHANGED persisted /\ ~grant
      BY <1>2, <2>3 DEF RequestVote
    <3>2. Max2(m.Term, CurrentTerm[i]) = CurrentTerm[i]
      BY <2>1, <3>1 DEF Max2
    <3>3. UNCHANGED logVars
      BY <1>2, Zenon DEF RequestVote
    <3>4. CurrentTerm' = CurrentTerm /\ VotedFor' = VotedFor
      BY <1>1, <1>2, <3>1, <3>2, Zenon DEF TypeOK, RequestVote
    <3> QED BY <3>1, <3>3, <3>4, NothingToSave DEF persistent, logVars
  <2> QED BY <2>2, <2>3
<1>3. CASE RequestVoteReply(m)
  BY <1>1, <1>3, StepDownSaves, NothingToSave DEF RequestVoteReply
<1>4. CASE AppendEntries(m)
  <2>1. m.Term \in Nat /\ CurrentTerm[i] \in Nat
    <3>1. m \in AppendMsgs
      BY <1>4, MessageKinds DEF TypeOK, AppendEntries
    <3> QED BY <1>1, <3>1, Zenon DEF TypeOK, AppendMsgs
  <2> DEFINE log == IF CheckPrev(m, i).ok THEN Appended(m, i) ELSE Log[i]
  <2>2. CASE UNCHANGED persistent
    BY <2>2, NothingToSave
  <2>3. CASE ~UNCHANGED persistent
    <3>1. /\ m.Term >= CurrentTerm[i]
          /\ CurrentTerm' = [CurrentTerm EXCEPT ![i] = m.Term]
          /\ VotedFor' = [VotedFor EXCEPT ![i] = IF newer THEN Nil ELSE @]
          /\ Log' = [Log EXCEPT ![i] = log]
          /\ UNCHANGED <<LastIncludedIndex, SnapshotData>>
          /\ IF newer \/ log # Log[i] THEN persist(i) ELSE UNCHANGED persisted
      BY <1>4, <2>3, Zenon DEF AppendEntries
    <3>2. CASE persist(i)
      BY <1>1, <3>1, <3>2, PersistSaves, Zenon DEF TypeOK
    <3>3. CASE ~persist(i)
      <4>1. ~newer /\ log = Log[i] /\ UNCHANGED persisted
        BY <3>1, <3>3
      <4> HIDE DEF log
      <4>2. CurrentTerm' = CurrentTerm /\ VotedFor' = VotedFor /\ Log' = Log
        BY <1>1, <2>1, <3>1, <4>1 DEF TypeOK
      <4> QED BY <3>1, <4>1, <4>2, NothingToSave DEF persistent
    <3> QED BY <3>2, <3>3
  <2> QED BY <2>2, <2>3
<1>5. CASE AppendEntriesReply(m)
  BY <1>1, <1>5, StepDownSaves, NothingToSave DEF AppendEntriesReply, Panic
<1>6. CASE InstallSnapshot(m)
  <2> DEFINE ahead == m.Term >= CurrentTerm[i] /\ LastIncludedIndex[i] < m.LastIncludedIndex
  <2>1. /\ IF newer THEN becomeFollowerWithTerm(i, m.Term) ELSE UNCHANGED termVars
        /\ IF ahead
           THEN /\ Log' = [Log EXCEPT ![i] = LogAfter(m, i)]
                /\ LastIncludedIndex' = [LastIncludedIndex EXCEPT ![i] = m.LastIncludedIndex]
                /\ SnapshotData' = [SnapshotData EXCEPT ![i] = m.Data]
           ELSE UNCHANGED logVars
        /\ IF newer \/ ahead THEN persist(i) ELSE UNCHANGED persisted
    BY <1>6, Zenon DEF InstallSnapshot
  <2>2. CASE persist(i)
    <3>1. \A j \in Server \ {i} : CurrentTerm'[j] = CurrentTerm[j] /\ VotedFor'[j] = VotedFor[j]
      BY <1>1, <2>1, ZenonT(40) DEF TypeOK, becomeFollowerWithTerm, termVars
    <3>2. \A j \in Server \ {i} :
            /\ Log'[j] = Log[j] /\ LastIncludedIndex'[j] = LastIncludedIndex[j]
            /\ SnapshotData'[j] = SnapshotData[j]
      <4>1. /\ Log \in [Server -> Seq(Entry)] /\ LastIncludedIndex \in [Server -> Nat]
            /\ SnapshotData \in [Server -> Seq(Entry)]
        BY DEF TypeOK
      <4> QED BY <1>1, <2>1, <4>1 DEF logVars
    <3> QED BY <1>1, <2>2, <3>1, <3>2, PersistSaves, Zenon
  <2>3. CASE ~persist(i)
    BY <2>1, <2>3, NothingToSave DEF persistent, termVars, logVars
  <2> QED BY <2>2, <2>3
<1>7. CASE InstallSnapshotReply(m)
  BY <1>1, <1>7, StepDownSaves, NothingToSave, Zenon DEF InstallSnapshotReply
<1> QED BY <1>2, <1>3, <1>4, <1>5, <1>6, <1>7 DEF Handle

\* A restart finds on disk the fields the server had.
LEMMA RestartRecovers ==
    ASSUME TypeOK, Durable, NEW i \in Server, Restart(i)
    PROVE  UNCHANGED persistent
BY DEF TypeOK, Durable, Restart, persistent

\* A server without a saved state reads what it starts with.
LEMMA InitDurable == Init => Durable
BY DEF Init, Durable

\* Every step keeps memory and disk equal.
LEMMA NextDurable ==
    ASSUME TypeOK, Durable, [Next]_vars
    PROVE  Durable'
<1>1. CASE UNCHANGED vars
  BY <1>1, NothingToSave DEF vars, persistent
<1>2. ASSUME NEW m \in net, Lose(m) PROVE Durable'
  BY <1>2, NothingToSave DEF Lose
<1>3. ASSUME NEW i \in Server, Restart(i) PROVE Durable'
  BY <1>3, RestartRecovers, NothingToSave
<1> QED BY <1>1, <1>2, <1>3, DurableStep, DurableHandle DEF Next

\* The disk always equals the persistent fields in memory (persist, and every
\* handler that should call it).
THEOREM WriteThrough == Spec => []Durable
<1>1. Init => TypeOK /\ Durable
  BY InitType, InitDurable
<1>2. TypeOK /\ Durable /\ [Next]_vars => (TypeOK /\ Durable)'
  BY NextType, NextDurable
<1> QED BY <1>1, <1>2, PTL DEF Spec

-----------------------------------------------------------------------------
(* Votes. ElectionSafety is not inductive: it rests on where every vote is *)
(* between the handler that grants it and the count that uses it.          *)

\* The vote of j for candidate i in term t is under way or counted.
VoteFor(j, t, i) ==
    \/ \E m \in net : /\ m.type = "RequestVoteReply" /\ m.VoteGranted
                      /\ m.src = j /\ m.dst = i /\ m.Term = t
    \/ j \in votes[i] /\ state[i] # "follower" /\ CurrentTerm[i] = t

\* A vote is one the voter still stands by or has outgrown, no voter has voted
\* for two candidates of a term, and a leader has the votes of a majority.
VoteInv ==
    /\ \A i, j \in Server, t \in Nat :
          VoteFor(j, t, i) => t <= CurrentTerm[j] /\ (t = CurrentTerm[j] => VotedFor[j] = i)
    /\ \A i, k, j \in Server, t \in Nat : VoteFor(j, t, i) /\ VoteFor(j, t, k) => i = k
    /\ \A i \in Server : state[i] = "leader" => Majority(votes[i])

\* What a step may do to a server's term and vote.
VoteKept ==
    \A i \in Server :
        /\ CurrentTerm'[i] >= CurrentTerm[i]
        /\ CurrentTerm'[i] = CurrentTerm[i] /\ VotedFor[i] # Nil => VotedFor'[i] = VotedFor[i]

\* A vote a step brings about is the one its voter has just recorded.
VotesRecorded ==
    \A i, j \in Server, t \in Nat :
        VoteFor(j, t, i)' => VoteFor(j, t, i) \/ (t = CurrentTerm'[j] /\ VotedFor'[j] = i)

\* A leader is one already or has just counted a majority.
LeaderElected == \A i \in Server : state'[i] = "leader" => Majority(votes'[i])

\* A step that does these three things keeps the votes consistent.
LEMMA VotesStayConsistent ==
    ASSUME TypeOK, TypeOK', VoteInv, VoteKept, VotesRecorded, LeaderElected
    PROVE  VoteInv'
<1>1. ASSUME NEW i \in Server, NEW j \in Server, NEW t \in Nat, VoteFor(j, t, i)'
      PROVE  t <= CurrentTerm'[j] /\ (t = CurrentTerm'[j] => VotedFor'[j] = i)
  <2>1. CurrentTerm[j] \in Nat /\ CurrentTerm'[j] \in Nat /\ CurrentTerm'[j] >= CurrentTerm[j]
    BY DEF TypeOK, VoteKept
  <2>2. CASE VoteFor(j, t, i)
    <3>1. t <= CurrentTerm[j] /\ (t = CurrentTerm[j] => VotedFor[j] = i)
      BY <2>2 DEF VoteInv
    <3>2. i # Nil
      BY ServerAssumption
    <3> QED BY <2>1, <3>1, <3>2 DEF VoteKept
  <2>3. CASE t = CurrentTerm'[j] /\ VotedFor'[j] = i
    BY <2>1, <2>3
  <2> QED BY <1>1, <2>2, <2>3, Zenon DEF VotesRecorded
<1>2. ASSUME NEW i \in Server, NEW k \in Server, NEW j \in Server, NEW t \in Nat,
             VoteFor(j, t, i)', VoteFor(j, t, k)'
      PROVE  i = k
  <2>1. CASE t = CurrentTerm'[j]
    BY <1>1, <1>2, <2>1
  <2>2. CASE t # CurrentTerm'[j]
    <3>1. VoteFor(j, t, i) /\ VoteFor(j, t, k)
      BY <1>2, <2>2 DEF VotesRecorded
    <3> QED BY <3>1 DEF VoteInv
  <2> QED BY <2>1, <2>2
<1> QED BY <1>1, <1>2 DEF VoteInv, LeaderElected

\* A step that leaves terms, votes and their count alone and sends no vote.
LEMMA NoVoting ==
    ASSUME TypeOK, VoteInv, UNCHANGED <<termVars, votes>>,
           \A m \in net' \ net : m.type # "RequestVoteReply"
    PROVE  VoteKept /\ VotesRecorded /\ LeaderElected
<1>1. VoteKept
  BY DEF TypeOK, VoteKept, termVars
<1>2. VotesRecorded
  BY DEF VotesRecorded, VoteFor, termVars
<1>3. LeaderElected
  BY DEF LeaderElected, VoteInv, Majority, termVars
<1> QED BY <1>1, <1>2, <1>3

\* A step in which server i alone moves to a later term, or stays in its term
\* and keeps its vote, and either stays what it was or ends as a follower.
LEMMA Yielding ==
    ASSUME TypeOK, TypeOK', VoteInv, NEW i \in Server, UNCHANGED votes,
           \A m \in net' \ net : m.type # "RequestVoteReply",
           \A j \in Server \ {i} :
               /\ CurrentTerm'[j] = CurrentTerm[j] /\ VotedFor'[j] = VotedFor[j]
               /\ state'[j] = state[j],
           CurrentTerm'[i] >= CurrentTerm[i],
           CurrentTerm'[i] = CurrentTerm[i] => VotedFor'[i] = VotedFor[i],
           \/ state'[i] = "follower"
           \/ CurrentTerm'[i] = CurrentTerm[i] /\ state'[i] = state[i]
    PROVE  VoteKept /\ VotesRecorded /\ LeaderElected
<1>1. VoteKept
  <2> SUFFICES ASSUME NEW j \in Server
               PROVE  /\ CurrentTerm'[j] >= CurrentTerm[j]
                      /\ CurrentTerm'[j] = CurrentTerm[j] => VotedFor'[j] = VotedFor[j]
    BY DEF VoteKept
  <2>1. CASE j = i
    BY <2>1
  <2>2. CASE j # i
    <3>1. CurrentTerm[j] \in Nat
      BY DEF TypeOK
    <3> QED BY <2>2, <3>1, SMTT(40)
  <2> QED BY <2>1, <2>2
<1>2. VotesRecorded
  <2> SUFFICES ASSUME NEW k \in Server, NEW j \in Server, NEW t \in Nat, VoteFor(j, t, k)'
               PROVE  VoteFor(j, t, k)
    BY DEF VotesRecorded
  <2> QED BY DEF VoteFor
<1>3. LeaderElected
  BY DEF LeaderElected, VoteInv, Majority
<1> QED BY <1>1, <1>2, <1>3

\* What a server does on its own: startElection votes for itself in a new term.
LEMMA VotesStep ==
    ASSUME TypeOK, TypeOK', VoteInv, NEW i \in Server, Step(i)
    PROVE  VoteKept /\ VotesRecorded /\ LeaderElected
<1>1. CASE startElection(i)
  <2>a. /\ CurrentTerm' = [CurrentTerm EXCEPT ![i] = @ + 1]
        /\ VotedFor' = [VotedFor EXCEPT ![i] = i]
        /\ state' = [state EXCEPT ![i] = "candidate"]
        /\ votes' = [votes EXCEPT ![i] = {i}]
    BY <1>1, Zenon DEF startElection
  <2>b. /\ CurrentTerm \in [Server -> Nat] /\ VotedFor \in [Server -> Server \cup {Nil}]
        /\ state \in [Server -> {"follower", "candidate", "leader"}]
        /\ votes \in [Server -> SUBSET Server]
    BY Zenon DEF TypeOK
  <2>1. CurrentTerm[i] \in Nat /\ CurrentTerm'[i] = CurrentTerm[i] + 1 /\ VotedFor'[i] = i
    BY <2>a, <2>b, Zenon
  <2>2. votes'[i] = {i} /\ state'[i] = "candidate"
    BY <2>a, <2>b, Zenon
  <2>3. \A j \in Server \ {i} :
           /\ CurrentTerm'[j] = CurrentTerm[j] /\ VotedFor'[j] = VotedFor[j]
           /\ state'[j] = state[j] /\ votes'[j] = votes[j] /\ CurrentTerm[j] \in Nat
    BY <2>a, <2>b, Zenon
  <2>4. \A m \in net' \ net : m.type # "RequestVoteReply"
    BY <1>1 DEF startElection, Transmit
  <2>5. VoteKept
    <3> SUFFICES ASSUME NEW j \in Server
                 PROVE  /\ CurrentTerm'[j] >= CurrentTerm[j]
                        /\ CurrentTerm'[j] = CurrentTerm[j] => VotedFor'[j] = VotedFor[j]
      BY DEF VoteKept
    <3>1. CASE j = i
      BY <2>1, <3>1
    <3>2. CASE j # i
      BY <2>3, <3>2
    <3> QED BY <3>1, <3>2
  <2>6. VotesRecorded
    <3> SUFFICES ASSUME NEW k \in Server, NEW j \in Server, NEW t \in Nat, VoteFor(j, t, k)'
                 PROVE  VoteFor(j, t, k) \/ (t = CurrentTerm'[j] /\ VotedFor'[j] = k)
      BY DEF VotesRecorded
    <3>1. CASE k = i
      BY <2>1, <2>2, <2>4, <3>1, Zenon DEF VoteFor
    <3>2. CASE k # i
      BY <2>3, <2>4, <3>2, Zenon DEF VoteFor
    <3> QED BY <3>1, <3>2
  <2>7. LeaderElected
    BY <2>2, <2>3, Zenon DEF LeaderElected, VoteInv, Majority
  <2> QED BY <2>5, <2>6, <2>7, Zenon
<1>2. ASSUME NEW c \in Command, Start(i, c)
      PROVE  VoteKept /\ VotesRecorded /\ LeaderElected
  BY <1>2, NoVoting DEF Start, electVars, termVars
<1>3. ASSUME NEW j \in Server, replicateToFollower(i, j)
      PROVE  VoteKept /\ VotesRecorded /\ LeaderElected
  <2>1. UNCHANGED <<termVars, votes>>
    BY <1>3, Zenon DEF replicateToFollower, Panic, persistent, electVars, termVars
  <2>2. newAppendEntriesArgsFor(i, j).type # "RequestVoteReply"
    BY Zenon DEF newAppendEntriesArgsFor
  <2>3. newInstallSnapshotArgs(i, j).type # "RequestVoteReply"
    BY Zenon DEF newInstallSnapshotArgs
  <2>4. net' \ net \subseteq {newAppendEntriesArgsFor(i, j), newInstallSnapshotArgs(i, j)}
    BY <1>3 DEF replicateToFollower, Transmit
  <2> QED BY <2>1, <2>2, <2>3, <2>4, NoVoting, Zenon
<1>4. CASE Snapshot(i)
  BY <1>4, NoVoting, Zenon DEF Snapshot, Panic, persistent, electVars, termVars
<1>5. CASE ApplierTake(i) \/ ServiceReceive(i) \/ ApplierDone(i)
  BY <1>5, NoVoting, ZenonT(40) DEF ApplierTake, ServiceReceive, ApplierDone, persistent, electVars, termVars
<1> QED BY <1>1, <1>2, <1>3, <1>4, <1>5 DEF Step

\* StepDown, in a step that sends no vote.
LEMMA StepDownYields ==
    ASSUME TypeOK, TypeOK', VoteInv, NEW i \in Server, NEW term \in Nat,
           term > CurrentTerm[i], StepDown(i, term), net' \subseteq net
    PROVE  VoteKept /\ VotesRecorded /\ LeaderElected
<1>1. CurrentTerm'[i] = term /\ state'[i] = "follower" /\ CurrentTerm[i] \in Nat
  BY SMTT(40) DEF TypeOK, StepDown, becomeFollowerWithTerm
<1>2. \A j \in Server \ {i} :
         /\ CurrentTerm'[j] = CurrentTerm[j] /\ VotedFor'[j] = VotedFor[j]
         /\ state'[j] = state[j]
  BY DEF TypeOK, StepDown, becomeFollowerWithTerm
<1>3. UNCHANGED votes
  BY DEF StepDown, electVars
<1>4. CurrentTerm'[i] >= CurrentTerm[i] /\ CurrentTerm'[i] # CurrentTerm[i]
  BY <1>1
<1> QED BY <1>1, <1>2, <1>3, <1>4, Yielding

\* The RequestVote handler sends a vote only after recording it.
LEMMA RequestVoteVotes ==
    ASSUME TypeOK, TypeOK', VoteInv, NEW m \in net, RequestVote(m)
    PROVE  VoteKept /\ VotesRecorded /\ LeaderElected
<1> DEFINE i     == m.dst
           newer == m.Term > CurrentTerm[i]
           voted == IF newer THEN Nil ELSE VotedFor[i]
           free  == FreeToVote(m, i, voted)
           grant == free /\ LogUpToDate(m, i)
           term  == Max2(m.Term, CurrentTerm[i])
<1>1. i \in Server /\ m.src \in Server /\ m.Term \in Nat /\ CurrentTerm[i] \in Nat
  <2>1. m \in VoteMsgs
    BY MessageKinds, Zenon DEF TypeOK, RequestVote
  <2>2. m.dst \in Server /\ m.src \in Server /\ m.Term \in Nat
    BY <2>1, Zenon DEF VoteMsgs
  <2> QED BY <2>2, ZenonT(40) DEF TypeOK
<1>2. /\ CurrentTerm'[i] = term /\ VotedFor'[i] = (IF grant THEN m.src ELSE voted)
      /\ state'[i] = (IF newer \/ grant THEN "follower" ELSE state[i])
  <2> DEFINE vote == IF grant THEN m.src ELSE voted
             role == IF newer \/ grant THEN "follower" ELSE state[i]
  <2>1. /\ CurrentTerm' = [CurrentTerm EXCEPT ![i] = term]
        /\ VotedFor' = [VotedFor EXCEPT ![i] = vote]
        /\ state' = [state EXCEPT ![i] = role]
    BY Zenon DEF RequestVote
  <2>2. CurrentTerm'[i] = term /\ VotedFor'[i] = vote /\ state'[i] = role
    <3> HIDE DEF term, vote, role
    <3>1. /\ CurrentTerm \in [Server -> Nat] /\ VotedFor \in [Server -> Server \cup {Nil}]
          /\ state \in [Server -> {"follower", "candidate", "leader"}]
      BY Zenon DEF TypeOK
    <3> QED BY <1>1, <2>1, <3>1, Zenon
  <2> QED BY <2>2, ZenonT(40)
<1>3. \A j \in Server \ {i} :
         /\ CurrentTerm'[j] = CurrentTerm[j] /\ VotedFor'[j] = VotedFor[j]
         /\ state'[j] = state[j] /\ CurrentTerm[j] \in Nat
  <2>1. /\ CurrentTerm' = [CurrentTerm EXCEPT ![i] = Max2(m.Term, CurrentTerm[i])]
        /\ VotedFor' = [VotedFor EXCEPT ![i] = IF grant THEN m.src ELSE voted]
        /\ state' = [state EXCEPT ![i] = IF newer \/ grant THEN "follower" ELSE @]
    BY DEF RequestVote
  <2>2. /\ CurrentTerm \in [Server -> Nat] /\ VotedFor \in [Server -> Server \cup {Nil}]
        /\ state \in [Server -> {"follower", "candidate", "leader"}]
    BY Zenon DEF TypeOK
  <2> HIDE DEF newer, voted, grant
  <2> QED BY <1>1, <2>1, <2>2
<1>4. UNCHANGED votes
  BY DEF RequestVote, electVars
<1>5. grant => m.Term >= CurrentTerm[i] /\ voted \in {m.src, Nil}
  BY DEF FreeToVote
<1>6. ASSUME NEW r \in net' \ net, r.type = "RequestVoteReply", r.VoteGranted
      PROVE  grant /\ r.src = i /\ r.dst = m.src /\ r.Term = term
  <2>1. r = [type |-> "RequestVoteReply", src |-> i, dst |-> m.src, inc |-> m.inc,
             Term |-> IF free /\ ~grant THEN 0 ELSE term, VoteGranted |-> grant]
    BY <1>6 DEF RequestVote, Transmit
  <2> HIDE DEF grant, free, term
  <2>2. r.src = i /\ r.dst = m.src /\ r.VoteGranted = grant
        /\ r.Term = IF free /\ ~grant THEN 0 ELSE term
    BY <2>1, Zenon
  <2> QED BY <1>6, <2>2
<1> HIDE DEF grant, free
<1>7. term >= CurrentTerm[i] /\ term \in Nat /\ (~newer => term = CurrentTerm[i])
      /\ (newer => term # CurrentTerm[i])
  BY <1>1 DEF Max2
<1>8. VoteKept
  <2> SUFFICES ASSUME NEW j \in Server
               PROVE  /\ CurrentTerm'[j] >= CurrentTerm[j]
                      /\ CurrentTerm'[j] = CurrentTerm[j] /\ VotedFor[j] # Nil
                         => VotedFor'[j] = VotedFor[j]
    BY Zenon DEF VoteKept
  <2>1. CASE j = i
    BY <1>2, <1>5, <1>7, <2>1, Zenon
  <2>2. CASE j # i
    BY <1>3, <2>2, SMTT(40)
  <2> QED BY <2>1, <2>2
<1>9. VotesRecorded
  <2> SUFFICES ASSUME NEW k \in Server, NEW j \in Server, NEW t \in Nat, VoteFor(j, t, k)'
               PROVE  VoteFor(j, t, k) \/ (t = CurrentTerm'[j] /\ VotedFor'[j] = k)
    BY Zenon DEF VotesRecorded
  <2> HIDE DEF term, voted
  <2>1. CASE \E r \in net' : /\ r.type = "RequestVoteReply" /\ r.VoteGranted
                             /\ r.src = j /\ r.dst = k /\ r.Term = t
    BY <1>2, <1>6, <2>1, Zenon DEF VoteFor
  <2>2. CASE j \in votes'[k] /\ state'[k] # "follower" /\ CurrentTerm'[k] = t
    <3>1. state'[k] = state[k] /\ CurrentTerm'[k] = CurrentTerm[k]
      BY <1>2, <1>3, <1>7, <2>2, Zenon
    <3> QED BY <1>4, <2>2, <3>1, Zenon DEF VoteFor
  <2> QED BY <2>1, <2>2 DEF VoteFor
<1>10. LeaderElected
  BY <1>2, <1>3, <1>4, SMTT(40) DEF LeaderElected, VoteInv, Majority
<1> QED BY <1>8, <1>9, <1>10, Zenon

\* Counting a vote uses one that was under way, in the term it was given in.
LEMMA RequestVoteReplyVotes ==
    ASSUME TypeOK, TypeOK', VoteInv, NEW m \in net, RequestVoteReply(m)
    PROVE  VoteKept /\ VotesRecorded /\ LeaderElected
<1> DEFINE i == m.dst
<1>1. m \in VoteReplies
  BY MessageKinds, Zenon DEF TypeOK, RequestVoteReply
<1>2. i \in Server /\ m.src \in Server /\ m.Term \in Nat /\ m.VoteGranted \in BOOLEAN
  BY <1>1, Zenon DEF VoteReplies
<1>3. net' \subseteq net
  BY Zenon DEF RequestVoteReply, Transmit
<1>4. CASE m.Term > CurrentTerm[i] /\ StepDown(i, m.Term)
  BY <1>2, <1>3, <1>4, StepDownYields, Zenon
<1>5. CASE ~(m.Term > CurrentTerm[i] /\ StepDown(i, m.Term))
  <2> DEFINE count == m.VoteGranted /\ state[i] = "candidate" /\ m.Term = CurrentTerm[i]
             wins  == Majority(votes[i] \cup {m.src})
  <2>1. UNCHANGED persistent
    BY <1>5, Zenon DEF RequestVoteReply
  <2>2. CASE ~count
    <3>1. UNCHANGED <<termVars, votes>>
      BY <1>5, <2>1, <2>2, Zenon DEF RequestVoteReply, electVars, termVars, persistent
    <3> QED BY <1>3, <3>1, NoVoting, Zenon
  <2>3. CASE count
    <3>1. /\ votes' = [votes EXCEPT ![i] = @ \cup {m.src}]
          /\ state' = (IF wins THEN [state EXCEPT ![i] = "leader"] ELSE state)
      BY <1>5, <2>3, Zenon DEF RequestVoteReply
    <3>2. CurrentTerm' = CurrentTerm /\ VotedFor' = VotedFor
      BY <2>1 DEF persistent
    <3>3. votes'[i] = votes[i] \cup {m.src} /\ \A j \in Server \ {i} : votes'[j] = votes[j]
      <4>1. votes \in [Server -> SUBSET Server]
        BY DEF TypeOK
      <4> QED BY <1>2, <3>1, <4>1, Zenon
    <3>4. /\ \A j \in Server \ {i} : state'[j] = state[j]
          /\ state'[i] = "leader" => wins
      <4> HIDE DEF wins
      <4>1. CASE wins
        <5>1. state \in [Server -> {"follower", "candidate", "leader"}]
          BY DEF TypeOK
        <5>2. \A j \in Server \ {i} : state'[j] = state[j]
          BY <1>2, <3>1, <4>1, <5>1, Zenon
        <5> QED BY <4>1, <5>2, Zenon
      <4>2. CASE ~wins
        BY <2>3, <3>1, <4>2, Zenon
      <4> QED BY <4>1, <4>2
    <3>5. VoteKept
      BY <3>2 DEF TypeOK, VoteKept
    <3>6. VotesRecorded
      <4> SUFFICES ASSUME NEW k \in Server, NEW j \in Server, NEW t \in Nat, VoteFor(j, t, k)'
                   PROVE  VoteFor(j, t, k)
        BY Zenon DEF VotesRecorded
      <4>1. CASE k = i
        BY <1>3, <2>3, <3>2, <3>3, <4>1, Zenon DEF VoteFor, RequestVoteReply
      <4>2. CASE k # i
        BY <1>3, <3>2, <3>3, <3>4, <4>2, Zenon DEF VoteFor
      <4> QED BY <4>1, <4>2
    <3>7. LeaderElected
      <4> HIDE DEF i
      <4>1. ASSUME NEW k \in Server, state'[k] = "leader" PROVE Majority(votes'[k])
        BY <3>3, <3>4, <4>1 DEF VoteInv
      <4> QED BY <4>1, Zenon DEF LeaderElected, Majority
    <3> QED BY <3>5, <3>6, <3>7
  <2> QED BY <2>2, <2>3, Zenon
<1> QED BY <1>4, <1>5, Zenon

\* A replication handler at i that takes the term of m, if it is not older.
LEMMA AppendEntriesVotes ==
    ASSUME TypeOK, TypeOK', VoteInv, NEW m \in net, AppendEntries(m)
    PROVE  VoteKept /\ VotesRecorded /\ LeaderElected
<1> DEFINE i     == m.dst
           newer == m.Term > CurrentTerm[i]
           vote  == IF newer THEN Nil ELSE VotedFor[i]
           role  == IF newer \/ state[i] = "candidate" THEN "follower" ELSE state[i]
<1>1. i \in Server /\ m.Term \in Nat /\ CurrentTerm[i] \in Nat
  <2>1. m \in AppendMsgs
    BY MessageKinds, Zenon DEF TypeOK, AppendEntries
  <2>2. m.dst \in Server /\ m.Term \in Nat
    BY <2>1, Zenon DEF AppendMsgs
  <2> QED BY <2>2, Zenon DEF TypeOK
<1>2. UNCHANGED votes
  BY Zenon DEF AppendEntries, electVars
<1>3. \A r \in net' \ net : r.type # "RequestVoteReply"
  <2>1. \A t, ok, ct, ci : \A r \in AppendReply(m, t, ok, ct, ci) : r.type # "RequestVoteReply"
    BY SMTT(40) DEF AppendReply
  <2>2. \E t, ok, ct, ci : Receive(m, AppendReply(m, t, ok, ct, ci))
    BY ZenonT(40) DEF AppendEntries
  <2> HIDE DEF newer, vote, role
  <2> QED BY <2>1, <2>2, Zenon DEF Receive, Transmit
<1>4. CASE UNCHANGED <<CurrentTerm, VotedFor, state>>
  BY <1>2, <1>3, <1>4, NoVoting DEF termVars
<1>5. CASE ~UNCHANGED <<CurrentTerm, VotedFor, state>>
  <2>1. /\ m.Term >= CurrentTerm[i]
        /\ CurrentTerm' = [CurrentTerm EXCEPT ![i] = m.Term]
        /\ VotedFor' = [VotedFor EXCEPT ![i] = vote]
        /\ state' = [state EXCEPT ![i] = role]
    BY <1>5, Zenon DEF AppendEntries, persistent
  <2>2. /\ CurrentTerm \in [Server -> Nat] /\ VotedFor \in [Server -> Server \cup {Nil}]
        /\ state \in [Server -> {"follower", "candidate", "leader"}]
    BY DEF TypeOK
  <2>3. /\ CurrentTerm'[i] = m.Term /\ VotedFor'[i] = vote /\ state'[i] = role
        /\ \A j \in Server \ {i} :
              /\ CurrentTerm'[j] = CurrentTerm[j] /\ VotedFor'[j] = VotedFor[j]
              /\ state'[j] = state[j]
    <3> HIDE DEF vote, role
    <3> QED BY <1>1, <2>1, <2>2
  <2>4. m.Term = CurrentTerm[i] => vote = VotedFor[i]
    BY <1>1
  <2>5. role = "follower" \/ (m.Term = CurrentTerm[i] /\ role = state[i])
    <3>1. m.Term >= CurrentTerm[i]
      BY <2>1
    <3> QED BY <1>1, <3>1
  <2> HIDE DEF vote, role
  <2> QED BY <1>1, <1>2, <1>3, <2>1, <2>3, <2>4, <2>5, Yielding
<1> QED BY <1>4, <1>5, Zenon

\* The InstallSnapshot handler yields to a newer term and gives no vote.
LEMMA InstallSnapshotVotes ==
    ASSUME TypeOK, TypeOK', VoteInv, NEW m \in net, InstallSnapshot(m)
    PROVE  VoteKept /\ VotesRecorded /\ LeaderElected
<1> DEFINE i     == m.dst
           newer == m.Term > CurrentTerm[i]
<1>1. i \in Server /\ m.Term \in Nat /\ CurrentTerm[i] \in Nat
  <2>1. m \in SnapshotMsgs
    BY MessageKinds, Zenon DEF TypeOK, InstallSnapshot
  <2>2. m.dst \in Server /\ m.Term \in Nat
    BY <2>1, Zenon DEF SnapshotMsgs
  <2> QED BY <2>2 DEF TypeOK
<1>2. UNCHANGED votes
  BY ZenonT(40) DEF InstallSnapshot, electVars
<1>3. \A r \in net' \ net : r.type # "RequestVoteReply"
  BY SMTT(40) DEF InstallSnapshot, Receive, Transmit
<1>4. CASE ~newer
  BY <1>2, <1>3, <1>4, NoVoting, ZenonT(40) DEF InstallSnapshot
<1>5. CASE newer
  <2>1. becomeFollowerWithTerm(i, m.Term)
    BY <1>5, Zenon DEF InstallSnapshot
  <2>2. /\ CurrentTerm \in [Server -> Nat] /\ VotedFor \in [Server -> Server \cup {Nil}]
        /\ state \in [Server -> {"follower", "candidate", "leader"}]
    BY DEF TypeOK
  <2>3. /\ CurrentTerm'[i] = m.Term /\ state'[i] = "follower"
        /\ \A j \in Server \ {i} :
              /\ CurrentTerm'[j] = CurrentTerm[j] /\ VotedFor'[j] = VotedFor[j]
              /\ state'[j] = state[j]
    BY <1>1, <2>1, <2>2, Zenon DEF becomeFollowerWithTerm
  <2>4. CurrentTerm'[i] >= CurrentTerm[i] /\ CurrentTerm'[i] # CurrentTerm[i]
    BY <1>1, <1>5, <2>3
  <2> QED BY <1>1, <1>2, <1>3, <2>3, <2>4, Yielding, Zenon
<1> QED BY <1>4, <1>5, Zenon

\* An AppendEntries reply gives no vote.
LEMMA AppendEntriesReplyVotes ==
    ASSUME TypeOK, TypeOK', VoteInv, NEW m \in net, AppendEntriesReply(m)
    PROVE  VoteKept /\ VotesRecorded /\ LeaderElected
<1>1. m \in AppendReplies
  BY MessageKinds, Zenon DEF TypeOK, AppendEntriesReply
<1>2. m.dst \in Server /\ m.Term \in Nat
  BY <1>1, Zenon DEF AppendReplies
<1>3. net' \subseteq net
  BY DEF AppendEntriesReply, Receive, Transmit
<1>4. CASE m.Term > CurrentTerm[m.dst] /\ StepDown(m.dst, m.Term)
  BY <1>2, <1>3, <1>4, StepDownYields, Zenon
<1>5. CASE ~(m.Term > CurrentTerm[m.dst] /\ StepDown(m.dst, m.Term))
  <2>1. UNCHANGED <<termVars, votes>>
    BY <1>5, Zenon DEF AppendEntriesReply, Panic, persistent, termVars, electVars
  <2> QED BY <1>3, <2>1, NoVoting
<1> QED BY <1>4, <1>5, Zenon

\* An InstallSnapshot reply gives no vote.
LEMMA InstallSnapshotReplyVotes ==
    ASSUME TypeOK, TypeOK', VoteInv, NEW m \in net, InstallSnapshotReply(m)
    PROVE  VoteKept /\ VotesRecorded /\ LeaderElected
<1>1. m \in SnapshotReplies
  BY MessageKinds, Zenon DEF TypeOK, InstallSnapshotReply
<1>2. m.dst \in Server /\ m.Term \in Nat
  BY <1>1, Zenon DEF SnapshotReplies
<1>3. net' \subseteq net
  BY ZenonT(40) DEF InstallSnapshotReply, Receive, Transmit
<1>4. CASE m.Term > CurrentTerm[m.dst] /\ StepDown(m.dst, m.Term)
  BY <1>2, <1>3, <1>4, StepDownYields
<1>5. CASE ~(m.Term > CurrentTerm[m.dst] /\ StepDown(m.dst, m.Term))
  <2>1. UNCHANGED <<termVars, votes>>
    BY <1>5 DEF InstallSnapshotReply, persistent, termVars, electVars
  <2> QED BY <1>3, <2>1, NoVoting
<1> QED BY <1>4, <1>5

\* A crash forgets the votes counted, not the vote given.
LEMMA RestartVotes ==
    ASSUME TypeOK, TypeOK', Durable, VoteInv, NEW i \in Server, Restart(i)
    PROVE  VoteKept /\ VotesRecorded /\ LeaderElected
<1>1. CurrentTerm' = CurrentTerm /\ VotedFor' = VotedFor
  BY RestartRecovers, Zenon DEF persistent
<1>2. /\ state' = [state EXCEPT ![i] = "follower"] /\ votes' = [votes EXCEPT ![i] = {}]
      /\ net' = net
  BY Zenon DEF Restart
<1>3. state \in [Server -> {"follower", "candidate", "leader"}] /\ votes \in [Server -> SUBSET Server]
  BY ZenonT(40) DEF TypeOK
<1>4. VoteKept
  BY <1>1 DEF TypeOK, VoteKept
<1>5. \A k \in Server : state'[k] # "follower" => state'[k] = state[k] /\ votes'[k] = votes[k]
  BY <1>2, <1>3
<1>6. VotesRecorded
  BY <1>1, <1>2, <1>5, Zenon DEF VotesRecorded, VoteFor
<1>7. LeaderElected
  BY <1>5 DEF LeaderElected, VoteInv, Majority
<1> QED BY <1>4, <1>6, <1>7

\* Every step does the three things that keep the votes consistent.
LEMMA NextVotes ==
    ASSUME TypeOK, TypeOK', Durable, VoteInv, [Next]_vars
    PROVE  VoteKept /\ VotesRecorded /\ LeaderElected
<1>1. CASE UNCHANGED vars
  BY <1>1, NoVoting, Zenon DEF vars, termVars
<1>2. ASSUME NEW m \in net, Lose(m)
      PROVE  VoteKept /\ VotesRecorded /\ LeaderElected
  BY <1>2, NoVoting, Zenon DEF Lose, persistent, electVars, termVars
<1>3. ASSUME NEW m \in net, Handle(m)
      PROVE  VoteKept /\ VotesRecorded /\ LeaderElected
  BY <1>3, RequestVoteVotes, RequestVoteReplyVotes, AppendEntriesVotes,
     AppendEntriesReplyVotes, InstallSnapshotVotes, InstallSnapshotReplyVotes, Zenon DEF Handle
<1> QED BY <1>1, <1>2, <1>3, VotesStep, RestartVotes, Zenon DEF Next

\* At the start there are no votes.
LEMMA InitVotes == Init => VoteInv
BY Zenon DEF Init, VoteInv, VoteFor

\* Two majorities share a voter, and that voter has one candidate.
LEMMA VotesElectOne ==
    ASSUME TypeOK, VoteInv
    PROVE  ElectionSafety
<1> SUFFICES ASSUME NEW i \in Server, NEW j \in Server, state[i] = "leader",
                    state[j] = "leader", CurrentTerm[i] = CurrentTerm[j]
             PROVE  i = j
  BY Zenon DEF ElectionSafety
<1>1. Majority(votes[i]) /\ Majority(votes[j]) /\ votes[i] \subseteq Server /\ votes[j] \subseteq Server
  BY ZenonT(40) DEF VoteInv, TypeOK
<1>2. IsFiniteSet(Server) /\ Cardinality(Server) \in Nat
  BY ServerAssumption, FS_CardinalityType
<1>3. Cardinality(votes[i]) \in Nat /\ Cardinality(votes[j]) \in Nat
  BY <1>1, <1>2, FS_Subset, FS_CardinalityType
<1>4. Cardinality(votes[i]) + Cardinality(votes[j]) > Cardinality(Server)
  BY <1>1, <1>2, <1>3, SMTT(40) DEF Majority
<1>5. PICK v \in votes[i] : v \in votes[j]
  BY <1>1, <1>2, <1>4, FS_MajoritiesIntersect, Zenon
<1>6. VoteFor(v, CurrentTerm[i], i) /\ VoteFor(v, CurrentTerm[i], j)
  BY <1>5, Zenon DEF VoteFor
<1>7. v \in Server /\ CurrentTerm[i] \in Nat
  BY <1>1, <1>5, Zenon DEF TypeOK
<1> QED BY <1>6, <1>7, Zenon DEF VoteInv

\* The inductive invariant of the theorems below.
THEOREM VotesConsistent == Spec => [](TypeOK /\ Durable /\ VoteInv)
<1>1. Init => TypeOK /\ Durable /\ VoteInv
  BY InitType, InitDurable, InitVotes
<1>2. TypeOK /\ Durable /\ VoteInv /\ [Next]_vars => (TypeOK /\ Durable /\ VoteInv)'
  <2> SUFFICES ASSUME TypeOK, Durable, VoteInv, [Next]_vars
               PROVE  (TypeOK /\ Durable /\ VoteInv)'
    OBVIOUS
  <2>1. TypeOK'
    BY NextType
  <2>2. Durable'
    BY NextDurable
  <2> QED BY <2>1, <2>2, NextVotes, VotesStayConsistent, Zenon
<1> QED BY <1>1, <1>2, PTL DEF Spec

\* No two servers lead in one term (startElection, RequestVote), whatever the
\* number of servers, restarts and messages.
THEOREM OneLeaderPerTerm == Spec => []ElectionSafety
<1>1. TypeOK /\ Durable /\ VoteInv => ElectionSafety
  BY VotesElectOne
<1> QED BY <1>1, VotesConsistent, PTL

\* Terms never go back and a vote never changes within its term, across restarts
\* too (RequestVote, startElection, becomeFollowerWithTerm, readPersist).
THEOREM OneVotePerTerm == Spec => VoteOnce
<1>1. TypeOK /\ Durable /\ VoteInv /\ TypeOK' /\ [Next]_vars
        => [VoteKept]_vars
  BY NextVotes
<1>2. [VoteKept]_vars => [\A i \in Server :
           /\ CurrentTerm'[i] >= CurrentTerm[i]
           /\ CurrentTerm'[i] = CurrentTerm[i] /\ VotedFor[i] # Nil
              => VotedFor'[i] = VotedFor[i]]_vars
  BY DEF VoteKept
<1> QED BY <1>1, <1>2, VotesConsistent, PTL DEF Spec, VoteOnce

=============================================================================
