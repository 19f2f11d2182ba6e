----------------------------- MODULE RaftProofs -----------------------------
(***************************************************************************)
(* Theorems about Raft, for every number of servers, every set of commands *)
(* and every value of the bounds, with late replies or without.            *)
(***************************************************************************)
EXTENDS Raft, FiniteSetTheorems, SequenceTheorems, WellFoundedInduction, TLAPS

-----------------------------------------------------------------------------
(* Least and greatest elements of sets of numbers.                         *)

\* A nonempty set of naturals has a least element.
LEMMA LeastNat ==
    ASSUME NEW S \in SUBSET Nat, S # {}
    PROVE  \E x \in S : \A y \in S : x <= y
<1> DEFINE R == OpToRel(<, Nat)
<1>1. PICK x \in S : \A y \in S : ~(<<y, x>> \in R)
  BY NatLessThanWellFounded, WFMin, Zenon
<1>2. ASSUME NEW y \in S PROVE x <= y
  <2>1. ~(y < x)
    BY <1>1, Zenon DEF OpToRel
  <2> QED BY <2>1
<1> QED BY <1>2

\* MinOf of a nonempty set of naturals is its least element.
LEMMA MinOfIsLeast ==
    ASSUME NEW S \in SUBSET Nat, S # {}
    PROVE  MinOf(S) \in S /\ \A y \in S : MinOf(S) <= y
BY LeastNat, Zenon DEF MinOf

\* MaxOf of a nonempty set of integers within bounds is its greatest element.
LEMMA MaxOfIsGreatest ==
    ASSUME NEW a \in Int, NEW b \in Int, NEW S \in SUBSET (a .. b), S # {}
    PROVE  MaxOf(S) \in S /\ \A y \in S : y <= MaxOf(S)
<1> DEFINE T == {b - k : k \in S}
<1>1. T \in SUBSET Nat /\ T # {}
  <2>1. \A k \in S : b - k \in Nat
    BY SMTT(40)
  <2> QED BY <2>1, Zenon
<1>2. PICK x \in T : \A y \in T : x <= y
  BY <1>1, LeastNat, Zenon
<1>3. PICK k \in S : x = b - k
  BY <1>2
<1>4. \A y \in S : y <= k
  BY <1>2, <1>3
<1> QED BY <1>4, Zenon DEF MaxOf

-----------------------------------------------------------------------------
(* Types.                                                                  *)

\* The kind of a message is told by its type.
LEMMA MessageKinds ==
    ASSUME NEW m \in Message
    PROVE  /\ m.src \in Server /\ m.dst \in Server /\ m.inc \in Nat
           /\ m.type = "RequestVote" => m \in VoteMsgs
           /\ m.type = "RequestVoteReply" => m \in VoteReplies
           /\ m.type = "AppendEntries" => m \in AppendMsgs
           /\ m.type = "AppendEntriesReply" => m \in AppendReplies
           /\ m.type = "InstallSnapshot" => m \in SnapshotMsgs
           /\ m.type = "InstallSnapshotReply" => m \in SnapshotReplies
BY DEF Message, VoteMsgs, VoteReplies, AppendMsgs, AppendReplies, SnapshotMsgs, SnapshotReplies

\* Indices between LastIncludedIndex and lastLogIndex are in the log.
LEMMA LogIndices ==
    ASSUME TypeOK, NEW i \in Server
    PROVE  /\ lastLogIndex(i) \in Nat /\ LastIncludedIndex[i] \in Nat
           /\ lastLogIndex(i) >= LastIncludedIndex[i]
           /\ lastLogTerm(i) \in Nat
           /\ \A k \in LastIncludedIndex[i] .. lastLogIndex(i) :
                 sliceIndex(i, k) \in 1 .. Len(Log[i]) /\ TermAt(i, k) \in Nat
<1>1. Log[i] \in Seq(Entry) /\ Len(Log[i]) \in Nat /\ Len(Log[i]) > 0
      /\ LastIncludedIndex[i] \in Nat
  BY DEF TypeOK
<1>2. \A n \in 1 .. Len(Log[i]) : Log[i][n].term \in Nat
  <2>1. \A n \in 1 .. Len(Log[i]) : Log[i][n] \in Entry
    BY <1>1, ElementOfSeq
  <2> QED BY <2>1 DEF Entry
<1> HIDE DEF TypeOK
<1>3. lastLogIndex(i) \in Nat /\ lastLogIndex(i) >= LastIncludedIndex[i]
  BY <1>1 DEF lastLogIndex
<1>4. lastLogTerm(i) \in Nat
  BY <1>1, <1>2 DEF lastLogTerm
<1>5. ASSUME NEW k \in LastIncludedIndex[i] .. lastLogIndex(i)
      PROVE  sliceIndex(i, k) \in 1 .. Len(Log[i]) /\ TermAt(i, k) \in Nat
  <2>1. sliceIndex(i, k) \in 1 .. Len(Log[i])
    BY <1>1, <1>5 DEF lastLogIndex, sliceIndex
  <2> QED BY <2>1, <1>2 DEF TermAt
<1> QED BY <1>1, <1>3, <1>4, <1>5

\* What persist writes has the type of what it reads.
LEMMA PersistType ==
    ASSUME TypeOK, NEW i \in Server, persist(i),
           CurrentTerm'[i] \in Nat, VotedFor'[i] \in Server \cup {Nil},
           Log'[i] \in Seq(Entry), Len(Log'[i]) > 0,
           LastIncludedIndex'[i] \in Nat, SnapshotData'[i] \in Seq(Entry)
    PROVE  /\ persisted' \in [Server -> Persisted]
           /\ \A j \in Server : Len(persisted'[j].Log) > 0
<1>1. [CurrentTerm |-> CurrentTerm'[i], VotedFor |-> VotedFor'[i], Log |-> Log'[i],
       SnapshotIndex |-> LastIncludedIndex'[i], Snapshot |-> SnapshotData'[i]] \in Persisted
  BY DEF Persisted
<1> QED BY <1>1, Zenon DEF TypeOK, persist

\* Every server starts as Make leaves it without a saved state: well typed.
LEMMA InitType == Init => TypeOK
<1> SUFFICES ASSUME Init PROVE TypeOK
  OBVIOUS
<1>1. Dummy \in Entry /\ <<Dummy>> \in Seq(Entry) /\ Len(<<Dummy>>) = 1 /\ <<>> \in Seq(Entry)
  BY DEF Dummy, Entry
<1>2. NoMsg \in ApplyMsg
  BY DEF NoMsg, ApplyMsg
<1>3. [CurrentTerm |-> 0, VotedFor |-> Nil, Log |-> <<Dummy>>,
       SnapshotIndex |-> 0, Snapshot |-> <<>>] \in Persisted
  BY <1>1 DEF Persisted
<1>4. /\ persisted \in [Server -> Persisted]
      /\ Log \in [Server -> Seq(Entry)] /\ SnapshotData \in [Server -> Seq(Entry)]
      /\ svcState \in [Server -> Seq(Entry)] /\ applyMsg \in [Server -> ApplyMsg]
  BY <1>1, <1>2, <1>3 DEF Init
<1>5. \A i \in Server : Len(Log[i]) > 0 /\ Len(persisted[i].Log) > 0
  <2> SUFFICES ASSUME NEW i \in Server PROVE Len(Log[i]) > 0 /\ Len(persisted[i].Log) > 0
    OBVIOUS
  <2>1. Log[i] = <<Dummy>> /\ persisted[i].Log = <<Dummy>>
    BY DEF Init
  <2> QED BY <2>1, <1>1
<1>6. /\ CurrentTerm \in [Server -> Nat] /\ VotedFor \in [Server -> Server \cup {Nil}]
      /\ LastIncludedIndex \in [Server -> Nat]
      /\ state \in [Server -> {"follower", "candidate", "leader"}]
      /\ commitIndex \in [Server -> Nat] /\ lastApplied \in [Server -> Nat]
      /\ nextIndex \in [Server -> [Server -> Nat]]
      /\ matchIndex \in [Server -> [Server -> Nat]]
      /\ votes \in [Server -> SUBSET Server] /\ restarts \in [Server -> Nat]
      /\ applyPC \in [Server -> {"idle", "send", "sent"}] /\ net \subseteq Message
  BY DEF Init
<1>7. /\ snapshotPending \in [Server -> BOOLEAN] /\ needElection \in [Server -> BOOLEAN]
      /\ panicked \in [Server -> BOOLEAN]
  BY DEF Init
<1> QED BY <1>4, <1>5, <1>6, <1>7, Zenon DEF TypeOK

\* ticker and startElection keep the types.
LEMMA startElectionType ==
    ASSUME TypeOK, NEW i \in Server, startElection(i)
    PROVE  TypeOK'
<1>1. net' \subseteq Message
  <2>1. PICK reached \in SUBSET (Server \ {i}) :
          net' = net \cup {[type |-> "RequestVote", src |-> i, dst |-> j,
                         inc |-> restarts[i], Term |-> CurrentTerm[i] + 1,
                         LastLogIndex |-> lastLogIndex(i),
                         LastLogTerm |-> lastLogTerm(i)] : j \in reached}
    BY Zenon DEF startElection, Transmit
  <2>2. \A j \in Server : [type |-> "RequestVote", src |-> i, dst |-> j,
                         inc |-> restarts[i], Term |-> CurrentTerm[i] + 1,
                         LastLogIndex |-> lastLogIndex(i),
                         LastLogTerm |-> lastLogTerm(i)] \in VoteMsgs
    <3>1. /\ restarts[i] \in Nat /\ CurrentTerm[i] + 1 \in Nat
          /\ lastLogIndex(i) \in Nat /\ lastLogTerm(i) \in Nat
      <4>1. restarts[i] \in Nat /\ CurrentTerm[i] + 1 \in Nat
        BY DEF TypeOK
      <4> QED BY <4>1, LogIndices
    <3> QED BY <3>1 DEF VoteMsgs
  <2> QED BY <2>1, <2>2 DEF TypeOK, Message
<1>2. /\ CurrentTerm' \in [Server -> Nat] /\ VotedFor' \in [Server -> Server \cup {Nil}]
      /\ state' \in [Server -> {"follower", "candidate", "leader"}]
      /\ votes' \in [Server -> SUBSET Server] /\ needElection' \in [Server -> BOOLEAN]
  BY SMTT(40) DEF TypeOK, startElection
<1>3. /\ persisted' \in [Server -> Persisted]
      /\ \A j \in Server : Len(persisted'[j].Log) > 0
  BY <1>2, PersistType, Zenon DEF TypeOK, startElection, logVars
<1> QED BY <1>1, <1>2, <1>3, Zenon DEF TypeOK, startElection, logVars, leaderVars, applierVars, procVars

\* The network stays typed when typed messages are sent.
LEMMA NetType ==
    ASSUME TypeOK, NEW m, NEW out, NEW in \in SUBSET Message,
           Transmit(out, in) \/ Receive(m, in)
    PROVE  net' \subseteq Message
BY DEF TypeOK, Transmit, Receive

\* becomeFollowerWithTerm and persist, after a reply of a newer term, keep the types.
LEMMA StepDownType ==
    ASSUME TypeOK, NEW i \in Server, NEW term \in Nat, StepDown(i, term),
           net' \subseteq Message
    PROVE  TypeOK'
<1>1. /\ CurrentTerm' \in [Server -> Nat] /\ VotedFor' \in [Server -> Server \cup {Nil}]
      /\ state' \in [Server -> {"follower", "candidate", "leader"}]
  BY DEF TypeOK, StepDown, becomeFollowerWithTerm
<1>2. /\ persisted' \in [Server -> Persisted]
      /\ \A j \in Server : Len(persisted'[j].Log) > 0
  BY <1>1, PersistType, Zenon DEF TypeOK, StepDown, logVars
<1> QED BY <1>1, <1>2, Zenon DEF TypeOK, StepDown, logVars, leaderVars, electVars, applierVars, procVars

\* The RequestVote handler keeps the types.
LEMMA RequestVoteType ==
    ASSUME TypeOK, NEW m \in net, RequestVote(m)
    PROVE  TypeOK'
<1> DEFINE i == m.dst
           newer == m.Term > CurrentTerm[i]
           voted == IF newer THEN Nil ELSE VotedFor[i]
           free  == FreeToVote(m, i, voted)
           grant == free /\ LogUpToDate(m, i)
           term  == Max2(m.Term, CurrentTerm[i])
           reply == [type |-> "RequestVoteReply", src |-> i, dst |-> m.src, inc |-> m.inc,
                     Term |-> IF free /\ ~grant THEN 0 ELSE term, VoteGranted |-> grant]
<1>1. m \in VoteMsgs /\ i \in Server /\ m.src \in Server /\ m.inc \in Nat /\ m.Term \in Nat
  <2>1. m \in Message /\ m.type = "RequestVote"
    BY DEF TypeOK, RequestVote
  <2>2. m \in VoteMsgs
    BY <2>1, MessageKinds
  <2> QED BY <2>2 DEF VoteMsgs
<1>2. term \in Nat
  BY <1>1 DEF TypeOK, Max2
<1>3. grant \in BOOLEAN
  BY DEF FreeToVote, LogUpToDate
<1>4. net' \subseteq Message
  <2>1. reply \in VoteReplies
    BY <1>1, <1>2, <1>3, Zenon DEF VoteReplies
  <2>2. Transmit({m}, IF Waiting(m) THEN {reply} ELSE {})
    BY DEF RequestVote
  <2> HIDE DEF reply
  <2> QED BY <2>1, <2>2, NetType, Zenon DEF Message
<1>5. /\ CurrentTerm' \in [Server -> Nat] /\ VotedFor' \in [Server -> Server \cup {Nil}]
      /\ state' \in [Server -> {"follower", "candidate", "leader"}]
  <2>1. /\ CurrentTerm' = [CurrentTerm EXCEPT ![i] = term]
        /\ VotedFor' = [VotedFor EXCEPT ![i] = IF grant THEN m.src ELSE voted]
        /\ state' = [state EXCEPT ![i] = IF newer \/ grant THEN "follower" ELSE @]
    BY DEF RequestVote
  <2>2. voted \in Server \cup {Nil}
    BY <1>1 DEF TypeOK
  <2> HIDE DEF term, grant, voted, newer
  <2> QED BY <1>1, <1>2, <2>1, <2>2, Zenon DEF TypeOK
<1>6. /\ persisted' \in [Server -> Persisted]
      /\ \A j \in Server : Len(persisted'[j].Log) > 0
  <2>1. CASE newer \/ grant
    <3>1. persist(i)
      BY <2>1, Zenon DEF RequestVote
    <3>2. /\ Log'[i] \in Seq(Entry) /\ Len(Log'[i]) > 0 /\ LastIncludedIndex'[i] \in Nat
          /\ SnapshotData'[i] \in Seq(Entry)
      BY <1>1, Zenon DEF TypeOK, RequestVote, logVars
    <3>3. CurrentTerm'[i] \in Nat /\ VotedFor'[i] \in Server \cup {Nil}
      BY <1>1, <1>5
    <3> QED BY <1>1, <3>1, <3>2, <3>3, PersistType, Zenon
  <2>2. CASE ~(newer \/ grant)
    BY <2>2 DEF TypeOK, RequestVote
  <2> QED BY <2>1, <2>2
<1> QED BY <1>4, <1>5, <1>6
       , Zenon DEF TypeOK, RequestVote, logVars, leaderVars, electVars, applierVars, procVars

\* Counting a vote, and winning, keeps the types.
LEMMA RequestVoteReplyType ==
    ASSUME TypeOK, NEW m \in net, RequestVoteReply(m)
    PROVE  TypeOK'
<1> DEFINE i == m.dst
<1>1. i \in Server /\ m.src \in Server /\ m.Term \in Nat
  <2>1. m \in Message /\ m.type = "RequestVoteReply"
    BY DEF TypeOK, RequestVoteReply
  <2>2. m \in VoteReplies
    BY <2>1, MessageKinds, Zenon
  <2> QED BY <2>2, Zenon DEF VoteReplies
<1>2. net' \subseteq Message
  BY NetType, Zenon DEF RequestVoteReply
<1>3. CASE m.Term > CurrentTerm[i] /\ StepDown(i, m.Term)
  BY <1>1, <1>2, <1>3, StepDownType
<1>4. CASE ~(m.Term > CurrentTerm[i] /\ StepDown(i, m.Term))
  <2> SUFFICES /\ state' \in [Server -> {"follower", "candidate", "leader"}]
               /\ votes' \in [Server -> SUBSET Server] /\ needElection' \in [Server -> BOOLEAN]
               /\ nextIndex' \in [Server -> [Server -> Nat]]
               /\ matchIndex' \in [Server -> [Server -> Nat]]
    <3>1. UNCHANGED <<persistent, commitIndex, snapshotPending, applierVars, procVars>>
      BY <1>4 DEF RequestVoteReply
    <3> QED BY <1>2, <3>1, Zenon DEF TypeOK, persistent, applierVars, procVars
  <2> DEFINE counted == m.VoteGranted /\ state[i] = "candidate" /\ m.Term = CurrentTerm[i]
             won == Majority(votes[i] \cup {m.src})
  <2>0. ASSUME counted
        PROVE  votes' \in [Server -> SUBSET Server]
    <3>1. votes' = [votes EXCEPT ![i] = votes[i] \cup {m.src}]
      BY <1>4, <2>0 DEF RequestVoteReply
    <3>2. votes \in [Server -> SUBSET Server] /\ votes[i] \cup {m.src} \in SUBSET Server
      BY <1>1, Zenon DEF TypeOK
    <3> QED BY <3>1, <3>2, Zenon
  <2>1. CASE counted /\ won
    <3>1. /\ state' = [state EXCEPT ![i] = "leader"]
          /\ needElection' \in {needElection, [needElection EXCEPT ![i] = TRUE]}
          /\ nextIndex' = [nextIndex EXCEPT ![i] = [j \in Server |-> lastLogIndex(i) + 1]]
          /\ matchIndex' = [matchIndex EXCEPT ![i] = [j \in Server |-> 0]]
      BY <1>4, <2>1 DEF RequestVoteReply
    <3>2. lastLogIndex(i) + 1 \in Nat
      BY <1>1, LogIndices
    <3>3. [j \in Server |-> lastLogIndex(i) + 1] \in [Server -> Nat]
      BY <3>2
    <3>4. needElection' \in [Server -> BOOLEAN]
      BY <3>1, Zenon DEF TypeOK
    <3> QED BY <1>1, <2>0, <2>1, <3>1, <3>3, <3>4, Zenon DEF TypeOK
  <2>2. CASE counted /\ ~won
    BY <2>0, <1>4, <2>2 DEF TypeOK, RequestVoteReply, leaderVars
  <2>3. CASE ~counted
    BY <1>1, <1>4, <2>3, Zenon DEF TypeOK, RequestVoteReply, leaderVars, electVars
  <2> QED BY <2>1, <2>2, <2>3
<1> QED BY <1>3, <1>4

\* Start keeps the types: it appends one entry.
LEMMA StartType ==
    ASSUME TypeOK, NEW i \in Server, NEW c \in Command, Start(i, c)
    PROVE  TypeOK'
<1>1. [term |-> CurrentTerm[i], cmd |-> c] \in Entry
  BY DEF TypeOK, Entry
<1>2. /\ Append(Log[i], [term |-> CurrentTerm[i], cmd |-> c]) \in Seq(Entry)
      /\ Len(Append(Log[i], [term |-> CurrentTerm[i], cmd |-> c])) > 0
  <2>1. Log[i] \in Seq(Entry) /\ Len(Log[i]) \in Nat
    BY DEF TypeOK
  <2> QED BY <1>1, <2>1, AppendProperties
<1>3. Log' \in [Server -> Seq(Entry)] /\ \A j \in Server : Len(Log'[j]) > 0
  BY <1>2, Zenon DEF TypeOK, Start
<1>4. /\ persisted' \in [Server -> Persisted]
      /\ \A j \in Server : Len(persisted'[j].Log) > 0
  BY <1>3, PersistType, Zenon DEF TypeOK, Start
<1> QED BY <1>3, <1>4, Zenon DEF TypeOK, Start, leaderVars, electVars, applierVars, procVars

\* A panic changes only panicked.
LEMMA PanicType ==
    ASSUME TypeOK, NEW i \in Server, Panic(i), net' \subseteq Message
    PROVE  TypeOK'
BY Zenon DEF TypeOK, Panic, persistent, leaderVars, electVars, applierVars

\* replicateToFollower sends a well-typed call: its indices lie in the log.
LEMMA replicateToFollowerType ==
    ASSUME TypeOK, NEW i \in Server, NEW j \in Server, replicateToFollower(i, j)
    PROVE  TypeOK'
<1> DEFINE beyond == /\ ~NeedsSnapshot(i, j)
                     /\ nextIndex[i][j] - 1 \notin LastIncludedIndex[i] .. lastLogIndex(i)
<1>1. CASE beyond
  <2>1. Panic(i) /\ UNCHANGED net
    BY <1>1 DEF replicateToFollower
  <2>2. net' \subseteq Message
    BY <2>1 DEF TypeOK
  <2> QED BY <2>1, <2>2, PanicType, Zenon
<1>2. CASE ~beyond
  <2>1. /\ Transmit({}, {IF NeedsSnapshot(i, j) THEN newInstallSnapshotArgs(i, j)
                                                ELSE newAppendEntriesArgsFor(i, j)})
        /\ UNCHANGED <<persistent, state, commitIndex, snapshotPending, leaderVars,
                       electVars, applierVars, procVars>>
    BY <1>2, Zenon DEF replicateToFollower
  <2>2. newInstallSnapshotArgs(i, j) \in SnapshotMsgs
    <3>1. LastIncludedIndex[i] \in Nat /\ TermAt(i, LastIncludedIndex[i]) \in Nat
      BY LogIndices
    <3>2. restarts[i] \in Nat /\ CurrentTerm[i] \in Nat /\ SnapshotData[i] \in Seq(Entry)
      BY Zenon DEF TypeOK
    <3> QED BY <3>1, <3>2 DEF newInstallSnapshotArgs, SnapshotMsgs
  <2>3. ASSUME ~NeedsSnapshot(i, j)
        PROVE  newAppendEntriesArgsFor(i, j) \in AppendMsgs
    <3>1. /\ restarts[i] \in Nat /\ CurrentTerm[i] \in Nat /\ commitIndex[i] \in Nat
          /\ nextIndex[i][j] \in Nat /\ LastIncludedIndex[i] \in Nat
          /\ Log[i] \in Seq(Entry) /\ Len(Log[i]) \in Nat
      BY SMTT(40) DEF TypeOK
    <3>2. nextIndex[i][j] - 1 \in LastIncludedIndex[i] .. lastLogIndex(i)
      BY <1>2, <2>3
    <3>3. /\ TermAt(i, nextIndex[i][j] - 1) \in Nat
          /\ sliceIndex(i, nextIndex[i][j] - 1) \in 1 .. Len(Log[i])
      BY <3>2, LogIndices
    <3>4. /\ nextIndex[i][j] - 1 \in Nat
          /\ sliceIndex(i, nextIndex[i][j]) \in Int /\ sliceIndex(i, nextIndex[i][j]) >= 1
      BY <3>1, <2>3, SMTT(40) DEF sliceIndex, NeedsSnapshot
    <3>5. \A n \in sliceIndex(i, nextIndex[i][j]) .. Len(Log[i]) : Log[i][n] \in Entry
      BY <3>1, <3>4, ElementOfSeq
    <3>6. SubSeq(Log[i], sliceIndex(i, nextIndex[i][j]), Len(Log[i])) \in Seq(Entry)
      BY <3>1, <3>4, <3>5, SubSeqProperties
    <3> QED BY <3>1, <3>3, <3>4, <3>6, Zenon DEF newAppendEntriesArgsFor, AppendMsgs
  <2>4. net' \subseteq Message
    BY <2>1, <2>2, <2>3, NetType DEF Message
  <2> QED BY <2>1, <2>4, Zenon DEF TypeOK, persistent, leaderVars, electVars, applierVars, procVars
<1> QED BY <1>1, <1>2

\* A slice of a log from an index it holds to its end is a log.
LEMMA SuffixType ==
    ASSUME TypeOK, NEW i \in Server,
           NEW k \in LastIncludedIndex[i] .. lastLogIndex(i)
    PROVE  /\ SubSeq(Log[i], sliceIndex(i, k), Len(Log[i])) \in Seq(Entry)
           /\ Len(SubSeq(Log[i], sliceIndex(i, k), Len(Log[i]))) > 0
<1>1. Log[i] \in Seq(Entry) /\ Len(Log[i]) \in Nat
  BY DEF TypeOK
<1>2. sliceIndex(i, k) \in 1 .. Len(Log[i])
  BY LogIndices, Zenon
<1>3. \A n \in sliceIndex(i, k) .. Len(Log[i]) : Log[i][n] \in Entry
  BY <1>1, <1>2, ElementOfSeq
<1> QED BY <1>1, <1>2, <1>3, SubSeqProperties

\* The consistency check yields a verdict, and passes only where the log reaches.
LEMMA CheckPrevType ==
    ASSUME TypeOK, NEW m \in AppendMsgs, NEW i \in Server
    PROVE  /\ CheckPrev(m, i).ok \in BOOLEAN
           /\ CheckPrev(m, i).term \in Int
           /\ CheckPrev(m, i).index \in Nat
           /\ CheckPrev(m, i).ok => m.PrevLogIndex \in LastIncludedIndex[i] .. lastLogIndex(i)
<1> DEFINE prev == m.PrevLogIndex
           lii == LastIncludedIndex[i]
           K == {k \in lii .. prev : k = lii \/ TermAt(i, k) # TermAt(i, prev)}
<1>1. prev \in Nat /\ lii \in Nat /\ lastLogIndex(i) \in Nat
  BY LogIndices, Zenon DEF AppendMsgs
<1>2. CASE prev < lii
  BY <1>1, <1>2, SMTT(40) DEF CheckPrev
<1>3. CASE prev > lastLogIndex(i)
  BY <1>1, <1>3 DEF CheckPrev
<1>4. CASE prev \in lii .. lastLogIndex(i)
  <2>1. TermAt(i, prev) \in Nat
    BY <1>4, LogIndices
  <2>2. MaxOf(K) \in K
    <3>1. K # {} /\ K \in SUBSET (lii .. prev)
      BY <1>1, <1>4
    <3>2. lii \in Int /\ prev \in Int
      BY <1>1
    <3> HIDE DEF K, lii, prev
    <3> QED BY <3>1, <3>2, MaxOfIsGreatest, Zenon
  <2>3. 1 + MaxOf(K) \in Nat
    BY <1>1, <2>2, SMTT(40)
  <2>4. CheckPrev(m, i) = IF TermAt(i, prev) # m.PrevLogTerm
                          THEN [ok |-> FALSE, term |-> TermAt(i, prev), index |-> 1 + MaxOf(K)]
                          ELSE [ok |-> TRUE, term |-> 0, index |-> 0]
    BY <1>1, <1>4 DEF CheckPrev
  <2> HIDE DEF K
  <2> QED BY <1>4, <2>1, <2>3, <2>4
<1> QED BY <1>1, <1>2, <1>3, <1>4

\* After a passed check the log is still a log with its dummy entry.
LEMMA AppendedType ==
    ASSUME TypeOK, NEW m \in AppendMsgs, NEW i \in Server,
           m.PrevLogIndex \in LastIncludedIndex[i] .. lastLogIndex(i)
    PROVE  Appended(m, i) \in Seq(Entry) /\ Len(Appended(m, i)) > 0
<1> DEFINE D == {n \in 1 .. Len(m.Entries) :
                   \/ m.PrevLogIndex + n > lastLogIndex(i)
                   \/ m.Entries[n].term # TermAt(i, m.PrevLogIndex + n)}
           d == MinOf(D)
           keep == sliceIndex(i, m.PrevLogIndex + d) - 1
<1>1. /\ Log[i] \in Seq(Entry) /\ Len(Log[i]) \in Nat /\ Len(Log[i]) > 0
      /\ m.Entries \in Seq(Entry) /\ Len(m.Entries) \in Nat
      /\ m.PrevLogIndex \in Nat /\ LastIncludedIndex[i] \in Nat
  <2>1. m.Entries \in Seq(Entry) /\ m.PrevLogIndex \in Nat
    BY DEF AppendMsgs
  <2>2. Log[i] \in Seq(Entry) /\ Len(Log[i]) > 0 /\ LastIncludedIndex[i] \in Nat
    BY Zenon DEF TypeOK
  <2> QED BY <2>1, <2>2, LenProperties
<1>2. CASE D = {}
  BY <1>1, <1>2 DEF Appended
<1>3. CASE D # {}
  <2>1. d \in D /\ \A n \in D : d <= n
    <3>1. D \in SUBSET Nat
      OBVIOUS
    <3> HIDE DEF D
    <3> QED BY <1>3, <3>1, MinOfIsLeast
  <2>2. d \in 1 .. Len(m.Entries)
    BY <2>1, Zenon
  <2>3. m.PrevLogIndex + d <= lastLogIndex(i) + 1
    <3>1. CASE d = 1
      BY <1>1, <3>1, LogIndices, SMTT(40)
    <3>2. CASE d > 1
      <4>1. d - 1 \in 1 .. Len(m.Entries) /\ d - 1 \notin D
        <5> HIDE DEF D, d
        <5> QED BY <1>1, <2>1, <2>2, <3>2, SMTT(40)
      <4>2. ~(m.PrevLogIndex + (d - 1) > lastLogIndex(i))
        BY <4>1, Zenon
      <4> QED BY <1>1, <2>2, <4>2, LogIndices, SMTT(40)
    <3> QED BY <2>2, <3>1, <3>2, SMTT(40)
  <2> HIDE DEF d
  <2>4. keep \in 1 .. Len(Log[i])
    BY <1>1, <2>2, <2>3, SMTT(40) DEF lastLogIndex, sliceIndex
  <2>5. Appended(m, i) = SubSeq(Log[i], 1, keep) \o SubSeq(m.Entries, d, Len(m.Entries))
    BY <1>3, Zenon DEF Appended, d
  <2> HIDE DEF keep
  <2>6. SubSeq(Log[i], 1, keep) \in Seq(Entry) /\ Len(SubSeq(Log[i], 1, keep)) = keep
    <3>1. \A n \in 1 .. keep : Log[i][n] \in Entry
      BY <1>1, <2>4, ElementOfSeq, SMTT(40)
    <3> QED BY <1>1, <2>4, <3>1, SubSeqProperties
  <2>7. SubSeq(m.Entries, d, Len(m.Entries)) \in Seq(Entry)
    <3>1. \A n \in d .. Len(m.Entries) : m.Entries[n] \in Entry
      BY <1>1, <2>2, ElementOfSeq
    <3> QED BY <1>1, <2>2, <3>1, SubSeqProperties, SMTT(40)
  <2> QED BY <2>4, <2>5, <2>6, <2>7, ConcatProperties, LenProperties, SMTT(40)
<1> QED BY <1>2, <1>3

\* The AppendEntries handler keeps the types and leaves the dummy entry in place.
LEMMA AppendEntriesType ==
    ASSUME TypeOK, NEW m \in net, AppendEntries(m)
    PROVE  TypeOK'
<1> DEFINE i == m.dst
           newer == m.Term > CurrentTerm[i]
           check == CheckPrev(m, i)
           log == IF check.ok THEN Appended(m, i) ELSE Log[i]
           last == Len(log) - 1 + LastIncludedIndex[i]
<1>1. m \in AppendMsgs
  <2>1. m \in Message /\ m.type = "AppendEntries"
    BY Zenon DEF TypeOK, AppendEntries
  <2> QED BY <2>1, MessageKinds, Zenon
<1>2. /\ i \in Server /\ m.src \in Server /\ m.inc \in Nat /\ m.Term \in Nat
      /\ m.PrevLogIndex \in Nat /\ m.LeaderCommit \in Nat /\ m.Entries \in Seq(Entry)
  BY <1>1 DEF AppendMsgs
<1>3. /\ check.ok \in BOOLEAN /\ check.term \in Int /\ check.index \in Nat
      /\ check.ok => m.PrevLogIndex \in LastIncludedIndex[i] .. lastLogIndex(i)
  BY <1>1, <1>2, CheckPrevType, Zenon
<1>4. /\ CurrentTerm[i] \in Nat /\ Log[i] \in Seq(Entry) /\ Len(Log[i]) > 0
      /\ LastIncludedIndex[i] \in Nat /\ commitIndex[i] \in Nat
  BY <1>2, Zenon DEF TypeOK
<1>5. log \in Seq(Entry) /\ Len(log) > 0 /\ Len(log) \in Nat
  <2>1. CASE check.ok
    <3>1. log = Appended(m, i)
      BY <2>1
    <3> HIDE DEF log, check
    <3> QED BY <1>1, <1>2, <1>3, <2>1, <3>1, AppendedType, LenProperties, Zenon
  <2>2. CASE ~check.ok
    <3>1. log = Log[i]
      BY <2>2
    <3> HIDE DEF log, check
    <3> QED BY <1>4, <3>1, LenProperties
  <2> QED BY <2>1, <2>2
<1>6. ASSUME NEW term \in Nat, NEW ok \in BOOLEAN, NEW ct \in Int, NEW ci \in Nat
      PROVE  AppendReply(m, term, ok, ct, ci) \in SUBSET Message
  <2>1. Len(m.Entries) \in Nat
    BY <1>2, LenProperties
  <2>2. m.src \in Server /\ m.dst \in Server /\ m.inc \in Nat /\ m.Term \in Nat
        /\ m.PrevLogIndex \in Nat
    BY <1>2, Zenon
  <2>3. \A r \in AppendReply(m, term, ok, ct, ci) : r \in AppendReplies
    BY <2>1, <2>2, SMTT(30) DEF AppendReply, AppendReplies
  <2> QED BY <2>3 DEF Message
<1>7. UNCHANGED <<snapshotPending, leaderVars, electVars, applierVars, procVars>>
  BY DEF AppendEntries
<1>8. CASE m.Term < CurrentTerm[i]
  <2>0. ~(m.Term >= CurrentTerm[i])
    BY <1>2, <1>4, <1>8
  <2>1. /\ Receive(m, AppendReply(m, CurrentTerm[i], FALSE, 0, 0))
        /\ UNCHANGED <<persistent, state, commitIndex>>
    BY <2>0, Zenon DEF AppendEntries
  <2>2. net' \subseteq Message
    <3>1. AppendReply(m, CurrentTerm[i], FALSE, 0, 0) \in SUBSET Message
      <4>1. FALSE \in BOOLEAN /\ 0 \in Int /\ 0 \in Nat
        OBVIOUS
      <4> QED BY <1>4, <1>6, <4>1, Zenon
    <3> QED BY <2>1, <3>1, NetType, ZenonT(40)
  <2> QED BY <1>7, <2>1, <2>2, Zenon DEF TypeOK, persistent, leaderVars, electVars, applierVars, procVars
<1>9. CASE m.Term >= CurrentTerm[i]
  <2>1. /\ CurrentTerm' = [CurrentTerm EXCEPT ![i] = m.Term]
        /\ VotedFor' = [VotedFor EXCEPT ![i] = IF newer THEN Nil ELSE @]
        /\ state' = [state EXCEPT ![i] = IF newer \/ @ = "candidate" THEN "follower" ELSE @]
        /\ Receive(m, AppendReply(m, m.Term, check.ok, check.term, check.index))
        /\ Log' = [Log EXCEPT ![i] = log]
        /\ commitIndex' = [commitIndex EXCEPT ![i] =
                              IF check.ok /\ m.LeaderCommit > @
                              THEN Min2(m.LeaderCommit, last) ELSE @]
        /\ UNCHANGED <<LastIncludedIndex, SnapshotData>>
        /\ IF newer \/ log # Log[i] THEN persist(i) ELSE UNCHANGED persisted
    <3>1. ~(m.Term < CurrentTerm[i])
      BY <1>2, <1>4, <1>9, SMTT(40)
    <3> QED BY <3>1, Zenon DEF AppendEntries
  <2>2. last \in Nat /\ Min2(m.LeaderCommit, last) \in Nat
    <3> HIDE DEF log
    <3> QED BY <1>2, <1>4, <1>5, SMTT(40) DEF Min2
  <2> HIDE DEF log, last, check, newer
  <2>3. net' \subseteq Message
    BY <1>2, <1>3, <1>6, <2>1, NetType, Zenon
  <2>4. /\ CurrentTerm' \in [Server -> Nat] /\ VotedFor' \in [Server -> Server \cup {Nil}]
        /\ state' \in [Server -> {"follower", "candidate", "leader"}]
        /\ commitIndex' \in [Server -> Nat]
    BY <1>2, <2>1, <2>2, ZenonT(40) DEF TypeOK
  <2>5. Log' \in [Server -> Seq(Entry)] /\ \A j \in Server : Len(Log'[j]) > 0
    BY <1>2, <1>5, <2>1, ZenonT(40) DEF TypeOK
  <2>6. /\ persisted' \in [Server -> Persisted]
        /\ \A j \in Server : Len(persisted'[j].Log) > 0
    <3>1. CASE persist(i)
      <4>1. LastIncludedIndex'[i] \in Nat /\ SnapshotData'[i] \in Seq(Entry)
        BY <1>2, <2>1, Zenon DEF TypeOK
      <4>2. CurrentTerm'[i] \in Nat /\ VotedFor'[i] \in Server \cup {Nil}
            /\ Log'[i] \in Seq(Entry) /\ Len(Log'[i]) > 0
        BY <1>2, <2>4, <2>5, Zenon
      <4> QED BY <1>2, <3>1, <4>1, <4>2, PersistType, Zenon
    <3>2. CASE UNCHANGED persisted
      BY <3>2 DEF TypeOK
    <3> QED BY <2>1, <3>1, <3>2, Zenon
  <2> QED BY <1>7, <2>1, <2>3, <2>4, <2>5, <2>6
         , Zenon DEF TypeOK, leaderVars, electVars, applierVars, procVars
<1> QED BY <1>2, <1>4, <1>8, <1>9

\* Changing one entry of a leader's table.
LEMMA TableType ==
    ASSUME NEW f \in [Server -> [Server -> Nat]], NEW i \in Server, NEW j \in Server,
           NEW v \in Nat
    PROVE  [f EXCEPT ![i][j] = v] \in [Server -> [Server -> Nat]]
<1>1. [f[i] EXCEPT ![j] = v] \in [Server -> Nat]
  OBVIOUS
<1>2. [f EXCEPT ![i][j] = v] = [f EXCEPT ![i] = [f[i] EXCEPT ![j] = v]]
  OBVIOUS
<1> QED BY <1>1, <1>2

\* Learning that a follower holds n entries keeps the types.
LEMMA MatchedType ==
    ASSUME TypeOK, NEW i \in Server, NEW j \in Server, NEW n \in Nat, Matched(i, j, n)
    PROVE  /\ nextIndex' \in [Server -> [Server -> Nat]]
           /\ matchIndex' \in [Server -> [Server -> Nat]]
           /\ commitIndex' \in [Server -> Nat]
<1> DEFINE match == [matchIndex[i] EXCEPT ![j] = n]
           C == {N \in commitIndex[i] + 1 .. lastLogIndex(i) :
                   /\ \A M \in N .. lastLogIndex(i) : TermAt(i, M) = CurrentTerm[i]
                   /\ Majority({i} \cup {k \in Server : match[k] >= N})}
<1>1. /\ nextIndex' \in [Server -> [Server -> Nat]]
      /\ matchIndex' \in [Server -> [Server -> Nat]]
  <2>1. /\ nextIndex' = [nextIndex EXCEPT ![i][j] = n + 1]
        /\ matchIndex' = [matchIndex EXCEPT ![i][j] = n]
    BY DEF Matched
  <2>2. /\ nextIndex \in [Server -> [Server -> Nat]]
        /\ matchIndex \in [Server -> [Server -> Nat]]
    BY Zenon DEF TypeOK
  <2>3. n + 1 \in Nat
    OBVIOUS
  <2> QED BY <2>1, <2>2, <2>3, TableType
<1>2. commitIndex[i] \in Nat /\ lastLogIndex(i) \in Nat /\ commitIndex \in [Server -> Nat]
  BY LogIndices, Zenon DEF TypeOK
<1>3. commitIndex' = [commitIndex EXCEPT ![i] = IF C = {} THEN @ ELSE MaxOf(C)]
  BY DEF Matched, advanceCommitIndex
<1>4. C \in SUBSET (commitIndex[i] + 1 .. lastLogIndex(i))
  OBVIOUS
<1> HIDE DEF C
<1>5. C # {} => MaxOf(C) \in C
  <2>1. commitIndex[i] + 1 \in Int /\ lastLogIndex(i) \in Int
    BY <1>2
  <2> QED BY <1>4, <2>1, MaxOfIsGreatest, Zenon
<1>6. C # {} => MaxOf(C) \in Nat
  <2>1. C # {} => MaxOf(C) \in commitIndex[i] + 1 .. lastLogIndex(i)
    BY <1>4, <1>5, Zenon
  <2> QED BY <1>2, <2>1
<1> QED BY <1>1, <1>2, <1>3, <1>6, Zenon

\* The next index chosen after a failed consistency check is a natural number.
LEMMA ConflictNextType ==
    ASSUME TypeOK, NEW m \in AppendReplies
    PROVE  ConflictNext(m, m.dst) \in Nat
<1> DEFINE i == m.dst
           a == Max2(LastIncludedIndex[i], m.ConflictIndex)
           J == {j \in a .. m.PrevLogIndex : TermAt(i, j) = m.ConflictTerm}
<1>1. /\ i \in Server /\ m.src \in Server /\ m.PrevLogIndex \in Nat
      /\ m.ConflictIndex \in Nat
  BY Zenon DEF AppendReplies
<1>2. a \in Nat /\ matchIndex[i][m.src] \in Nat
  BY <1>1, Zenon DEF TypeOK, Max2
<1>3. J \in SUBSET (a .. m.PrevLogIndex)
  OBVIOUS
<1>4. ConflictNext(m, i) = Max2(IF m.ConflictTerm = -1 \/ J = {} THEN m.ConflictIndex
                                ELSE MaxOf(J) + 1, matchIndex[i][m.src] + 1)
  BY DEF ConflictNext
<1> HIDE DEF J, a
<1>5. J # {} => MaxOf(J) \in J
  <2>1. a \in Int /\ m.PrevLogIndex \in Int
    BY <1>1, <1>2
  <2> QED BY <1>3, <2>1, MaxOfIsGreatest, Zenon
<1>6. J # {} => MaxOf(J) + 1 \in Nat
  <2>1. J # {} => MaxOf(J) \in a .. m.PrevLogIndex
    BY <1>3, <1>5, Zenon
  <2> QED BY <1>1, <1>2, <2>1
<1> QED BY <1>1, <1>2, <1>4, <1>6 DEF Max2

\* Handling an AppendEntries reply keeps the types.
LEMMA AppendEntriesReplyType ==
    ASSUME TypeOK, NEW m \in net, AppendEntriesReply(m)
    PROVE  TypeOK'
<1> DEFINE i == m.dst
           j == m.src
           n == m.PrevLogIndex + m.nEntries
<1>1. m \in AppendReplies
  <2>1. m \in Message /\ m.type = "AppendEntriesReply"
    BY Zenon DEF TypeOK, AppendEntriesReply
  <2> QED BY <2>1, MessageKinds, Zenon
<1>2. i \in Server /\ j \in Server /\ n \in Nat /\ m.Term \in Nat
  BY <1>1, SMTT(40) DEF AppendReplies
<1>3. net' \subseteq Message
  BY NetType, ZenonT(40) DEF AppendEntriesReply
<1>4. CASE StepDown(i, m.Term)
  BY <1>2, <1>3, <1>4, StepDownType
<1>5. CASE Panic(i)
  BY <1>2, <1>3, <1>5, PanicType
<1>6. CASE /\ UNCHANGED <<leaderVars, commitIndex>> \/ Matched(i, j, n)
           /\ UNCHANGED <<persistent, state, snapshotPending, electVars, applierVars, procVars>>
  <2>1. /\ nextIndex' \in [Server -> [Server -> Nat]]
        /\ matchIndex' \in [Server -> [Server -> Nat]] /\ commitIndex' \in [Server -> Nat]
    <3>1. CASE UNCHANGED <<leaderVars, commitIndex>>
      BY <3>1, Zenon DEF TypeOK, leaderVars
    <3>2. CASE Matched(i, j, n)
      BY <1>2, <3>2, MatchedType
    <3> QED BY <1>6, <3>1, <3>2, Zenon
  <2> QED BY <1>3, <1>6, <2>1, ZenonT(40) DEF TypeOK, persistent, electVars, applierVars, procVars
<1>7. CASE /\ nextIndex' = [nextIndex EXCEPT ![i][j] =
                               IF m.PrevLogIndex <= matchIndex[i][j] THEN @
                               ELSE ConflictNext(m, i)]
           /\ UNCHANGED <<persistent, state, commitIndex, snapshotPending, matchIndex,
                          electVars, applierVars, procVars>>
  <2>1. ConflictNext(m, i) \in Nat
    BY <1>1, ConflictNextType
  <2>2. nextIndex' \in [Server -> [Server -> Nat]]
    <3> DEFINE v == IF m.PrevLogIndex <= matchIndex[i][j] THEN nextIndex[i][j]
                    ELSE ConflictNext(m, i)
    <3>1. nextIndex \in [Server -> [Server -> Nat]] /\ v \in Nat
      BY <1>2, <2>1, ZenonT(40) DEF TypeOK
    <3>2. nextIndex' = [nextIndex EXCEPT ![i][j] = v]
      BY <1>7
    <3> HIDE DEF v
    <3> QED BY <1>2, <3>1, <3>2, TableType, Zenon
  <2> QED BY <1>3, <1>7, <2>2, Zenon DEF TypeOK, persistent, electVars, applierVars, procVars
<1> QED BY <1>4, <1>5, <1>6, <1>7, Zenon DEF AppendEntriesReply

\* Snapshot trims the log so that the entry at index becomes the dummy.
LEMMA SnapshotType ==
    ASSUME TypeOK, NEW i \in Server, Snapshot(i)
    PROVE  TypeOK'
<1> DEFINE index == Len(svcState[i])
<1>1. svcState[i] \in Seq(Entry) /\ index \in Nat
  BY LenProperties, Zenon DEF TypeOK
<1>2. net' \subseteq Message
  BY DEF TypeOK, Snapshot
<1>3. CASE index > lastLogIndex(i)
  <2>1. Panic(i)
    BY <1>3, Zenon DEF Snapshot
  <2> QED BY <1>2, <2>1, PanicType, Zenon
<1>4. CASE ~(index > lastLogIndex(i))
  <2> DEFINE log == SubSeq(Log[i], sliceIndex(i, index), Len(Log[i]))
  <2>1. /\ Log' = [Log EXCEPT ![i] = log]
        /\ LastIncludedIndex' = [LastIncludedIndex EXCEPT ![i] = index]
        /\ SnapshotData' = [SnapshotData EXCEPT ![i] = svcState[i]]
        /\ UNCHANGED <<CurrentTerm, VotedFor>>
        /\ persist(i)
        /\ UNCHANGED <<state, commitIndex, snapshotPending, leaderVars, electVars,
                       applierVars, procVars>>
    BY <1>4, Zenon DEF Snapshot
  <2>2. log \in Seq(Entry) /\ Len(log) > 0
    <3>1. index \in LastIncludedIndex[i] .. lastLogIndex(i)
      <4>1. index > LastIncludedIndex[i]
        BY Zenon DEF Snapshot
      <4>2. lastLogIndex(i) \in Nat /\ LastIncludedIndex[i] \in Nat
        BY LogIndices, Zenon
      <4> QED BY <1>1, <1>4, <4>1, <4>2
    <3> QED BY <3>1, SuffixType, Zenon
  <2> HIDE DEF log, index
  <2>3. /\ Log' \in [Server -> Seq(Entry)] /\ \A j \in Server : Len(Log'[j]) > 0
        /\ LastIncludedIndex' \in [Server -> Nat] /\ SnapshotData' \in [Server -> Seq(Entry)]
    BY <1>1, <2>1, <2>2 DEF TypeOK
  <2>4. /\ persisted' \in [Server -> Persisted]
        /\ \A j \in Server : Len(persisted'[j].Log) > 0
    BY <2>1, <2>3, PersistType, Zenon DEF TypeOK
  <2> QED BY <1>2, <2>1, <2>3, <2>4, Zenon DEF TypeOK, leaderVars, electVars, applierVars, procVars
<1> QED BY <1>3, <1>4, Zenon

\* The InstallSnapshot handler keeps the types and leaves a dummy entry.
LEMMA InstallSnapshotType ==
    ASSUME TypeOK, NEW m \in net, InstallSnapshot(m)
    PROVE  TypeOK'
<1> DEFINE i == m.dst
           newer == m.Term > CurrentTerm[i]
           ahead == m.Term >= CurrentTerm[i] /\ LastIncludedIndex[i] < m.LastIncludedIndex
           apply == ahead /\ ServiceBehind(m, i)
           reply == [type |-> "InstallSnapshotReply", src |-> i, dst |-> m.src,
                     inc |-> m.inc, argsTerm |-> m.Term,
                     LastIncludedIndex |-> m.LastIncludedIndex,
                     Term |-> Max2(m.Term, CurrentTerm[i])]
<1>1. /\ i \in Server /\ m.src \in Server /\ m.inc \in Nat /\ m.Term \in Nat
      /\ m.LastIncludedIndex \in Nat /\ m.LastIncludedTerm \in Nat /\ m.Data \in Seq(Entry)
  <2>1. m \in Message /\ m.type = "InstallSnapshot"
    BY Zenon DEF TypeOK, InstallSnapshot
  <2>2. m \in SnapshotMsgs
    BY <2>1, MessageKinds, Zenon
  <2> QED BY <2>2, Zenon DEF SnapshotMsgs
<1>2. /\ CurrentTerm[i] \in Nat /\ LastIncludedIndex[i] \in Nat
      /\ Max2(m.Term, CurrentTerm[i]) \in Nat
  BY <1>1 DEF TypeOK, Max2
<1>3. net' \subseteq Message
  <2>1. reply \in SnapshotReplies
    BY <1>1, <1>2, Zenon DEF SnapshotReplies
  <2>2. Receive(m, IF Waiting(m) THEN {reply} ELSE {})
    BY Zenon DEF InstallSnapshot
  <2> HIDE DEF reply
  <2> QED BY <2>1, <2>2, NetType, Zenon DEF Message
<1>4. /\ CurrentTerm' \in [Server -> Nat] /\ VotedFor' \in [Server -> Server \cup {Nil}]
      /\ state' \in [Server -> {"follower", "candidate", "leader"}]
  <2>1. becomeFollowerWithTerm(i, m.Term) \/ UNCHANGED termVars
    BY ZenonT(40) DEF InstallSnapshot
  <2>2. CASE becomeFollowerWithTerm(i, m.Term)
    BY <1>1, <2>2, ZenonT(40) DEF TypeOK, becomeFollowerWithTerm
  <2>3. CASE UNCHANGED termVars
    BY <2>3 DEF TypeOK, termVars
  <2> QED BY <2>1, <2>2, <2>3, Zenon
<1>5. /\ Log' \in [Server -> Seq(Entry)] /\ \A j \in Server : Len(Log'[j]) > 0
      /\ LastIncludedIndex' \in [Server -> Nat] /\ SnapshotData' \in [Server -> Seq(Entry)]
  <2>1. CASE ahead
    <3>1. /\ Log' = [Log EXCEPT ![i] = LogAfter(m, i)]
          /\ LastIncludedIndex' = [LastIncludedIndex EXCEPT ![i] = m.LastIncludedIndex]
          /\ SnapshotData' = [SnapshotData EXCEPT ![i] = m.Data]
      BY <2>1, Zenon DEF InstallSnapshot
    <3>2. LogAfter(m, i) \in Seq(Entry) /\ Len(LogAfter(m, i)) > 0
      <4> DEFINE k == m.LastIncludedIndex
      <4>1. CASE lastLogIndex(i) >= k /\ TermAt(i, k) = m.LastIncludedTerm
        <5>1. k \in LastIncludedIndex[i] .. lastLogIndex(i)
          BY <1>1, <1>2, <2>1, <4>1, LogIndices, SMTT(40)
        <5>2. LogAfter(m, i) = SubSeq(Log[i], sliceIndex(i, k), Len(Log[i]))
          BY <4>1, Zenon DEF LogAfter
        <5> QED BY <1>1, <5>1, <5>2, SuffixType, Zenon
      <4>2. CASE ~(lastLogIndex(i) >= k /\ TermAt(i, k) = m.LastIncludedTerm)
        <5>1. LogAfter(m, i) = <<[term |-> m.LastIncludedTerm, cmd |-> Nil]>>
          BY <4>2 DEF LogAfter
        <5>2. [term |-> m.LastIncludedTerm, cmd |-> Nil] \in Entry
          BY <1>1 DEF Entry
        <5> QED BY <5>1, <5>2
      <4> QED BY <4>1, <4>2, Zenon
    <3> QED BY <1>1, <3>1, <3>2, Zenon DEF TypeOK
  <2>2. CASE ~ahead
    BY <2>2, ZenonT(40) DEF TypeOK, InstallSnapshot, logVars
  <2> QED BY <2>1, <2>2, Zenon
<1>6. commitIndex' \in [Server -> Nat] /\ snapshotPending' \in [Server -> BOOLEAN]
  <2>1. commitIndex' \in [Server -> Nat]
    BY <1>1, Zenon DEF TypeOK, InstallSnapshot, Max2
  <2>2. snapshotPending' = [snapshotPending EXCEPT ![i] = @ \/ apply]
    BY ZenonT(40) DEF InstallSnapshot
  <2> HIDE DEF apply
  <2>3. snapshotPending' \in [Server -> BOOLEAN]
    BY <1>1, <2>2, Zenon DEF TypeOK
  <2> QED BY <2>1, <2>3
<1>7. /\ persisted' \in [Server -> Persisted]
      /\ \A j \in Server : Len(persisted'[j].Log) > 0
  <2>1. CASE persist(i)
    BY <1>1, <1>4, <1>5, <2>1, PersistType, ZenonT(40)
  <2>2. CASE UNCHANGED persisted
    BY <2>2 DEF TypeOK
  <2> QED BY <2>1, <2>2, ZenonT(40) DEF InstallSnapshot
<1>8. UNCHANGED <<leaderVars, electVars, applierVars, procVars>>
  BY ZenonT(40) DEF InstallSnapshot
<1> QED BY <1>3, <1>4, <1>5, <1>6, <1>7, <1>8
       , ZenonT(40) DEF TypeOK, leaderVars, electVars, applierVars, procVars

\* Handling an InstallSnapshot reply keeps the types.
LEMMA InstallSnapshotReplyType ==
    ASSUME TypeOK, NEW m \in net, InstallSnapshotReply(m)
    PROVE  TypeOK'
<1> DEFINE i == m.dst
           n == m.LastIncludedIndex
<1>1. i \in Server /\ m.src \in Server /\ n \in Nat /\ m.Term \in Nat
  <2>1. m \in Message /\ m.type = "InstallSnapshotReply"
    BY DEF TypeOK, InstallSnapshotReply
  <2>2. m \in SnapshotReplies
    BY <2>1, MessageKinds, Zenon
  <2> QED BY <2>2, Zenon DEF SnapshotReplies
<1>2. net' \subseteq Message
  BY NetType DEF InstallSnapshotReply
<1>3. CASE StepDown(i, m.Term)
  BY <1>1, <1>2, <1>3, StepDownType, Zenon
<1>4. CASE /\ UNCHANGED <<leaderVars, commitIndex>> \/ Matched(i, m.src, n)
           /\ UNCHANGED <<persistent, state, snapshotPending, electVars, applierVars, procVars>>
  <2>1. /\ nextIndex' \in [Server -> [Server -> Nat]]
        /\ matchIndex' \in [Server -> [Server -> Nat]] /\ commitIndex' \in [Server -> Nat]
    <3>1. CASE UNCHANGED <<leaderVars, commitIndex>>
      BY <3>1 DEF TypeOK, leaderVars
    <3>2. CASE Matched(i, m.src, n)
      BY <1>1, <3>2, MatchedType, Zenon
    <3> QED BY <1>4, <3>1, <3>2
  <2> QED BY <1>2, <1>4, <2>1, Zenon DEF TypeOK, persistent, electVars, applierVars, procVars
<1> QED BY <1>3, <1>4 DEF InstallSnapshotReply

\* The applier builds a well-typed message.
LEMMA ApplierTakeType ==
    ASSUME TypeOK, NEW i \in Server, ApplierTake(i)
    PROVE  TypeOK'
<1> DEFINE k == lastApplied[i] + 1
           snapshotMsg == [snapshot |-> TRUE, index |-> LastIncludedIndex[i],
                           data |-> SnapshotData[i]]
           logMsg == [snapshot |-> FALSE, index |-> k, data |-> <<Log[i][sliceIndex(i, k)]>>]
<1>1. UNCHANGED <<persistent, state, commitIndex, leaderVars, electVars, lastApplied,
                  svcState, restarts, net>>
  BY Zenon DEF ApplierTake
<1>2. CASE snapshotPending[i]
  <2>1. snapshotMsg \in ApplyMsg
    BY Zenon DEF TypeOK, ApplyMsg
  <2>2. /\ applyMsg' = [applyMsg EXCEPT ![i] = snapshotMsg]
        /\ snapshotPending' = [snapshotPending EXCEPT ![i] = FALSE]
        /\ applyPC' = [applyPC EXCEPT ![i] = "send"]
        /\ UNCHANGED panicked
    BY <1>2, Zenon DEF ApplierTake
  <2> HIDE DEF snapshotMsg
  <2>3. /\ applyMsg' \in [Server -> ApplyMsg] /\ applyPC' \in [Server -> {"idle", "send", "sent"}]
    BY <2>1, <2>2, Zenon DEF TypeOK
  <2>4. snapshotPending' \in [Server -> BOOLEAN] /\ panicked' \in [Server -> BOOLEAN]
    BY <2>2, Zenon DEF TypeOK
  <2> QED BY <1>1, <2>3, <2>4, Zenon DEF TypeOK, persistent, leaderVars, electVars
<1>3. CASE ~snapshotPending[i] /\ sliceIndex(i, k) \in DOMAIN Log[i]
  <2>1. logMsg \in ApplyMsg
    <3>1. Log[i] \in Seq(Entry) /\ k \in Nat
      BY SMTT(40) DEF TypeOK
    <3>2. Log[i][sliceIndex(i, k)] \in Entry
      BY <1>3, <3>1, ElementOfSeq, LenProperties, Zenon
    <3>3. <<Log[i][sliceIndex(i, k)]>> \in Seq(Entry)
      BY <3>2
    <3> QED BY <3>1, <3>3, Zenon DEF ApplyMsg
  <2>2. /\ applyMsg' = [applyMsg EXCEPT ![i] = logMsg]
        /\ applyPC' = [applyPC EXCEPT ![i] = "send"]
        /\ UNCHANGED <<snapshotPending, panicked>>
    BY <1>3, Zenon DEF ApplierTake
  <2> HIDE DEF logMsg
  <2>3. /\ applyMsg' \in [Server -> ApplyMsg] /\ applyPC' \in [Server -> {"idle", "send", "sent"}]
    BY <2>1, <2>2, Zenon DEF TypeOK
  <2> QED BY <1>1, <2>2, <2>3, Zenon DEF TypeOK, persistent, leaderVars, electVars
<1>4. CASE ~snapshotPending[i] /\ ~(sliceIndex(i, k) \in DOMAIN Log[i])
  <2>1. /\ panicked' = [panicked EXCEPT ![i] = TRUE]
        /\ UNCHANGED <<snapshotPending, applyMsg, applyPC>>
    BY <1>4, Zenon DEF ApplierTake
  <2>2. panicked' \in [Server -> BOOLEAN]
    BY <2>1, Zenon DEF TypeOK
  <2> QED BY <1>1, <2>1, <2>2, Zenon DEF TypeOK, persistent, leaderVars, electVars
<1> QED BY <1>2, <1>3, <1>4, Zenon

\* The service loop of rsm.go keeps the types.
LEMMA ServiceReceiveType ==
    ASSUME TypeOK, NEW i \in Server, ServiceReceive(i)
    PROVE  TypeOK'
<1>1. /\ svcState[i] \in Seq(Entry) /\ svcState \in [Server -> Seq(Entry)]
      /\ applyMsg[i].data \in Seq(Entry)
  BY Zenon DEF TypeOK, ApplyMsg
<1>2. svcState[i] \o applyMsg[i].data \in Seq(Entry)
  BY <1>1, ConcatProperties
<1>3. svcState' \in [Server -> Seq(Entry)]
  BY <1>1, <1>2, Zenon DEF ServiceReceive
<1>4. applyPC' \in [Server -> {"idle", "send", "sent"}]
  BY Zenon DEF TypeOK, ServiceReceive
<1> QED BY <1>3, <1>4
       , Zenon DEF TypeOK, ServiceReceive, persistent, leaderVars, electVars, procVars

\* Advancing lastApplied keeps the types.
LEMMA ApplierDoneType ==
    ASSUME TypeOK, NEW i \in Server, ApplierDone(i)
    PROVE  TypeOK'
<1>1. NoMsg \in ApplyMsg
  BY DEF NoMsg, ApplyMsg
<1>2. applyMsg[i].index \in Nat
  BY Zenon DEF TypeOK, ApplyMsg
<1>3. lastApplied' \in [Server -> Nat]
  BY <1>2, SMTT(40) DEF TypeOK, ApplierDone
<1>4. applyMsg' \in [Server -> ApplyMsg] /\ applyPC' \in [Server -> {"idle", "send", "sent"}]
  BY <1>1, Zenon DEF TypeOK, ApplierDone
<1> QED BY <1>3, <1>4
       , Zenon DEF TypeOK, ApplierDone, persistent, leaderVars, electVars, procVars

\* readPersist restores well-typed fields, because what persist wrote is.
LEMMA RestartType ==
    ASSUME TypeOK, NEW i \in Server, Restart(i)
    PROVE  TypeOK'
<1> DEFINE p == persisted[i]
<1>1. /\ p.CurrentTerm \in Nat /\ p.VotedFor \in Server \cup {Nil} /\ p.Log \in Seq(Entry)
      /\ p.SnapshotIndex \in Nat /\ p.Snapshot \in Seq(Entry)
  BY Zenon DEF TypeOK, Persisted
<1>2. Len(p.Log) > 0
  BY Zenon DEF TypeOK
<1>3. NoMsg \in ApplyMsg
  BY DEF NoMsg, ApplyMsg
<1> HIDE DEF p
<1>4. /\ CurrentTerm' \in [Server -> Nat] /\ VotedFor' \in [Server -> Server \cup {Nil}]
      /\ Log' \in [Server -> Seq(Entry)] /\ LastIncludedIndex' \in [Server -> Nat]
      /\ SnapshotData' \in [Server -> Seq(Entry)] /\ svcState' \in [Server -> Seq(Entry)]
      /\ commitIndex' \in [Server -> Nat] /\ lastApplied' \in [Server -> Nat]
  BY <1>1, Zenon DEF TypeOK, Restart, p
<1>5. \A j \in Server : Len(Log'[j]) > 0
  BY <1>2, Zenon DEF TypeOK, Restart, p
<1>6. /\ state' \in [Server -> {"follower", "candidate", "leader"}]
      /\ applyPC' \in [Server -> {"idle", "send", "sent"}]
      /\ applyMsg' \in [Server -> ApplyMsg]
      /\ votes' \in [Server -> SUBSET Server] /\ restarts' \in [Server -> Nat]
  BY <1>3, SMTT(40) DEF TypeOK, Restart
<1>7. /\ nextIndex' \in [Server -> [Server -> Nat]]
      /\ matchIndex' \in [Server -> [Server -> Nat]]
  <2>1. [j \in Server |-> 0] \in [Server -> Nat]
    OBVIOUS
  <2> QED BY <2>1, Zenon DEF TypeOK, Restart
<1>8. /\ snapshotPending' \in [Server -> BOOLEAN] /\ needElection' \in [Server -> BOOLEAN]
      /\ panicked' \in [Server -> BOOLEAN]
  BY Zenon DEF TypeOK, Restart
<1>9. UNCHANGED <<persisted, net>>
  BY DEF Restart
<1> QED BY <1>4, <1>5, <1>6, <1>7, <1>8, <1>9, Zenon DEF TypeOK

\* Every step keeps the types.
LEMMA NextType ==
    ASSUME TypeOK, [Next]_vars
    PROVE  TypeOK'
<1>1. CASE UNCHANGED vars
  BY <1>1, Zenon DEF TypeOK, vars
<1>2. ASSUME NEW i \in Server, Step(i) PROVE TypeOK'
  BY <1>2, startElectionType, StartType, replicateToFollowerType, SnapshotType,
     ApplierTakeType, ServiceReceiveType, ApplierDoneType, Zenon DEF Step
<1>3. ASSUME NEW m \in net, Handle(m) PROVE TypeOK'
  BY <1>3, RequestVoteType, RequestVoteReplyType, AppendEntriesType, AppendEntriesReplyType,
     InstallSnapshotType, InstallSnapshotReplyType, Zenon DEF Handle
<1>4. ASSUME NEW m \in net, Lose(m) PROVE TypeOK'
  BY <1>4 DEF TypeOK, Lose, persistent, leaderVars, electVars, applierVars, procVars
<1>5. ASSUME NEW i \in Server, Restart(i) PROVE TypeOK'
  BY <1>5, RestartType
<1> QED BY <1>1, <1>2, <1>3, <1>4, <1>5, Zenon DEF Next

\* Every reachable state is typed: in particular no operation of raft.go, trimming,
\* truncating or replacing the log included, ever removes the dummy entry
\* that stands for LastIncludedIndex.
THEOREM TypeCorrect == Spec => []TypeOK
BY InitType, NextType, PTL DEF Spec

=============================================================================
