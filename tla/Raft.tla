-------------------------------- MODULE Raft --------------------------------
(***************************************************************************)
(* A Raft group: src/raft/raft.go, run over the lossy network of           *)
(* src/rpc/rpc.go and under the service loop of src/kvraft/rsm/rsm.go.     *)
(*                                                                         *)
(* One step is one critical section of rf.mu.  A goroutine that releases   *)
(* the lock and takes it again (ticker, applier, replicateToFollower,      *)
(* startElection) is several actions, and what it remembers in between is  *)
(* a variable or a field of a message.  Names are those of the code.       *)
(***************************************************************************)
EXTENDS Integers, Sequences, FiniteSets

CONSTANTS
    Server,        \* the peers of the group
    Nil,           \* VotedFor = -1
    Command,       \* what clients ask Start to append
    LateReplies,   \* may a replication reply arrive after its term is over?
    MaxTerm,       \* bound: no election beyond this term
    Electable,     \* bound: the servers that may stand for election in each term
    MaxIndex,      \* bound: no command beyond this log index, for each term
    MaxApply,      \* bound: the applier goes no further than this index
    MaxSnapshot,   \* bound: the service takes no snapshot beyond this index
    MaxRestarts,   \* bound: crashes per server
    MaxInFlight    \* bound: messages in the network at a time

ASSUME ServerAssumption == IsFiniteSet(Server) /\ Nil \notin Server
ASSUME BoundsAssumption ==
    /\ LateReplies \in BOOLEAN
    /\ MaxTerm \in Nat /\ MaxApply \in Nat /\ MaxSnapshot \in Nat
    /\ MaxRestarts \in Nat /\ MaxInFlight \in Nat
    /\ Electable \in [1 .. MaxTerm -> SUBSET Server]
    /\ MaxIndex \in [1 .. MaxTerm -> Nat]

VARIABLES
    CurrentTerm, VotedFor, Log, LastIncludedIndex, SnapshotData,
    persisted,         \* what the Persister holds for each server
    state, commitIndex, lastApplied, snapshotPending, nextIndex, matchIndex,
    votes,             \* servers counted by voteCount in the latest election
    needElection,      \* a leader whose ticker is about to call startElection
    applyPC, applyMsg, \* the applier: "idle", "send" (on applyCh), "sent"
    svcState,          \* the service: the entries it has applied, in order
    panicked,          \* an index or slice bounds panic has killed the process
    restarts,          \* incarnation of each server
    net                \* RPC requests and replies in flight

persistent  == <<CurrentTerm, VotedFor, Log, LastIncludedIndex, SnapshotData, persisted>>
termVars    == <<CurrentTerm, VotedFor, state>>
logVars     == <<Log, LastIncludedIndex, SnapshotData>>
leaderVars  == <<nextIndex, matchIndex>>
electVars   == <<votes, needElection>>
applierVars == <<lastApplied, applyPC, applyMsg, svcState>>
procVars    == <<panicked, restarts>>
vars == <<CurrentTerm, VotedFor, Log, LastIncludedIndex, SnapshotData, persisted,
          state, commitIndex, lastApplied, snapshotPending, nextIndex, matchIndex,
          votes, needElection, applyPC, applyMsg, svcState, panicked, restarts, net>>

-----------------------------------------------------------------------------
(* Data. A command is told apart by the entry that carries it, so the data *)
(* of a snapshot and the state of a service are the entries applied.       *)

Entry     == [term : Nat, cmd : Command \cup {Nil}]
Dummy     == [term |-> 0, cmd |-> Nil]
NoMsg     == [snapshot |-> FALSE, index |-> 0, data |-> <<>>]
ApplyMsg  == [snapshot : BOOLEAN, index : Nat, data : Seq(Entry)]
Persisted == [CurrentTerm : Nat, VotedFor : Server \cup {Nil}, Log : Seq(Entry),
              SnapshotIndex : Nat, Snapshot : Seq(Entry)]

Max2(a, b) == IF a >= b THEN a ELSE b
Min2(a, b) == IF a <= b THEN a ELSE b
MaxOf(S)   == CHOOSE x \in S : \A y \in S : y <= x
MinOf(S)   == CHOOSE x \in S : \A y \in S : x <= y

Majority(S) == Cardinality(S) > Cardinality(Server) \div 2

lastLogIndex(i)  == Len(Log[i]) - 1 + LastIncludedIndex[i]
lastLogTerm(i)   == Log[i][Len(Log[i])].term
sliceIndex(i, k) == k - LastIncludedIndex[i] + 1
TermAt(i, k)     == Log[i][sliceIndex(i, k)].term

-----------------------------------------------------------------------------
(* The network. A call is one request and at most one reply, either of     *)
(* which may be lost or delayed.  RequestVote is called once per peer and  *)
(* election, so its messages are consumed.  AppendEntries and              *)
(* InstallSnapshot are called again every heartbeat with the same          *)
(* arguments while nothing changes, so any number of equal copies may be   *)
(* under way: receiving one may leave another behind.                      *)

VoteMsgs == [type : {"RequestVote"}, src : Server, dst : Server, inc : Nat,
             Term : Nat, LastLogIndex : Nat, LastLogTerm : Nat]
VoteReplies == [type : {"RequestVoteReply"}, src : Server, dst : Server, inc : Nat,
                Term : Nat, VoteGranted : BOOLEAN]
AppendMsgs == [type : {"AppendEntries"}, src : Server, dst : Server, inc : Nat,
               Term : Nat, PrevLogIndex : Nat, PrevLogTerm : Nat,
               Entries : Seq(Entry), LeaderCommit : Nat]
AppendReplies == [type : {"AppendEntriesReply"}, src : Server, dst : Server, inc : Nat,
                  argsTerm : Nat, PrevLogIndex : Nat, nEntries : Nat, Term : Nat,
                  Success : BOOLEAN, ConflictTerm : Int, ConflictIndex : Nat]
SnapshotMsgs == [type : {"InstallSnapshot"}, src : Server, dst : Server, inc : Nat,
                 Term : Nat, LastIncludedIndex : Nat, LastIncludedTerm : Nat,
                 Data : Seq(Entry)]
SnapshotReplies == [type : {"InstallSnapshotReply"}, src : Server, dst : Server,
                    inc : Nat, argsTerm : Nat, LastIncludedIndex : Nat, Term : Nat]
Message == VoteMsgs \cup VoteReplies \cup AppendMsgs \cup AppendReplies
           \cup SnapshotMsgs \cup SnapshotReplies

\* The caller of request m still waits for its reply.
Waiting(m) == m.inc = restarts[m.src]

\* What leaves the network and what enters it, while there is room.
Transmit(out, in) ==
    /\ net' = (net \ out) \cup in
    /\ Cardinality(net') <= MaxInFlight

\* Replication call m is received, and the messages in are sent.
Receive(m, in) == \E out \in {{}, {m}} : Transmit(out, in)

\* A request or a reply is dropped, or its call is given up.
Lose(m) ==
    /\ net' = net \ {m}
    /\ UNCHANGED <<persistent, state, commitIndex, snapshotPending, leaderVars,
                   electVars, applierVars, procVars>>

-----------------------------------------------------------------------------
(* Persistence.                                                            *)

\* Mutants: a field is left out of what is saved.
persistNoVote(i) ==
    persisted' = [persisted EXCEPT ![i] =
        [CurrentTerm |-> CurrentTerm'[i], VotedFor |-> Nil, Log |-> Log'[i],
         SnapshotIndex |-> LastIncludedIndex'[i], Snapshot |-> SnapshotData'[i]]]
persistNoIndex(i) ==
    persisted' = [persisted EXCEPT ![i] =
        [CurrentTerm |-> CurrentTerm'[i], VotedFor |-> VotedFor'[i], Log |-> Log'[i],
         SnapshotIndex |-> persisted[i].SnapshotIndex, Snapshot |-> SnapshotData'[i]]]

persist(i) ==
    persisted' = [persisted EXCEPT ![i] =
        [CurrentTerm |-> CurrentTerm'[i], VotedFor |-> VotedFor'[i], Log |-> Log'[i],
         SnapshotIndex |-> LastIncludedIndex'[i], Snapshot |-> SnapshotData'[i]]]

becomeFollowerWithTerm(i, term) ==
    /\ state' = [state EXCEPT ![i] = "follower"]
    /\ CurrentTerm' = [CurrentTerm EXCEPT ![i] = term]
    /\ VotedFor' = [VotedFor EXCEPT ![i] = Nil]

\* The reply of an RPC carries a newer term: the caller steps down.
StepDown(i, term) ==
    /\ becomeFollowerWithTerm(i, term)
    /\ UNCHANGED logVars
    /\ persist(i)
    /\ UNCHANGED <<commitIndex, snapshotPending, leaderVars, electVars, applierVars,
                   procVars>>

Init ==
    /\ CurrentTerm = [i \in Server |-> 0]
    /\ VotedFor = [i \in Server |-> Nil]
    /\ Log = [i \in Server |-> <<Dummy>>]
    /\ LastIncludedIndex = [i \in Server |-> 0]
    /\ SnapshotData = [i \in Server |-> <<>>]
    /\ persisted = [i \in Server |-> [CurrentTerm |-> 0, VotedFor |-> Nil,
                       Log |-> <<Dummy>>, SnapshotIndex |-> 0, Snapshot |-> <<>>]]
    /\ state = [i \in Server |-> "follower"]
    /\ commitIndex = [i \in Server |-> 0]
    /\ lastApplied = [i \in Server |-> 0]
    /\ snapshotPending = [i \in Server |-> FALSE]
    /\ nextIndex = [i \in Server |-> [j \in Server |-> 0]]
    /\ matchIndex = [i \in Server |-> [j \in Server |-> 0]]
    /\ votes = [i \in Server |-> {}]
    /\ needElection = [i \in Server |-> FALSE]
    /\ applyPC = [i \in Server |-> "idle"]
    /\ applyMsg = [i \in Server |-> NoMsg]
    /\ svcState = [i \in Server |-> <<>>]
    /\ panicked = [i \in Server |-> FALSE]
    /\ restarts = [i \in Server |-> 0]
    /\ net = {}

-----------------------------------------------------------------------------
(* Elections.                                                              *)

\* ticker and startElection. The ticker looks at the state, releases the lock
\* and calls startElection, which does not look again.  What happens in between
\* matters only if it is this server's victory, so the gap is needElection: a
\* leader whose ticker had found the timeout expired before it won.
startElection(i) ==
    /\ state[i] # "leader" \/ needElection[i]
    /\ CurrentTerm[i] < MaxTerm /\ i \in Electable[CurrentTerm[i] + 1]
    /\ needElection' = [needElection EXCEPT ![i] = FALSE]
    /\ CurrentTerm' = [CurrentTerm EXCEPT ![i] = @ + 1]
    /\ state' = [state EXCEPT ![i] = "candidate"]
    /\ VotedFor' = [VotedFor EXCEPT ![i] = i]
    /\ votes' = [votes EXCEPT ![i] = {i}]
    /\ UNCHANGED logVars
    /\ persist(i)
    /\ \E reached \in SUBSET (Server \ {i}) :
          Transmit({}, {[type |-> "RequestVote", src |-> i, dst |-> j,
                         inc |-> restarts[i], Term |-> CurrentTerm[i] + 1,
                         LastLogIndex |-> lastLogIndex(i),
                         LastLogTerm |-> lastLogTerm(i)] : j \in reached})
    /\ UNCHANGED <<commitIndex, snapshotPending, leaderVars, applierVars, procVars>>

\* May server i, whose VotedFor is now voted, vote for the candidate of m?
\* Mutant: whom it voted for is not looked at.
FreeToVoteAgain(m, i, voted) == m.Term >= CurrentTerm[i]
FreeToVote(m, i, voted) == m.Term >= CurrentTerm[i] /\ voted \in {m.src, Nil}

LogUpToDate(m, i) ==
    \/ m.LastLogTerm > lastLogTerm(i)
    \/ m.LastLogTerm = lastLogTerm(i) /\ m.LastLogIndex >= lastLogIndex(i)

\* The RequestVote handler. A candidate that might be voted for but whose log
\* is behind gets the zero reply: neither field is assigned on that path.
RequestVote(m) ==
    LET i     == m.dst
        newer == m.Term > CurrentTerm[i]
        voted == IF newer THEN Nil ELSE VotedFor[i]
        free  == FreeToVote(m, i, voted)
        grant == free /\ LogUpToDate(m, i)
        term  == Max2(m.Term, CurrentTerm[i])
    IN  /\ m.type = "RequestVote"
        /\ CurrentTerm' = [CurrentTerm EXCEPT ![i] = term]
        /\ VotedFor' = [VotedFor EXCEPT ![i] = IF grant THEN m.src ELSE voted]
        /\ state' = [state EXCEPT ![i] = IF newer \/ grant THEN "follower" ELSE @]
        /\ UNCHANGED logVars
        /\ IF newer \/ grant THEN persist(i) ELSE UNCHANGED persisted
        /\ Transmit({m},
             IF Waiting(m)
             THEN {[type |-> "RequestVoteReply", src |-> i, dst |-> m.src, inc |-> m.inc,
                    Term |-> IF free /\ ~grant THEN 0 ELSE term, VoteGranted |-> grant]}
             ELSE {})
        /\ UNCHANGED <<commitIndex, snapshotPending, leaderVars, electVars, applierVars,
                       procVars>>

\* The goroutine of startElection that gets peer m.src's reply.
RequestVoteReply(m) ==
    LET i == m.dst IN
    /\ m.type = "RequestVoteReply" /\ m.inc = restarts[i]
    /\ Transmit({m}, {})
    /\ \/ m.Term > CurrentTerm[i] /\ StepDown(i, m.Term)
       \/ /\ m.Term <= CurrentTerm[i]
          /\ IF m.VoteGranted /\ state[i] = "candidate" /\ m.Term = CurrentTerm[i]
             THEN /\ votes' = [votes EXCEPT ![i] = @ \cup {m.src}]
                  /\ IF Majority(votes[i] \cup {m.src})
                     THEN /\ state' = [state EXCEPT ![i] = "leader"]
                          /\ needElection' \in {needElection, [needElection EXCEPT ![i] = TRUE]}
                          /\ nextIndex' = [nextIndex EXCEPT ![i] =
                                              [j \in Server |-> lastLogIndex(i) + 1]]
                          /\ matchIndex' = [matchIndex EXCEPT ![i] = [j \in Server |-> 0]]
                     ELSE UNCHANGED <<state, needElection, leaderVars>>
             ELSE UNCHANGED <<electVars, state, leaderVars>>
          /\ UNCHANGED <<persistent, commitIndex, snapshotPending,
                         applierVars, procVars>>

-----------------------------------------------------------------------------
(* Replication.                                                            *)

Start(i, c) ==
    /\ state[i] = "leader" /\ lastLogIndex(i) < MaxIndex[CurrentTerm[i]]
    /\ Log' = [Log EXCEPT ![i] = Append(@, [term |-> CurrentTerm[i], cmd |-> c])]
    /\ UNCHANGED <<CurrentTerm, VotedFor, LastIncludedIndex, SnapshotData>>
    /\ persist(i)
    /\ UNCHANGED <<state, commitIndex, snapshotPending, leaderVars, electVars,
                   applierVars, procVars, net>>

Panic(i) ==
    /\ panicked' = [panicked EXCEPT ![i] = TRUE]
    /\ UNCHANGED <<persistent, state, commitIndex, snapshotPending, leaderVars,
                   electVars, applierVars, restarts>>

newAppendEntriesArgsFor(i, j) ==
    [type |-> "AppendEntries", src |-> i, dst |-> j, inc |-> restarts[i],
     Term |-> CurrentTerm[i], PrevLogIndex |-> nextIndex[i][j] - 1,
     PrevLogTerm |-> TermAt(i, nextIndex[i][j] - 1),
     Entries |-> SubSeq(Log[i], sliceIndex(i, nextIndex[i][j]), Len(Log[i])),
     LeaderCommit |-> commitIndex[i]]

newInstallSnapshotArgs(i, j) ==
    [type |-> "InstallSnapshot", src |-> i, dst |-> j, inc |-> restarts[i],
     Term |-> CurrentTerm[i], LastIncludedIndex |-> LastIncludedIndex[i],
     LastIncludedTerm |-> TermAt(i, LastIncludedIndex[i]), Data |-> SnapshotData[i]]

NeedsSnapshot(i, j) == LastIncludedIndex[i] >= nextIndex[i][j]

\* replicateToFollower up to the RPC, from a heartbeat or a replicationWorker.
\* It panics if the log has no entry just before nextIndex.
replicateToFollower(i, j) ==
    /\ i # j /\ state[i] = "leader"
    /\ IF ~NeedsSnapshot(i, j) /\ nextIndex[i][j] - 1 \notin LastIncludedIndex[i] .. lastLogIndex(i)
       THEN Panic(i) /\ UNCHANGED net
       ELSE /\ Transmit({}, {IF NeedsSnapshot(i, j)
                             THEN newInstallSnapshotArgs(i, j)
                             ELSE newAppendEntriesArgsFor(i, j)})
            /\ UNCHANGED <<persistent, state, commitIndex, snapshotPending, leaderVars,
                           electVars, applierVars, procVars>>


\* The verdict on PrevLogIndex: success, or where the leader should look next.
\* Going back through the entries of the conflicting term stops at the dummy.
CheckPrev(m, i) ==
    LET prev == m.PrevLogIndex
        lii  == LastIncludedIndex[i]
    IN  IF prev < lii
        THEN [ok |-> FALSE, term |-> -1, index |-> lii + 1]
        ELSE IF prev > lastLogIndex(i)
        THEN [ok |-> FALSE, term |-> -1, index |-> lastLogIndex(i) + 1]
        ELSE IF TermAt(i, prev) # m.PrevLogTerm
        THEN [ok |-> FALSE, term |-> TermAt(i, prev),
              index |-> 1 + MaxOf({k \in lii .. prev :
                                     k = lii \/ TermAt(i, k) # TermAt(i, prev)})]
        ELSE [ok |-> TRUE, term |-> 0, index |-> 0]

\* Mutant: what follows PrevLogIndex is replaced even where it matches.
Overwritten(m, i) == SubSeq(Log[i], 1, sliceIndex(i, m.PrevLogIndex)) \o m.Entries

\* The log after a successful check: entries are skipped while they match,
\* then everything from the first mismatch on is replaced.
Appended(m, i) ==
    LET Differs(n) == \/ m.PrevLogIndex + n > lastLogIndex(i)
                      \/ m.Entries[n].term # TermAt(i, m.PrevLogIndex + n)
        D == {n \in 1 .. Len(m.Entries) : Differs(n)}
    IN  IF D = {} THEN Log[i]
        ELSE SubSeq(Log[i], 1, sliceIndex(i, m.PrevLogIndex + MinOf(D)) - 1)
             \o SubSeq(m.Entries, MinOf(D), Len(m.Entries))

AppendReply(m, term, ok, conflictTerm, conflictIndex) ==
    IF ~Waiting(m) THEN {}
    ELSE {[type |-> "AppendEntriesReply", src |-> m.dst, dst |-> m.src, inc |-> m.inc,
           argsTerm |-> m.Term, PrevLogIndex |-> m.PrevLogIndex,
           nEntries |-> Len(m.Entries), Term |-> term, Success |-> ok,
           ConflictTerm |-> conflictTerm, ConflictIndex |-> conflictIndex]}

\* The AppendEntries handler.
AppendEntries(m) ==
    LET i     == m.dst
        newer == m.Term > CurrentTerm[i]
        check == CheckPrev(m, i)
        log   == IF check.ok THEN Appended(m, i) ELSE Log[i]
        last  == Len(log) - 1 + LastIncludedIndex[i]
    IN  /\ m.type = "AppendEntries"
        /\ \/ /\ m.Term < CurrentTerm[i]
              /\ Receive(m, AppendReply(m, CurrentTerm[i], FALSE, 0, 0))
              /\ UNCHANGED <<persistent, state, commitIndex>>
           \/ /\ m.Term >= CurrentTerm[i]
              /\ CurrentTerm' = [CurrentTerm EXCEPT ![i] = m.Term]
              /\ VotedFor' = [VotedFor EXCEPT ![i] = IF newer THEN Nil ELSE @]
              /\ state' = [state EXCEPT ![i] =
                             IF newer \/ @ = "candidate" THEN "follower" ELSE @]
              /\ Receive(m, AppendReply(m, m.Term, check.ok, check.term, check.index))
              /\ Log' = [Log EXCEPT ![i] = log]
              /\ commitIndex' = [commitIndex EXCEPT ![i] =
                                   IF check.ok /\ m.LeaderCommit > @
                                   THEN Min2(m.LeaderCommit, last) ELSE @]
              /\ UNCHANGED <<LastIncludedIndex, SnapshotData>>
              /\ IF newer \/ log # Log[i] THEN persist(i) ELSE UNCHANGED persisted
        /\ UNCHANGED <<snapshotPending, leaderVars, electVars, applierVars, procVars>>

\* advanceCommitIndex with match as matchIndex[i]: from the last index down,
\* never past an entry of another term, the first that a majority holds.
advanceCommitIndex(i, match) ==
    LET Replicated(N) == Majority({i} \cup {j \in Server : match[j] >= N})
        C == {N \in commitIndex[i] + 1 .. lastLogIndex(i) :
                /\ \A M \in N .. lastLogIndex(i) : TermAt(i, M) = CurrentTerm[i]
                /\ Replicated(N)}
    IN  commitIndex' = [commitIndex EXCEPT ![i] = IF C = {} THEN @ ELSE MaxOf(C)]

\* The reply is older than what the leader has learnt since.
\* Mutant: that is not looked at.
NotAcknowledged(i, j, n) == FALSE
Acknowledged(i, j, n) == matchIndex[i][j] >= n

\* Server i learns that follower j holds its log up to index n.
\* Mutant: the log as it is when the reply arrives, not as it was sent.
MatchedAll(i, j, n) ==
    /\ nextIndex' = [nextIndex EXCEPT ![i][j] = lastLogIndex(i) + 1]
    /\ matchIndex' = [matchIndex EXCEPT ![i][j] = lastLogIndex(i)]
    /\ advanceCommitIndex(i, [matchIndex[i] EXCEPT ![j] = lastLogIndex(i)])
Matched(i, j, n) ==
    /\ nextIndex' = [nextIndex EXCEPT ![i][j] = n + 1]
    /\ matchIndex' = [matchIndex EXCEPT ![i][j] = n]
    /\ advanceCommitIndex(i, [matchIndex[i] EXCEPT ![j] = n])

\* Where to resume after a failed check: just after the last entry of the
\* conflicting term, if the log has one at or after the follower's first.
\* It never moves back behind what the follower is known to hold.
ConflictNext(m, i) ==
    LET J == {j \in Max2(LastIncludedIndex[i], m.ConflictIndex) .. m.PrevLogIndex :
                TermAt(i, j) = m.ConflictTerm}
    IN  Max2(IF m.ConflictTerm = -1 \/ J = {} THEN m.ConflictIndex ELSE MaxOf(J) + 1,
             matchIndex[i][m.src] + 1)

\* That search starts at PrevLogIndex, wherever the log now ends.
SearchPanics(m, i) ==
    /\ m.ConflictTerm # -1
    /\ m.PrevLogIndex >= Max2(LastIncludedIndex[i], m.ConflictIndex)
    /\ m.PrevLogIndex > lastLogIndex(i)

\* replicateToFollower from the AppendEntries reply on. Neither the state nor
\* the term of the server is compared with those it had when it sent.
AppendEntriesReply(m) ==
    LET i == m.dst
        j == m.src
        n == m.PrevLogIndex + m.nEntries
    IN  /\ m.type = "AppendEntriesReply" /\ m.inc = restarts[i]
        /\ LateReplies \/ m.argsTerm = CurrentTerm[i]
        /\ Receive(m, {})
        /\ \/ m.Term > CurrentTerm[i] /\ StepDown(i, m.Term)
           \/ /\ m.Term <= CurrentTerm[i] /\ m.Success
              /\ IF Acknowledged(i, j, n) THEN UNCHANGED <<leaderVars, commitIndex>>
                                         ELSE Matched(i, j, n)
              /\ UNCHANGED <<persistent, state, snapshotPending, electVars, applierVars,
                             procVars>>
           \/ /\ m.Term <= CurrentTerm[i] /\ ~m.Success
              /\ m.PrevLogIndex > matchIndex[i][j] /\ SearchPanics(m, i)
              /\ Panic(i)
           \/ /\ m.Term <= CurrentTerm[i] /\ ~m.Success
              /\ m.PrevLogIndex <= matchIndex[i][j] \/ ~SearchPanics(m, i)
              /\ nextIndex' = [nextIndex EXCEPT ![i][j] =
                                 IF m.PrevLogIndex <= matchIndex[i][j] THEN @
                                 ELSE ConflictNext(m, i)]
              /\ UNCHANGED <<persistent, state, commitIndex, snapshotPending, matchIndex,
                             electVars, applierVars, procVars>>

-----------------------------------------------------------------------------
(* Snapshots.                                                              *)

\* rsm.readApply, between two messages: the service hands Raft a snapshot of
\* its state. Raft ignores one that is not ahead of the one it has. A log that
\* does not reach index cannot be trimmed there: the slice, or the next use of
\* the dummy entry it should have left, panics.
Snapshot(i) ==
    LET index == Len(svcState[i]) IN
    /\ index <= MaxSnapshot
    /\ index > LastIncludedIndex[i]
    /\ UNCHANGED net
    /\ IF index > lastLogIndex(i) THEN Panic(i)
       ELSE /\ Log' = [Log EXCEPT ![i] = SubSeq(@, sliceIndex(i, index), Len(@))]
            /\ LastIncludedIndex' = [LastIncludedIndex EXCEPT ![i] = index]
            /\ SnapshotData' = [SnapshotData EXCEPT ![i] = svcState[i]]
            /\ UNCHANGED <<CurrentTerm, VotedFor>>
            /\ persist(i)
            /\ UNCHANGED <<state, commitIndex, snapshotPending, leaderVars, electVars,
                           applierVars, procVars>>

\* The log that remains once the snapshot of m is installed at i.
\* Mutant: nothing stands for LastIncludedIndex.
LogAfterNoDummy(m, i) ==
    IF /\ lastLogIndex(i) >= m.LastIncludedIndex
       /\ TermAt(i, m.LastIncludedIndex) = m.LastIncludedTerm
    THEN SubSeq(Log[i], sliceIndex(i, m.LastIncludedIndex), Len(Log[i]))
    ELSE <<>>
LogAfter(m, i) ==
    IF /\ lastLogIndex(i) >= m.LastIncludedIndex
       /\ TermAt(i, m.LastIncludedIndex) = m.LastIncludedTerm
    THEN SubSeq(Log[i], sliceIndex(i, m.LastIncludedIndex), Len(Log[i]))
    ELSE <<[term |-> m.LastIncludedTerm, cmd |-> Nil]>>

\* The service has yet to apply what the snapshot of m holds.
\* Mutant: every snapshot accepted is handed to the service.
AlwaysBehind(m, i) == TRUE
ServiceBehind(m, i) == lastApplied[i] < m.LastIncludedIndex

\* The InstallSnapshot handler.
InstallSnapshot(m) ==
    LET i     == m.dst
        newer == m.Term > CurrentTerm[i]
        ahead == m.Term >= CurrentTerm[i] /\ LastIncludedIndex[i] < m.LastIncludedIndex
        apply == ahead /\ ServiceBehind(m, i)
        reply == [type |-> "InstallSnapshotReply", src |-> i, dst |-> m.src,
                  inc |-> m.inc, argsTerm |-> m.Term,
                  LastIncludedIndex |-> m.LastIncludedIndex,
                  Term |-> Max2(m.Term, CurrentTerm[i])]
    IN  /\ m.type = "InstallSnapshot"
        /\ Receive(m, IF Waiting(m) THEN {reply} ELSE {})
        /\ IF newer THEN becomeFollowerWithTerm(i, m.Term) ELSE UNCHANGED termVars
        /\ IF ahead
           THEN /\ Log' = [Log EXCEPT ![i] = LogAfter(m, i)]
                /\ LastIncludedIndex' = [LastIncludedIndex EXCEPT ![i] = m.LastIncludedIndex]
                /\ SnapshotData' = [SnapshotData EXCEPT ![i] = m.Data]
           ELSE UNCHANGED logVars
        /\ commitIndex' = [commitIndex EXCEPT ![i] =
                             IF apply THEN Max2(m.LastIncludedIndex, @) ELSE @]
        /\ snapshotPending' = [snapshotPending EXCEPT ![i] = @ \/ apply]
        /\ IF newer \/ ahead THEN persist(i) ELSE UNCHANGED persisted
        /\ UNCHANGED <<leaderVars, electVars, applierVars, procVars>>

\* replicateToFollower from the InstallSnapshot reply on.
InstallSnapshotReply(m) ==
    LET i == m.dst IN
    /\ m.type = "InstallSnapshotReply" /\ m.inc = restarts[i]
    /\ LateReplies \/ m.argsTerm = CurrentTerm[i]
    /\ Receive(m, {})
    /\ \/ m.Term > CurrentTerm[i] /\ StepDown(i, m.Term)
       \/ /\ m.Term <= CurrentTerm[i]
          /\ IF Acknowledged(i, m.src, m.LastIncludedIndex)
             THEN UNCHANGED <<leaderVars, commitIndex>>
             ELSE Matched(i, m.src, m.LastIncludedIndex)
          /\ UNCHANGED <<persistent, state, snapshotPending, electVars, applierVars,
                         procVars>>

-----------------------------------------------------------------------------
(* The applier and the service loop behind applyCh.                        *)

\* The applier builds its next message under the lock; a pending snapshot
\* goes before committed entries.
ApplierTake(i) ==
    LET k == lastApplied[i] + 1 IN
    /\ applyPC[i] = "idle"
    /\ UNCHANGED <<persistent, state, commitIndex, leaderVars, electVars, lastApplied,
                   svcState, restarts, net>>
    /\ \/ /\ snapshotPending[i]
          /\ applyMsg' = [applyMsg EXCEPT ![i] =
               [snapshot |-> TRUE, index |-> LastIncludedIndex[i], data |-> SnapshotData[i]]]
          /\ snapshotPending' = [snapshotPending EXCEPT ![i] = FALSE]
          /\ applyPC' = [applyPC EXCEPT ![i] = "send"]
          /\ UNCHANGED panicked
       \/ /\ ~snapshotPending[i] /\ lastApplied[i] < commitIndex[i] /\ k <= MaxApply
          /\ IF sliceIndex(i, k) \in DOMAIN Log[i]
             THEN /\ applyMsg' = [applyMsg EXCEPT ![i] =
                       [snapshot |-> FALSE, index |-> k, data |-> <<Log[i][sliceIndex(i, k)]>>]]
                  /\ applyPC' = [applyPC EXCEPT ![i] = "send"]
                  /\ UNCHANGED panicked
             ELSE /\ panicked' = [panicked EXCEPT ![i] = TRUE]
                  /\ UNCHANGED <<applyMsg, applyPC>>
          /\ UNCHANGED snapshotPending

\* rsm.readApply receives the message: Restore of a snapshot, DoOp of a command.
ServiceReceive(i) ==
    /\ applyPC[i] = "send"
    /\ applyPC' = [applyPC EXCEPT ![i] = "sent"]
    /\ svcState' = [svcState EXCEPT ![i] = IF applyMsg[i].snapshot THEN applyMsg[i].data
                                           ELSE @ \o applyMsg[i].data]
    /\ UNCHANGED <<persistent, state, commitIndex, snapshotPending, leaderVars, electVars,
                   lastApplied, applyMsg, procVars, net>>

ApplierDone(i) ==
    /\ applyPC[i] = "sent"
    /\ lastApplied' = [lastApplied EXCEPT ![i] = IF applyMsg[i].snapshot
                                                 THEN applyMsg[i].index ELSE @ + 1]
    /\ applyPC' = [applyPC EXCEPT ![i] = "idle"]
    /\ applyMsg' = [applyMsg EXCEPT ![i] = NoMsg]
    /\ UNCHANGED <<persistent, state, commitIndex, snapshotPending, leaderVars, electVars,
                   svcState, procVars, net>>

\* The process is killed (or found dead) and made again: Make, readPersist,
\* and MakeRSM's Restore of the stored snapshot.  Its client ends are new, so
\* no reply to a call of the old incarnation reaches it.
Restart(i) ==
    LET p == persisted[i] IN
    /\ restarts[i] < MaxRestarts
    /\ CurrentTerm' = [CurrentTerm EXCEPT ![i] = p.CurrentTerm]
    /\ VotedFor' = [VotedFor EXCEPT ![i] = p.VotedFor]
    /\ Log' = [Log EXCEPT ![i] = p.Log]
    /\ LastIncludedIndex' = [LastIncludedIndex EXCEPT ![i] = p.SnapshotIndex]
    /\ SnapshotData' = [SnapshotData EXCEPT ![i] = p.Snapshot]
    /\ commitIndex' = [commitIndex EXCEPT ![i] = p.SnapshotIndex]
    /\ lastApplied' = [lastApplied EXCEPT ![i] = p.SnapshotIndex]
    /\ svcState' = [svcState EXCEPT ![i] = p.Snapshot]
    /\ state' = [state EXCEPT ![i] = "follower"]
    /\ snapshotPending' = [snapshotPending EXCEPT ![i] = FALSE]
    /\ nextIndex' = [nextIndex EXCEPT ![i] = [j \in Server |-> 0]]
    /\ matchIndex' = [matchIndex EXCEPT ![i] = [j \in Server |-> 0]]
    /\ votes' = [votes EXCEPT ![i] = {}]
    /\ needElection' = [needElection EXCEPT ![i] = FALSE]
    /\ applyPC' = [applyPC EXCEPT ![i] = "idle"]
    /\ applyMsg' = [applyMsg EXCEPT ![i] = NoMsg]
    /\ panicked' = [panicked EXCEPT ![i] = FALSE]
    /\ restarts' = [restarts EXCEPT ![i] = @ + 1]
    /\ UNCHANGED <<persisted, net>>

Step(i) ==
    /\ ~panicked[i]
    /\ \/ startElection(i)
       \/ \E c \in Command : Start(i, c)
       \/ \E j \in Server : replicateToFollower(i, j)
       \/ Snapshot(i)
       \/ ApplierTake(i)
       \/ ServiceReceive(i)
       \/ ApplierDone(i)

Handle(m) ==
    /\ ~panicked[m.dst]
    /\ \/ RequestVote(m)
       \/ RequestVoteReply(m)
       \/ AppendEntries(m)
       \/ AppendEntriesReply(m)
       \/ InstallSnapshot(m)
       \/ InstallSnapshotReply(m)

Next ==
    \/ \E i \in Server : Step(i)
    \/ \E m \in net : Handle(m)
    \/ \E m \in net : Lose(m)
    \/ \E i \in Server : Restart(i)

Spec == Init /\ [][Next]_vars

-----------------------------------------------------------------------------
(* Properties.                                                             *)

\* The fields of the Raft struct, the Persister and the RPC arguments hold values
\* of their types, and every log has the dummy entry that stands for
\* LastIncludedIndex, as the comments on Log and lastLogTerm rely on.
TypeOK ==
    /\ CurrentTerm \in [Server -> Nat]
    /\ VotedFor \in [Server -> Server \cup {Nil}]
    /\ Log \in [Server -> Seq(Entry)]
    /\ LastIncludedIndex \in [Server -> Nat]
    /\ SnapshotData \in [Server -> Seq(Entry)]
    /\ persisted \in [Server -> Persisted]
    /\ state \in [Server -> {"follower", "candidate", "leader"}]
    /\ commitIndex \in [Server -> Nat]
    /\ lastApplied \in [Server -> Nat]
    /\ snapshotPending \in [Server -> BOOLEAN]
    /\ nextIndex \in [Server -> [Server -> Nat]]
    /\ matchIndex \in [Server -> [Server -> Nat]]
    /\ votes \in [Server -> SUBSET Server]
    /\ needElection \in [Server -> BOOLEAN]
    /\ applyPC \in [Server -> {"idle", "send", "sent"}]
    /\ applyMsg \in [Server -> ApplyMsg]
    /\ svcState \in [Server -> Seq(Entry)]
    /\ panicked \in [Server -> BOOLEAN]
    /\ restarts \in [Server -> Nat]
    /\ net \subseteq Message
    /\ \A i \in Server : Len(Log[i]) > 0 /\ Len(persisted[i].Log) > 0

\* The log of i from index 1 on, with the entries its snapshot stands for.
FullLog(i) == SnapshotData[i] \o Tail(Log[i])
Prefix(s, t) == Len(s) <= Len(t) /\ \A k \in 1 .. Len(s) : s[k] = t[k]
Upto(s, n) == SubSeq(s, 1, n)

\* Between critical sections the Persister holds exactly the persistent fields in
\* memory, so a crash at any time loses nothing a reply has promised: no handler
\* changes one of them without persist before it releases the lock.
Durable ==
    \A i \in Server :
        persisted[i] = [CurrentTerm |-> CurrentTerm[i], VotedFor |-> VotedFor[i],
                        Log |-> Log[i], SnapshotIndex |-> LastIncludedIndex[i],
                        Snapshot |-> SnapshotData[i]]

\* No two servers lead in one term, over any interleaving of elections, late or
\* lost votes and restarts between a vote and the next request (RequestVote,
\* startElection, persist, readPersist).
ElectionSafety ==
    \A i, j \in Server :
        state[i] = "leader" /\ state[j] = "leader" /\ CurrentTerm[i] = CurrentTerm[j]
        => i = j

\* A server's term never goes back and its vote never changes within a term, not
\* even when it restarts: both are on disk before the reply leaves.
VoteOnce ==
    [][\A i \in Server :
           /\ CurrentTerm'[i] >= CurrentTerm[i]
           /\ CurrentTerm'[i] = CurrentTerm[i] /\ VotedFor[i] # Nil
              => VotedFor'[i] = VotedFor[i]]_vars



\* What a server has committed stays in its log: neither a late AppendEntries,
\* nor an InstallSnapshot, nor its own snapshot or restart takes it away.
CommittedKept ==
    [][\A i \in Server : Prefix(Upto(FullLog(i), commitIndex[i]), FullLog(i)')]_vars

\* A follower in the leader's term holds the leader's log up to matchIndex, as
\* advanceCommitIndex takes for granted.
MatchIndexSound ==
    \A i, j \in Server :
        state[i] = "leader" /\ i # j /\ CurrentTerm[j] = CurrentTerm[i]
        => /\ matchIndex[i][j] <= lastLogIndex(i)
           /\ Prefix(Upto(FullLog(i), matchIndex[i][j]), FullLog(j))

\* During one term a leader never forgets what a follower has acknowledged and never
\* goes back to sending it, whatever the order of the replies (the guards on
\* stale replies in replicateToFollower).
MatchForward ==
    [][\A i, j \in Server :
           state[i] = "leader" /\ state'[i] = "leader" /\ CurrentTerm'[i] = CurrentTerm[i]
           => /\ matchIndex'[i][j] >= matchIndex[i][j]
              /\ nextIndex'[i][j] > matchIndex'[i][j]]_vars


\* While its server runs, a service is never taken back to an earlier state, though
\* snapshots arrive while the applier is between applyCh and lastApplied.
ApplyForward ==
    [][\A i \in Server : restarts'[i] = restarts[i]
           => Prefix(svcState[i], svcState'[i])]_vars


\* Snapshot, commit and log indices of a server keep their order, and the snapshot
\* it holds is the one LastIncludedIndex names.
IndexOrder ==
    \A i \in Server :
        /\ Len(SnapshotData[i]) = LastIncludedIndex[i]
        /\ LastIncludedIndex[i] <= commitIndex[i]
        /\ lastApplied[i] <= commitIndex[i]
        /\ commitIndex[i] <= lastLogIndex(i)

=============================================================================
