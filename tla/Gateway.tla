------------------------------ MODULE Gateway ------------------------------
(***************************************************************************)
(* The NDN/sensor-network gateway threads of src/csrc/ndnd/ndnd_main.c and *)
(* src/csrc/ndnd/ndw.h:                                                    *)
(*   - main: gateway_init after the three pthread_create calls, then the   *)
(*     ndnd thread, which calls request_from_backbone for interests;       *)
(*   - the listener (usbportListen): DATA, TOPOLOGY and MAPPING frames;    *)
(*   - the topology thread (topo_management): the queue[] ring + the tree; *)
(*   - the worker (worker_thread): collects sensor readings for "ints";    *)
(*   - the SIGALRM handler refresh_node_mapping_table.                     *)
(* Frame reassembly from the UDP stream and the text formatting of names  *)
(* and contents are abstracted: a frame is one well-formed message, a     *)
(* reading is a record, an interest a model value.  Every shared variable *)
(* is accessed without a lock, so every access that another thread can    *)
(* observe in between is its own step.                                     *)
(***************************************************************************)
EXTENDS Integers, Sequences, SequencesExt

CONSTANTS
    QSize,       \* PTR_MAX (128): slots of queue[]; it holds QSize-1 messages
    TopoMsgs,    \* routes of well-formed TOPOLOGY frames
    NodeIds,     \* the ids those routes use
    MapIds,      \* node ids of MAPPING frames, some below and some above 10
    Readings,    \* [loc, val] records the DATA frames carry
    Interests,   \* "ints/..." interest names the backbone sends
    MaxFrames,   \* bound on TOPOLOGY + DATA + MAPPING frames received
    MaxAsks,     \* bound on interests from the backbone
    MaxTicks,    \* bound on SIGALRM ticks
    EarlyPeer    \* may the peer's frames arrive before gateway_init returns?

ASSUME QSize \in Nat \ {0, 1} /\ TopoMsgs \subseteq Seq(NodeIds)
ASSUME EarlyPeer \in BOOLEAN

NULL   == [id |-> 0, path |-> <<>>]       \* an empty queue[] slot
Frames == [id : 1..MaxFrames, path : TopoMsgs]
NoReading == [loc |-> -1, val |-> -1]     \* recv_data before any copy
RefreshLimit == 10                        \* the `i < 10' of the refresh loop
Expire == 5                               \* expire set by a MAPPING frame

VARIABLES
    mainPc,      \* how far gateway_init has got: "table", "queue", "run"
    alive,       \* FALSE once a thread dereferenced NULL
    queue, top, bottom, semQueue,  \* the topology ring and sem_queue
    tpc, cur,    \* topology thread: "wait"/"took", the message it took
    topo,        \* the tree (TopoTree's record)
    recvData, dataFlag,            \* recv_data and data_flag
    lpc, lmsg,   \* listener: "idle", "copying" lmsg into recv_data, or
                 \* "packing" it (pack_data_content) before data_flag = 1
    table,       \* nodeID_mapping_table[id].expire
    hpc, hleft, hval,  \* SIGALRM handler: "idle"/"load"/"store", the ids
                       \* i < 10 still to visit, the expire it loaded
    scopeName, semInterest,        \* scope_name and sem_interest
    wpc, wname, wcontent,          \* worker: "wait"/"poll"/"read", name, content
    frames, ticks,                 \* environment counters (bounds)
    enq, deq,    \* history: frame ids queued, and taken by the topology thread
    sent,        \* history: readings the listener received
    asked, answers, \* history: "ints" interests and the worker's answers
    age          \* history: refresh periods since each id's last MAPPING frame

\* Variables grouped by the thread that writes them, for UNCHANGED.
ringVars   == <<queue, top, bottom, semQueue, enq>>
topoVars   == <<tpc, cur, topo, deq>>
dataVars   == <<recvData, dataFlag, lpc, lmsg, sent>>
mapVars    == <<table, hpc, hleft, hval, age>>
askVars    == <<scopeName, semInterest, asked>>
workerVars == <<wpc, wname, wcontent, answers>>
vars == <<mainPc, alive, frames, ticks, ringVars, topoVars, dataVars,
          mapVars, askVars, workerVars>>

TT == INSTANCE TopoTree WITH Paths <- TopoMsgs, tree <- topo, routes <- {}

\* The peer's handshake and frames: after gateway_init, or any time.
PeerActive == EarlyPeer \/ mainPc = "run"

(***************************************************************************)
(* State right after the three pthread_create calls of gateway_init: the   *)
(* globals are zero (top, bottom, queue[], the check array), topo_head is  *)
(* calloc'd, recv_data is malloc'd but unwritten, and the table and the    *)
(* timer are not set up yet.                                               *)
(***************************************************************************)
Init ==
    /\ mainPc = "table"
    /\ alive = TRUE
    /\ queue = [i \in 0..(QSize - 1) |-> NULL]
    /\ top = 0 /\ bottom = 0 /\ semQueue = 0
    /\ tpc = "wait" /\ cur = NULL
    /\ topo = TT!EmptyTree
    /\ recvData = NoReading /\ dataFlag = 0
    /\ lpc = "idle" /\ lmsg = NoReading
    /\ table = [id \in MapIds |-> 0]
    /\ hpc = "idle" /\ hleft = {} /\ hval = 0
    /\ scopeName = "none" /\ semInterest = 0
    /\ wpc = "wait" /\ wname = "none" /\ wcontent = <<>>
    /\ frames = 0 /\ ticks = 0
    /\ enq = <<>> /\ deq = <<>> /\ sent = {}
    /\ asked = <<>> /\ answers = <<>>
    /\ age = [id \in MapIds |-> -1]

-----------------------------------------------------------------------------
(* main: the rest of gateway_init, then ndnd_run.                          *)

\* Mutant of InitTable: the memset alone, the loop setting -1 forgotten.
InitTableZero ==
    /\ mainPc = "table"
    /\ mainPc' = "queue"
    /\ table' = [id \in MapIds |-> 0]
    /\ topo' = [topo EXCEPT !.check = [n \in NodeIds |-> 0]]
    /\ UNCHANGED <<alive, frames, ticks, ringVars, tpc, cur, deq, dataVars,
                   hpc, hleft, hval, age, askVars, workerVars>>

\* Mapping table entries to -1, the check array cleared, scope_name
\* malloc'd, the 50 s interval timer armed and SIGALRM hooked.
InitTable ==
    /\ mainPc = "table"
    /\ mainPc' = "queue"
    /\ table' = [id \in MapIds |-> -1]
    /\ topo' = [topo EXCEPT !.check = [n \in NodeIds |-> 0]]
    /\ UNCHANGED <<alive, frames, ticks, ringVars, tpc, cur, deq, dataVars,
                   hpc, hleft, hval, age, askVars, workerVars>>

\* `top = 0; bottom = 0;' as the last step of gateway_init.
ResetQueue ==
    /\ mainPc = "queue"
    /\ mainPc' = "run"
    /\ top' = 0
    /\ bottom' = 0
    /\ UNCHANGED <<alive, frames, ticks, queue, semQueue, enq, topoVars,
                   dataVars, mapVars, askVars, workerVars>>

\* Mutant of AskInts: the worker is not woken (sem_post forgotten).
AskIntsNoPost(a) ==
    /\ alive /\ mainPc = "run"
    /\ Len(asked) < MaxAsks
    /\ scopeName' = a
    /\ asked' = Append(asked, a)
    /\ UNCHANGED <<mainPc, alive, frames, ticks, semInterest, ringVars,
                   topoVars, dataVars, mapVars, workerVars>>

\* request_from_backbone("ints/..."): the interest is forwarded to the
\* sensor network, scope_name is overwritten with its name and the
\* worker is woken.
AskInts(a) ==
    /\ alive /\ mainPc = "run"
    /\ Len(asked) < MaxAsks
    /\ scopeName' = a
    /\ semInterest' = semInterest + 1
    /\ asked' = Append(asked, a)
    /\ UNCHANGED <<mainPc, alive, frames, ticks, ringVars, topoVars, dataVars,
                   mapVars, workerVars>>

\* request_from_backbone("location"): the nodes the answer lists, one line
\* "id x,y expire" for each entry with expire >= 0.  It only reads the
\* table, so it is an operator, not an action.
Located == {id \in MapIds : table[id] >= 0}

-----------------------------------------------------------------------------
(* The listener: one frame per step, except that the memcpy of a DATA     *)
(* frame into the shared recv_data is not atomic for the worker.           *)

ListenerReady ==
    /\ alive /\ PeerActive
    /\ lpc = "idle"
    /\ frames < MaxFrames

\* The message a TOPOLOGY frame is copied into.
Msg(p) == [id |-> frames + 1, path |-> p]

\* Mutants of RecvTopo: the full test left out, and sem_post forgotten.
RecvTopoNoFullCheck(p) ==
    /\ ListenerReady
    /\ frames' = frames + 1
    /\ queue' = [queue EXCEPT ![top] = Msg(p)]
    /\ top' = (top + 1) % QSize
    /\ semQueue' = semQueue + 1
    /\ enq' = Append(enq, frames + 1)
    /\ UNCHANGED <<mainPc, alive, ticks, bottom, topoVars, dataVars, mapVars,
                   askVars, workerVars>>

RecvTopoNoPost(p) ==
    /\ ListenerReady
    /\ frames' = frames + 1
    /\ IF top # (bottom - 1 + QSize) % QSize
       THEN /\ queue' = [queue EXCEPT ![top] = Msg(p)]
            /\ top' = (top + 1) % QSize
            /\ enq' = Append(enq, frames + 1)
       ELSE UNCHANGED <<queue, top, enq>>
    /\ UNCHANGED <<mainPc, alive, ticks, bottom, semQueue, topoVars, dataVars,
                   mapVars, askVars, workerVars>>

\* A TOPOLOGY frame that passed the num/data range checks: queue it unless
\* `top == (bottom-1+PTR_MAX) % PTR_MAX' (full; the frame is then leaked).
RecvTopo(p) ==
    /\ ListenerReady
    /\ frames' = frames + 1
    /\ IF top # (bottom - 1 + QSize) % QSize
       THEN /\ queue' = [queue EXCEPT ![top] = Msg(p)]
            /\ top' = (top + 1) % QSize
            /\ semQueue' = semQueue + 1
            /\ enq' = Append(enq, frames + 1)
       ELSE UNCHANGED ringVars
    /\ UNCHANGED <<mainPc, alive, ticks, bottom, topoVars, dataVars, mapVars,
                   askVars, workerVars>>

\* A DATA frame: memcpy into recv_data has written the location ...
RecvDataStart(r) ==
    /\ ListenerReady
    /\ frames' = frames + 1
    /\ recvData' = [recvData EXCEPT !.loc = r.loc]
    /\ lpc' = "copying"
    /\ lmsg' = r
    /\ sent' = sent \cup {r}
    /\ UNCHANGED <<mainPc, alive, ticks, dataFlag, ringVars, topoVars, mapVars,
                   askVars, workerVars>>

\* ... then the value.  The worker may already read the whole frame here.
RecvDataEnd ==
    /\ alive
    /\ lpc = "copying"
    /\ recvData' = [recvData EXCEPT !.val = lmsg.val]
    /\ lpc' = "packing"
    /\ UNCHANGED <<mainPc, alive, frames, ticks, dataFlag, lmsg, sent,
                   ringVars, topoVars, mapVars, askVars, workerVars>>

\* The name and content are formatted and pack_data_content publishes
\* them to the backbone; only then `data_flag = 1'.
RecvDataFlag ==
    /\ alive
    /\ lpc = "packing"
    /\ dataFlag' = 1
    /\ lpc' = "idle"
    /\ UNCHANGED <<mainPc, alive, frames, ticks, recvData, lmsg, sent,
                   ringVars, topoVars, mapVars, askVars, workerVars>>

\* A MAPPING frame for a node id in 1..255: its entry is refreshed.
RecvMapping(id) ==
    /\ ListenerReady
    /\ frames' = frames + 1
    /\ table' = [table EXCEPT ![id] = Expire]
    /\ age' = [age EXCEPT ![id] = 0]
    /\ UNCHANGED <<mainPc, alive, ticks, hpc, hleft, hval, ringVars, topoVars,
                   dataVars, askVars, workerVars>>

-----------------------------------------------------------------------------
(* The topology thread.                                                    *)

\* sem_wait(&sem_queue); topo = queue[bottom++];
TopoTake ==
    /\ alive
    /\ tpc = "wait"
    /\ semQueue > 0
    /\ semQueue' = semQueue - 1
    /\ cur' = queue[bottom]
    /\ bottom' = bottom + 1
    /\ deq' = Append(deq, queue[bottom].id)
    /\ tpc' = "took"
    /\ UNCHANGED <<mainPc, alive, frames, ticks, queue, top, enq, topo,
                   dataVars, mapVars, askVars, workerVars>>

\* The wrap of bottom, then topo->num: a NULL slot crashes the gateway;
\* otherwise the route is built into the tree (TopoTree!TopoStep) and the
\* message freed (its queue[] slot keeps the dangling pointer).
TopoProcess ==
    /\ alive
    /\ tpc = "took"
    /\ bottom' = IF bottom >= QSize THEN bottom % QSize ELSE bottom
    /\ IF cur = NULL
       THEN alive' = FALSE /\ UNCHANGED topo
       ELSE topo' = TT!TopoStep(topo, cur.path) /\ UNCHANGED alive
    /\ tpc' = "wait"
    /\ UNCHANGED <<mainPc, frames, ticks, queue, top, semQueue, enq, cur, deq,
                   dataVars, mapVars, askVars, workerVars>>

-----------------------------------------------------------------------------
(* The worker: a 30 s collection window per "ints" interest.              *)

\* sem_wait(&sem_interest); data_flag = 0; strcpy(name, scope_name);
WorkerWake ==
    /\ alive
    /\ wpc = "wait"
    /\ semInterest > 0
    /\ semInterest' = semInterest - 1
    /\ dataFlag' = 0
    /\ wname' = scopeName
    /\ wcontent' = <<>>
    /\ wpc' = "poll"
    /\ UNCHANGED <<mainPc, alive, frames, ticks, recvData, lpc, lmsg, sent,
                   scopeName, asked, answers, ringVars, topoVars, mapVars>>

\* data_flag == 1: sprintf the location and value of recv_data, strcat.
WorkerRead ==
    /\ alive
    /\ wpc = "poll"
    /\ dataFlag = 1
    /\ wcontent' = Append(wcontent, recvData)
    /\ wpc' = "read"
    /\ UNCHANGED <<mainPc, alive, frames, ticks, wname, answers, ringVars,
                   topoVars, dataVars, mapVars, askVars>>

\* data_flag = 0;
WorkerClear ==
    /\ alive
    /\ wpc = "read"
    /\ dataFlag' = 0
    /\ wpc' = "poll"
    /\ UNCHANGED <<mainPc, alive, frames, ticks, recvData, lpc, lmsg, sent,
                   wname, wcontent, answers, ringVars, topoVars,
                   mapVars, askVars>>

\* The 30 s are up: pack_data_content(name, content), content cleared.
WorkerAnswer ==
    /\ alive
    /\ wpc = "poll"
    /\ answers' = Append(answers, [name |-> wname, content |-> wcontent])
    /\ wcontent' = <<>>
    /\ wpc' = "wait"
    /\ UNCHANGED <<mainPc, alive, frames, ticks, wname, ringVars, topoVars,
                   dataVars, mapVars, askVars>>

-----------------------------------------------------------------------------
(* SIGALRM every 50 s: refresh_node_mapping_table.  The handler runs on    *)
(* whichever thread the signal interrupts while the other threads go on,   *)
(* so its `--expire' (a load and a store) can interleave with the          *)
(* listener's `expire = 5' for the same entry.                             *)

\* The signal is delivered: the loop over i = 0..9 starts.  Node ids of 10
\* and above are never visited, so their refresh period ends here.
TickBegin ==
    /\ alive
    /\ mainPc # "table"
    /\ hpc = "idle"
    /\ ticks < MaxTicks
    /\ ticks' = ticks + 1
    /\ hleft' = {id \in MapIds : id < RefreshLimit}
    /\ hpc' = IF hleft' = {} THEN "idle" ELSE "load"
    /\ age' = [id \in MapIds |->
                 IF id >= RefreshLimit /\ age[id] >= 0 THEN age[id] + 1
                                                       ELSE age[id]]
    /\ UNCHANGED <<mainPc, alive, frames, table, hval, ringVars, topoVars,
                   dataVars, askVars, workerVars>>

\* The entry the loop is at (ascending i).
HCur == Min(hleft)

\* Move past the entry the loop is at.
Visited == IF hleft = {HCur} THEN "idle" ELSE "load"

\* Mutant of TickLoad: `--expire' without the `expire > 0' test.
TickLoadNoFloor ==
    /\ alive
    /\ hpc = "load"
    /\ hval' = table[HCur]
    /\ hpc' = "store"
    /\ age' = [age EXCEPT ![HCur] = IF @ >= 0 THEN @ + 1 ELSE @]
    /\ UNCHANGED <<mainPc, alive, frames, ticks, table, hleft, ringVars,
                   topoVars, dataVars, askVars, workerVars>>

\* `if (expire > 0)', and the load of `--expire'; an entry at 0 or -1 is
\* skipped.  The period of this entry ends here.
TickLoad ==
    /\ alive
    /\ hpc = "load"
    /\ IF table[HCur] > 0
       THEN /\ hval' = table[HCur]
            /\ hpc' = "store"
            /\ UNCHANGED hleft
       ELSE /\ hpc' = Visited
            /\ hleft' = hleft \ {HCur}
            /\ UNCHANGED hval
    /\ age' = [age EXCEPT ![HCur] = IF @ >= 0 THEN @ + 1 ELSE @]
    /\ UNCHANGED <<mainPc, alive, frames, ticks, table, ringVars, topoVars,
                   dataVars, askVars, workerVars>>

\* The store of `--expire': the loaded value minus one.
TickStore ==
    /\ alive
    /\ hpc = "store"
    /\ table' = [table EXCEPT ![HCur] = hval - 1]
    /\ hpc' = Visited
    /\ hleft' = hleft \ {HCur}
    /\ UNCHANGED <<mainPc, alive, frames, ticks, hval, age, ringVars,
                   topoVars, dataVars, askVars, workerVars>>

Next ==
    \/ InitTable
    \/ ResetQueue
    \/ \E a \in Interests : AskInts(a)
    \/ \E p \in TopoMsgs : RecvTopo(p)
    \/ \E r \in Readings : RecvDataStart(r)
    \/ RecvDataEnd
    \/ RecvDataFlag
    \/ \E id \in MapIds : RecvMapping(id)
    \/ TopoTake
    \/ TopoProcess
    \/ WorkerWake
    \/ WorkerRead
    \/ WorkerClear
    \/ WorkerAnswer
    \/ TickBegin
    \/ TickLoad
    \/ TickStore

\* Each thread that has work runs: the topology thread and the worker are
\* woken by their semaphores, the worker's 30 s window always ends, and a
\* signal handler runs to its end.
Fairness ==
    /\ WF_vars(TopoTake) /\ WF_vars(TopoProcess)
    /\ WF_vars(WorkerWake) /\ WF_vars(WorkerClear) /\ WF_vars(WorkerAnswer)
    /\ WF_vars(RecvDataEnd) /\ WF_vars(RecvDataFlag)
    /\ WF_vars(InitTable) /\ WF_vars(ResetQueue)
    /\ WF_vars(TickLoad) /\ WF_vars(TickStore)

Spec == Init /\ [][Next]_vars
FairSpec == Spec /\ Fairness
-----------------------------------------------------------------------------
TypeOK ==
    /\ mainPc \in {"table", "queue", "run"}
    /\ alive \in BOOLEAN
    /\ queue \in [0..(QSize - 1) -> Frames \cup {NULL}]
    /\ top \in 0..(QSize - 1) /\ bottom \in 0..QSize
    /\ semQueue \in 0..MaxFrames
    /\ tpc \in {"wait", "took"} /\ cur \in Frames \cup {NULL}
    /\ recvData \in [loc : Int, val : Int] /\ dataFlag \in {0, 1}
    /\ lpc \in {"idle", "copying", "packing"}
    /\ table \in [MapIds -> -1..Expire]
    /\ hpc \in {"idle", "load", "store"} /\ hleft \subseteq MapIds
    /\ semInterest \in 0..MaxAsks
    /\ wpc \in {"wait", "poll", "read"}
    /\ frames \in 0..MaxFrames /\ ticks \in 0..MaxTicks

(***************************************************************************)
(* The topology thread takes exactly the routes the listener queued, in    *)
(* the order it queued them, each once, and never a NULL slot: the ring    *)
(* indices top and bottom, the full test and sem_queue stay in step,       *)
(* including while bottom is PTR_MAX between `bottom++' and its wrap.     *)
(***************************************************************************)
TopoQueueFifo == alive /\ IsPrefix(deq, enq)

(***************************************************************************)
(* Every route the listener queues is eventually taken and built.          *)
(***************************************************************************)
TopoDrained ==
    \A n \in 1..MaxFrames : (Len(enq) >= n) ~> (Len(deq) >= n)

(***************************************************************************)
(* Every "ints" interest from the backbone is eventually answered by the   *)
(* worker: sem_interest counts them and each wakes one 30 s window.        *)
(***************************************************************************)
InterestAnswered ==
    \A n \in 1..MaxAsks : (Len(asked) >= n) ~> (Len(answers) >= n)

(***************************************************************************)
(* The worker's answer to the i-th "ints" interest is published under     *)
(* that interest's name (request_from_backbone and worker_thread hand the  *)
(* name over through the single buffer scope_name).                        *)
(***************************************************************************)
AnswerNamedForInterest ==
    \A i \in 1..Len(answers) : answers[i].name = asked[i]

(***************************************************************************)
(* Every reading the worker puts in an answer is one a DATA frame carried  *)
(* (location and value of the same frame): recv_data is shared with the    *)
(* listener without a lock.                                                *)
(***************************************************************************)
NoTornReading ==
    /\ \A i \in 1..Len(wcontent) : wcontent[i] \in sent
    /\ \A j \in 1..Len(answers) :
          \A i \in 1..Len(answers[j].content) : answers[j].content[i] \in sent

(***************************************************************************)
(* What the "location" answer lists for a node is its time left: 5 right  *)
(* after its MAPPING frame, one less per refresh period since, down to 0;  *)
(* -1 (or the 0 of the zeroed globals) for a node that never sent one.     *)
(* Three pieces of code have to agree for this: the listener's refresh,    *)
(* the SIGALRM handler's countdown loop (its range of ids, and its load    *)
(* and store racing the listener's refresh), and gateway_init's reset of   *)
(* the table after the listener is already running.  The entry the        *)
(* handler is between its load and its store of is exempt.                 *)
(***************************************************************************)
ExpireTracksAge ==
    \A id \in MapIds :
        ~(hpc = "store" /\ id = HCur) =>
            IF age[id] >= 0 THEN table[id] = IF age[id] < Expire
                                            THEN Expire - age[id] ELSE 0
                            ELSE table[id] <= 0
(***************************************************************************)
(* Once ndnd_run serves interests, the "location" answer lists only nodes  *)
(* that sent a MAPPING frame: gateway_init's -1 loop must overwrite the    *)
(* zeroed globals (expire 0 reads as a live node) before the ndnd thread  *)
(* runs, and neither the SIGALRM countdown nor its race with the listener  *)
(* may bring a never-mapped entry to 0 or above.                           *)
(***************************************************************************)
LocatedWereMapped ==
    mainPc = "run" => \A id \in Located : age[id] >= 0
====
