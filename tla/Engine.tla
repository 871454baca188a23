------------------------------- MODULE Engine -------------------------------
(***************************************************************************)
(* The workflow engine of benesh.c as every component runs it: the object  *)
(* database (known_objs), the work queue, the scheduling of targets, the   *)
(* main thread inside benesh_tpoint and benesh_fini, the three EKT         *)
(* handlers and the DataSpaces notification.                               *)
(*                                                                         *)
(* One step is one critical section of db_mutex or of work_mutex.  Only    *)
(* tpoint_watch holds work_mutex over several database sections: while     *)
(* sched[c] is not empty it has the lock of component c, and every step    *)
(* that takes work_mutex waits for LockFree(c).  db_mutex is never held    *)
(* while another lock is awaited, so it needs no variable.                 *)
(***************************************************************************)
EXTENDS EngineState

-----------------------------------------------------------------------------
(***************************************************************************)
(* Faulty variants of definitions below, each the way a slip in benesh.c   *)
(* would make it.  Nothing uses them: put in the place of the definition   *)
(* named in its comment, each makes a property of this module fail.        *)
(***************************************************************************)

\* Announces: the announce flag of initiations is set, too.
AnnouncesInitiation(c, n) ==
    \/ n.kind \in {"init", "fini"}
    \/ n.kind = "rule" /\ Announced(c, n.obj, n.at)

\* Announces: the flag stays 0.
AnnouncesNothing(c, n) == FALSE

\* FiniEntry: the realization waits for the first subrule.
FiniEntryFirst(o) == <<o, 1>>

\* Claim: obj_set_pending has been forgotten.
ClaimUnmarked(c) ==
    /\ ~LockFree(c) /\ Top(c).pc = "claim"
    /\ Top(c).obj \notin pending[c]
    /\ pass[c][Top(c).obj] < MaxPass
    /\ pass' = [pass EXCEPT ![c][Top(c).obj] = @ + 1]
    /\ SetTop(c, AfterDeps(Top(c), 0, TRUE))
    /\ UNCHANGED <<realized, pending, subs, deps, wq, act, mainVars, count,
                   netVars, dataVars, ran>>

\* CheckChain: no return after benesh_make_active, the chain is subscribed
\* as well.
CheckChainBoth(c, k) ==
    /\ ~LockFree(c) /\ Top(c).pc = "rules"
    /\ LET f == Top(c)
           o == f.obj
           p == pass[c][o]
       IN  /\ k >= f.i /\ ChainStart(c, o, k)
           /\ \A j \in f.i .. k - 1 : ~ChainStart(c, o, j)
           /\ wq' = [wq EXCEPT ![c] = IF <<o, k - 1>> \in realized[c]
                                        THEN MakeActive(@, ChainNode(o, k, p))
                                        ELSE @]
           /\ SetTop(c, [f EXCEPT !.pc = "chain", !.i = k])
    /\ UNCHANGED <<dbVars, act, mainVars, count, netVars, dataVars, ran>>

\* Push: the node is queued, but work_cond is not signalled.
PushSilently(c, a) ==
    /\ a.push
    /\ LockFree(c)
    /\ wq' = [wq EXCEPT ![c] =
                  MakeActive(@, subs[c][<<a.obj, a.at>>][a.pos].node)]
    /\ act' = [act EXCEPT ![c] =
                   (@ \ {a}) \cup {[a EXCEPT !.pos = @ + 1, !.push = FALSE]}]
    /\ UNCHANGED <<dbVars, sched, pc, work, link, tp, count, netVars, dataVars,
                   ran>>

\* HandleNotify: handle_notify does not wait for check_sub.
HandleNotifyAtOnce(c, n) ==
    /\ xfer[c][n] \in {"running", "claimed"}
    /\ realized' = [realized EXCEPT ![c] = @ \cup {<<n.obj, n.at - 1>>}]
    /\ xfer' = [xfer EXCEPT ![c][n] = "copied"]
    /\ act' = [act EXCEPT ![c] = @ \cup
                   {NewActivation("notify", c, n.obj, n.at - 1, n.pass)}]
    /\ UNCHANGED <<pending, subs, deps, pass, wq, sched, mainVars, count,
                   netVars, published, ran>>

\* SubruleDone: a RULE node that is through is handled like one that is not.
SubruleRequeued(c) ==
    /\ ran' = [ran EXCEPT ![c] = @ \cup {CurrentRule(c)}]
    /\ IF work[c].kind = "chain"
         THEN /\ link' = [link EXCEPT ![c] = @ + 1]
              /\ pc' = [pc EXCEPT ![c] = "handle"]
         ELSE /\ pc' = [pc EXCEPT ![c] = "requeue"]
              /\ UNCHANGED link

\* AllFini: benesh_fini does not wait for its own announcement to come back.
AllFiniButOne(c) == count[c] <= 1

-----------------------------------------------------------------------------
(***************************************************************************)
(* tpoint_watch, schedule_target and schedule_subrules.                    *)
(***************************************************************************)

\* The touchpoint announcement m reaches c: under work_mutex, its target is
\* looked up, and scheduled unless it is realized.
RecvTpoint(c, m) ==
    /\ m.to = c
    /\ LockFree(c)
    /\ tpNet' = tpNet \ {m}
    /\ LET o == Touch[m.from][m.n]
       IN  IF ObjectRealized(c, o)
             THEN Signal(c) /\ UNCHANGED sched
             ELSE /\ sched' = [sched EXCEPT ![c] = <<NewFrame(o)>>]
                  /\ UNCHANGED pc
    /\ UNCHANGED <<dbVars, wq, act, work, link, tp, count, workNet, finiNet,
                   dataVars, ran>>

\* object_pending holds: somebody else's scheduling of the object counts.
FindPending(c) ==
    /\ ~LockFree(c) /\ Top(c).pc = "claim"
    /\ Top(c).obj \in pending[c]
    /\ Return(c)
    /\ UNCHANGED <<dbVars, wq, act, work, link, tp, count, netVars, dataVars,
                   ran>>

\* object_pending does not hold: obj_set_pending, and a new initiation node.
\* pending is only ever set under work_mutex, so the two are one step.
Claim(c) ==
    /\ ~LockFree(c) /\ Top(c).pc = "claim"
    /\ Top(c).obj \notin pending[c]
    /\ pass[c][Top(c).obj] < MaxPass
    /\ pending' = [pending EXCEPT ![c] = @ \cup {Top(c).obj}]
    /\ pass' = [pass EXCEPT ![c][Top(c).obj] = @ + 1]
    /\ SetTop(c, AfterDeps(Top(c), 0, TRUE))
    /\ UNCHANGED <<realized, subs, deps, wq, act, mainVars, count, netVars,
                   dataVars, ran>>

\* One turn of the loop over the dependencies: the recursive schedule_target
\* finds the dependency realized, or goes on to see whether it is pending.
CheckDep(c) ==
    /\ ~LockFree(c) /\ Top(c).pc = "deps"
    /\ LET f == Top(c)
           d == Deps[f.obj][f.i]
       IN  IF ObjectRealized(c, d)
             THEN SetTop(c, AfterDeps(f, f.i, f.met))
             ELSE sched' = [sched EXCEPT ![c] = Append(@, NewFrame(d))]
    /\ UNCHANGED <<dbVars, wq, act, mainVars, count, netVars, dataVars, ran>>

\* The recursive call returned 0: the initiation waits for the dependency.
SubDep(c) ==
    /\ ~LockFree(c) /\ Top(c).pc = "sub"
    /\ LET f == Top(c)
       IN  /\ SubTarget(c, <<Deps[f.obj][f.i], 0>>,
                        InitNode(f.obj, pass[c][f.obj]))
           /\ SetTop(c, AfterDeps(f, f.i, FALSE))
    /\ UNCHANGED <<realized, pending, pass, wq, act, mainVars, count, netVars,
                   dataVars, ran>>

\* The next chain of c starts at k.  It becomes active at once if the entry
\* before it is realized; otherwise it is subscribed in a later section.
CheckChain(c, k) ==
    /\ ~LockFree(c) /\ Top(c).pc = "rules"
    /\ LET f == Top(c)
           o == f.obj
           p == pass[c][o]
       IN  /\ k >= f.i /\ ChainStart(c, o, k)
           /\ \A j \in f.i .. k - 1 : ~ChainStart(c, o, j)
           /\ IF <<o, k - 1>> \in realized[c]
                THEN /\ wq' = [wq EXCEPT ![c] =
                                   MakeActive(@, ChainNode(o, k, p))]
                     /\ Subscribe(c, o, k, p)
                     /\ SetTop(c, [f EXCEPT !.i = k + 1])
                ELSE /\ SetTop(c, [f EXCEPT !.pc = "chain", !.i = k])
                     /\ UNCHANGED <<wq, xfer>>
    /\ UNCHANGED <<dbVars, act, mainVars, count, netVars, published, ran>>

SubChain(c) ==
    /\ ~LockFree(c) /\ Top(c).pc = "chain"
    /\ LET f == Top(c)
           p == pass[c][f.obj]
       IN  /\ SubTarget(c, ChainEntry(f.obj, f.i), ChainNode(f.obj, f.i, p))
           /\ Subscribe(c, f.obj, f.i, p)
           /\ SetTop(c, [f EXCEPT !.pc = "rules", !.i = @ + 1])
    /\ UNCHANGED <<realized, pending, pass, wq, act, mainVars, count, netVars,
                   published, ran>>

\* The entry a realization waits for: the last subrule of the procedure.
FiniEntry(o) == <<o, Len(Proc[o])>>

\* The last subrule is this component's: a node to realize the object.
SubFini(c) ==
    /\ ~LockFree(c) /\ Top(c).pc = "rules"
    /\ LET f == Top(c)
           o == f.obj
       IN  /\ NoChainFrom(c, o, f.i)
           /\ Finisher(c, o)
           /\ SubTarget(c, FiniEntry(o), FiniNode(o, pass[c][o]))
           /\ SetTop(c, [f EXCEPT !.pc = "end"])
    /\ UNCHANGED <<realized, pending, pass, wq, act, mainVars, count, netVars,
                   dataVars, ran>>

\* schedule_target is through: with all dependencies met, the initiation is
\* queued at once.
EndSchedule(c) ==
    /\ ~LockFree(c)
    /\ LET f == Top(c)
           o == f.obj
       IN  /\ \/ f.pc = "end"
              \/ /\ f.pc = "rules"
                 /\ NoChainFrom(c, o, f.i)
                 /\ ~Finisher(c, o)
           /\ wq' = [wq EXCEPT ![c] =
                         IF f.met THEN MakeActive(@, InitNode(o, pass[c][o]))
                                  ELSE @]
    /\ Return(c)
    /\ UNCHANGED <<dbVars, act, work, link, tp, count, netVars, dataVars, ran>>

-----------------------------------------------------------------------------
(***************************************************************************)
(* activate_subs, and the handlers that call it.                           *)
(***************************************************************************)

\* One database section that ends at the first node without a dependency
\* left: its subscription is done and the node will be queued.  Nodes that
\* still wait for something are counted down but not marked.
ScanHit(c, a, i) ==
    /\ ~a.push
    /\ i \in Due(c, a)
    /\ \A j \in Due(c, a) : i <= j
    /\ CountDown(c, a, {j \in Open(c, a) : j <= i})
    /\ subs' = [subs EXCEPT ![c][<<a.obj, a.at>>][i].done = TRUE]
    /\ act' = [act EXCEPT ![c] =
                   (@ \ {a}) \cup {[a EXCEPT !.pos = i, !.push = TRUE]}]
    /\ UNCHANGED <<realized, pending, pass, wq, sched, mainVars, count,
                   netVars, dataVars, ran>>

\* The work_mutex section after it: the node is queued, the main thread
\* signalled.
Push(c, a) ==
    /\ a.push
    /\ LockFree(c)
    /\ wq' = [wq EXCEPT ![c] =
                  MakeActive(@, subs[c][<<a.obj, a.at>>][a.pos].node)]
    /\ Signal(c)
    /\ act' = [act EXCEPT ![c] =
                   (@ \ {a}) \cup {[a EXCEPT !.pos = @ + 1, !.push = FALSE]}]
    /\ UNCHANGED <<dbVars, sched, work, link, tp, count, netVars, dataVars,
                   ran>>

\* The node's announce flag.
Announces(c, n) ==
    \/ n.kind = "fini"
    \/ n.kind = "rule" /\ Announced(c, n.obj, n.at)

\* A database section that reaches the end of the list: the call returns to
\* work_watch, to handle_notify (whose return ends the transfer), or to the
\* main thread, which goes on to the announcement.
ScanEnd(c, a) ==
    /\ ~a.push
    /\ Due(c, a) = {}
    /\ CountDown(c, a, Open(c, a))
    /\ act' = [act EXCEPT ![c] = @ \ {a}]
    /\ IF a.by # "main"
         THEN UNCHANGED <<pc, work>>
         ELSE IF Announces(c, work[c])
                THEN /\ pc' = [pc EXCEPT ![c] = "announce"]
                     /\ UNCHANGED work
                ELSE /\ pc' = [pc EXCEPT ![c] = "loop"]
                     /\ work' = [work EXCEPT ![c] = NoNode]
    /\ IF a.by = "notify"
         THEN xfer' = [xfer EXCEPT
                  ![c][RuleNode(a.obj, a.at + 1, a.pass)] = "done"]
         ELSE UNCHANGED xfer
    /\ UNCHANGED <<realized, pending, subs, pass, wq, sched, link, tp, count,
                   netVars, published, ran>>

\* work_watch: the announced entry is realized, whatever its pending flag;
\* its subscribers are then activated.  A component's own announcements come
\* back to it too and are dropped: Announce sends only to the others.
RecvWork(c, m) ==
    /\ m.to = c
    /\ workNet' = workNet \ {m}
    /\ realized' = [realized EXCEPT ![c] = @ \cup {<<m.obj, m.at>>}]
    /\ act' = [act EXCEPT ![c] = @ \cup
                   {NewActivation("watch", m.from, m.obj, m.at, m.pass)}]
    /\ UNCHANGED <<pending, subs, deps, pass, wq, sched, mainVars, count,
                   tpNet, finiNet, dataVars, ran>>

\* fini_watch.
RecvFini(c, m) ==
    /\ m.to = c
    /\ LockFree(c)
    /\ finiNet' = finiNet \ {m}
    /\ count' = [count EXCEPT ![c] = @ - 1]
    /\ Signal(c)
    /\ UNCHANGED <<dbVars, wq, sched, act, work, link, tp, tpNet, workNet,
                   dataVars, ran>>

\* DataSpaces has the data of subscription n and calls handle_notify, which
\* first waits until check_sub is waiting for it.
Notify(c, n) ==
    /\ xfer[c][n] = "wait"
    /\ <<n.obj, n.at - 1>> \in published
    /\ xfer' = [xfer EXCEPT ![c][n] = "running"]
    /\ UNCHANGED <<dbVars, wq, sched, act, mainVars, count, netVars,
                   published, ran>>

\* handle_notify goes on: the data are copied, the publication's entry is
\* realized and its subscribers are activated.
HandleNotify(c, n) ==
    /\ xfer[c][n] = "claimed"
    /\ realized' = [realized EXCEPT ![c] = @ \cup {<<n.obj, n.at - 1>>}]
    /\ xfer' = [xfer EXCEPT ![c][n] = "copied"]
    /\ act' = [act EXCEPT ![c] = @ \cup
                   {NewActivation("notify", c, n.obj, n.at - 1, n.pass)}]
    /\ UNCHANGED <<pending, subs, deps, pass, wq, sched, mainVars, count,
                   netVars, published, ran>>

-----------------------------------------------------------------------------
(***************************************************************************)
(* benesh_handle_work and handle_work: the main thread works the queue.    *)
(***************************************************************************)

\* The queue is empty when the main thread comes in: it waits for a signal
\* as long as other components are there, otherwise it returns at once.
EnterIdle(c) ==
    /\ pc[c] = "enter"
    /\ LockFree(c)
    /\ wq[c] = <<>>
    /\ pc' = [pc EXCEPT ![c] = IF count[c] > 1 THEN "wait" ELSE "poll"]
    /\ UNCHANGED <<dbVars, wq, sched, act, work, link, tp, count, netVars,
                   dataVars, ran>>

\* The queue has been worked off, or was when the wait ended.
Leave(c) ==
    /\ pc[c] = "loop"
    /\ LockFree(c)
    /\ wq[c] = <<>>
    /\ pc' = [pc EXCEPT ![c] = "poll"]
    /\ UNCHANGED <<dbVars, wq, sched, act, work, link, tp, count, netVars,
                   dataVars, ran>>

\* deque_work.  A chain is worked from its first link, also when it was
\* requeued: handle_work stores the link that failed in wnode->next, where
\* nobody looks for it.
Take(c) ==
    /\ pc[c] \in {"enter", "loop"}
    /\ LockFree(c)
    /\ wq[c] # <<>>
    /\ work' = [work EXCEPT ![c] = Head(wq[c])]
    /\ link' = [link EXCEPT ![c] =
                    IF Head(wq[c]).kind = "chain" THEN Head(wq[c]).at ELSE 0]
    /\ wq' = [wq EXCEPT ![c] = Tail(@)]
    /\ pc' = [pc EXCEPT ![c] = "handle"]
    /\ UNCHANGED <<dbVars, sched, act, tp, count, netVars, dataVars, ran>>

\* deps_met, under work_mutex.  Every dependency is read in a database section
\* of its own, but realized flags are never taken back.
DepsMet(c, o) ==
    \A i \in DOMAIN Deps[o] : ObjectRealized(c, Deps[o][i])

\* The initiation of an object with a procedure; it is requeued as long as
\* a dependency is missing.
Initiate(c) ==
    /\ pc[c] = "handle"
    /\ work[c].kind = "init" /\ work[c].at = -1
    /\ LockFree(c)
    /\ IF DepsMet(c, work[c].obj)
         THEN StartActivation(c)
         ELSE /\ pc' = [pc EXCEPT ![c] = "requeue"]
              /\ UNCHANGED act
    /\ UNCHANGED <<dbVars, wq, sched, work, link, tp, count, netVars,
                   dataVars, ran>>

\* realize_object, for the last node of an object or the only one of an
\* object without a procedure.
RealizeObject(c) ==
    /\ pc[c] = "handle"
    /\ work[c].kind \in {"init", "fini"} /\ work[c].at = 0
    /\ realized' = [realized EXCEPT ![c] = @ \cup {<<work[c].obj, 0>>}]
    /\ pending' = [pending EXCEPT ![c] = @ \ {work[c].obj}]
    /\ StartActivation(c)
    /\ UNCHANGED <<subs, deps, pass, wq, sched, work, link, tp, count, netVars,
                   dataVars, ran>>

\* handle_subrule has succeeded: on to the next link, or to the cleanup.
SubruleDone(c) ==
    /\ ran' = [ran EXCEPT ![c] = @ \cup {CurrentRule(c)}]
    /\ IF work[c].kind = "chain"
         THEN /\ link' = [link EXCEPT ![c] = @ + 1]
              /\ pc' = [pc EXCEPT ![c] = "handle"]
         ELSE /\ pc' = [pc EXCEPT ![c] = "finish"]
              /\ UNCHANGED link

\* handle_asg, handle_method and handle_pub; the latter leaves the data with
\* DataSpaces.
RunSubrule(c) ==
    /\ AtSubrule(c)
    /\ CurrentType(c) # "sub"
    /\ SubruleDone(c)
    /\ published' = IF CurrentType(c) = "pub"
                      THEN published \cup {<<work[c].obj, Current(c)>>}
                      ELSE published
    /\ UNCHANGED <<dbVars, wq, sched, act, work, tp, count, netVars, xfer>>

\* check_sub: only a transfer whose notification has come in is waited for.
CheckSubRunning(c) ==
    /\ AtSubrule(c)
    /\ CurrentType(c) = "sub"
    /\ xfer[c][CurrentRule(c)] = "running"
    /\ xfer' = [xfer EXCEPT ![c][CurrentRule(c)] = "claimed"]
    /\ pc' = [pc EXCEPT ![c] = "blocked"]
    /\ UNCHANGED <<dbVars, wq, sched, act, work, link, tp, count, netVars,
                   published, ran>>

\* The blocking dspaces_check_sub returns, or the first one says it is done.
CheckSubDone(c) ==
    /\ pc[c] # "blocked" => AtSubrule(c) /\ CurrentType(c) = "sub"
    /\ xfer[c][CurrentRule(c)] = "done"
    /\ SubruleDone(c)
    /\ UNCHANGED <<dbVars, wq, sched, act, work, tp, count, netVars, dataVars>>

\* The data are not there: the node in hand, a whole chain even, is requeued.
CheckSubFails(c) ==
    /\ AtSubrule(c)
    /\ CurrentType(c) = "sub"
    /\ xfer[c][CurrentRule(c)] \in {"none", "wait"}
    /\ pc' = [pc EXCEPT ![c] = "requeue"]
    /\ UNCHANGED <<dbVars, wq, sched, act, work, link, tp, count, netVars,
                   dataVars, ran>>

\* The last link of a chain goes to the queue as a RULE node of its own.
QueueLastLink(c) ==
    /\ pc[c] = "handle"
    /\ work[c].kind = "chain" /\ ChainEnd(c, work[c].obj, link[c])
    /\ LockFree(c)
    /\ wq' = [wq EXCEPT ![c] = MakeActive(@, CurrentRule(c))]
    /\ work' = [work EXCEPT ![c] = NoNode]
    /\ pc' = [pc EXCEPT ![c] = "loop"]
    /\ UNCHANGED <<dbVars, sched, act, link, tp, count, netVars, dataVars, ran>>

\* The cleanup of a RULE node: its entry is realized, and nothing else yet.
FinishSubrule(c) ==
    /\ pc[c] = "finish"
    /\ realized' = [realized EXCEPT ![c] = @ \cup {<<work[c].obj, work[c].at>>}]
    /\ StartActivation(c)
    /\ UNCHANGED <<pending, subs, deps, pass, wq, sched, work, link, tp, count,
                   netVars, dataVars, ran>>

Requeue(c) ==
    /\ pc[c] = "requeue"
    /\ LockFree(c)
    /\ wq' = [wq EXCEPT ![c] = MakeActive(@, work[c])]
    /\ work' = [work EXCEPT ![c] = NoNode]
    /\ pc' = [pc EXCEPT ![c] = "loop"]
    /\ UNCHANGED <<dbVars, sched, act, link, tp, count, netVars, dataVars, ran>>

\* announce_work.
Announce(c) ==
    /\ pc[c] = "announce"
    /\ workNet' = workNet \cup
           {[to |-> d, from |-> c, obj |-> work[c].obj, at |-> work[c].at,
             pass |-> work[c].pass] : d \in Comp \ {c}}
    /\ work' = [work EXCEPT ![c] = NoNode]
    /\ pc' = [pc EXCEPT ![c] = "loop"]
    /\ UNCHANGED <<dbVars, wq, sched, act, link, tp, count, tpNet, finiNet,
                   dataVars, ran>>

-----------------------------------------------------------------------------
(***************************************************************************)
(* benesh_tpoint and benesh_fini.                                          *)
(***************************************************************************)

Signalled(c) == Len(Touch[c]) < tp[c]    \* benesh_fini has been called

\* The application signals its next touchpoint.
Tpoint(c) ==
    /\ pc[c] = "app"
    /\ tp[c] < Len(Touch[c])
    /\ tp' = [tp EXCEPT ![c] = @ + 1]
    /\ tpNet' = tpNet \cup
           {[to |-> d, from |-> c, n |-> tp[c] + 1] : d \in Comp}
    /\ pc' = [pc EXCEPT ![c] = "poll"]
    /\ UNCHANGED <<dbVars, wq, sched, act, work, link, count, workNet, finiNet,
                   dataVars, ran>>

\* tpoint_finished: benesh_handle_work until the target is realized here.
PollTpoint(c) ==
    /\ pc[c] = "poll"
    /\ ~Signalled(c)
    /\ pc' = [pc EXCEPT ![c] =
                  IF ObjectRealized(c, Touch[c][tp[c]]) THEN "app" ELSE "enter"]
    /\ UNCHANGED <<dbVars, wq, sched, act, work, link, tp, count, netVars,
                   dataVars, ran>>

\* benesh_fini, called after the last touchpoint.
Fini(c) ==
    /\ pc[c] = "app"
    /\ tp[c] = Len(Touch[c])
    /\ tp' = [tp EXCEPT ![c] = @ + 1]
    /\ finiNet' = finiNet \cup {[to |-> d, from |-> c] : d \in Comp}
    /\ pc' = [pc EXCEPT ![c] = "poll"]
    /\ UNCHANGED <<dbVars, wq, sched, act, work, link, count, tpNet, workNet,
                   dataVars, ran>>

\* Every component, this one included, has been heard to say fini.
AllFini(c) == count[c] = 0

\* benesh_fini helps the others until all have said fini, then tears down.
PollFini(c) ==
    /\ pc[c] = "poll"
    /\ Signalled(c)
    /\ pc' = [pc EXCEPT ![c] = IF AllFini(c) THEN "down" ELSE "enter"]
    /\ UNCHANGED <<dbVars, wq, sched, act, work, link, tp, count, netVars,
                   dataVars, ran>>

-----------------------------------------------------------------------------

Scheduling(c) ==
    \/ FindPending(c) \/ Claim(c) \/ CheckDep(c) \/ SubDep(c)
    \/ \E o \in Obj : \E k \in Steps(o) : CheckChain(c, k)
    \/ SubChain(c) \/ SubFini(c) \/ EndSchedule(c)

Activating(c) ==
    \E a \in act[c] :
        \/ \E i \in DOMAIN subs[c][<<a.obj, a.at>>] : ScanHit(c, a, i)
        \/ Push(c, a)
        \/ ScanEnd(c, a)

Receiving(c) ==
    \/ \E m \in tpNet : RecvTpoint(c, m)
    \/ \E m \in workNet : RecvWork(c, m)
    \/ \E m \in finiNet : RecvFini(c, m)

Transferring(c) ==
    \E n \in SubNode : Notify(c, n) \/ HandleNotify(c, n)

Working(c) ==
    \/ EnterIdle(c) \/ Leave(c) \/ Take(c)
    \/ Initiate(c) \/ RealizeObject(c)
    \/ RunSubrule(c) \/ CheckSubRunning(c) \/ CheckSubDone(c)
    \/ CheckSubFails(c) \/ QueueLastLink(c) \/ FinishSubrule(c)
    \/ Requeue(c) \/ Announce(c)
    \/ Tpoint(c) \/ PollTpoint(c) \/ Fini(c) \/ PollFini(c)

\* All components have torn down, and nothing is left to happen.
Over ==
    /\ \A c \in Comp : pc[c] = "down" /\ LockFree(c) /\ act[c] = {}
    /\ tpNet = {} /\ workNet = {} /\ finiNet = {}
    /\ UNCHANGED vars

Next ==
    \/ \E c \in Comp : \/ Scheduling(c) \/ Activating(c) \/ Receiving(c)
                       \/ Transferring(c) \/ Working(c)
    \/ Over

\* Every thread that can run does run, and EKT and DataSpaces deliver.
Fairness ==
    \A c \in Comp :
        /\ WF_vars(Scheduling(c))
        /\ WF_vars(Activating(c))
        /\ WF_vars(Receiving(c))
        /\ WF_vars(Transferring(c))
        /\ WF_vars(Working(c))

Spec == Init /\ [][Next]_vars

FairSpec == Spec /\ Fairness

-----------------------------------------------------------------------------
(***************************************************************************)
(* What the engine guarantees.                                             *)
(***************************************************************************)

\* The promise of module Workflow: a subrule has run when some component has
\* carried it out, in whatever pass; a component holds an object for realized
\* when its entry 0 says so.
Ran == [o \in Obj |-> {k \in Steps(o) : \E c \in Comp : \E p \in 1 .. MaxPass :
                            RuleNode(o, k, p) \in ran[c]}]

Known == [c \in Comp |-> {o \in Obj : ObjectRealized(c, o)}]

W == INSTANCE Workflow WITH ran <- Ran, known <- Known

\* Whatever the interleaving of scheduling, announcements, transfers and
\* queue, procedures run in order and after their dependencies, and nothing
\* counts as realized on any component before its procedure is through.
Implements == W!Spec

\* benesh_tpoint returns to the application only when the target's whole
\* procedure, and those of the objects it depends on, have been run.
TpointReturnsComplete ==
    \A c \in Comp : \A n \in 1 .. Len(Touch[c]) :
        n < tp[c] \/ (n = tp[c] /\ pc[c] = "app") =>
            LET o == Touch[c][n]
            IN  /\ Steps(o) \subseteq Ran[o]
                /\ \A i \in DOMAIN Deps[o] :
                       Steps(Deps[o][i]) \subseteq Ran[Deps[o][i]]

\* A component carries out a subrule at most once in a scheduling pass, even
\* though chains and their links go through the queue several times and are
\* requeued when a receive is not ready.
OncePerPass ==
    \A c \in Comp : AtSubrule(c) => CurrentRule(c) \notin ran[c]

\* Work, taken, queued or on its way to the queue.
Places(c, n) ==
    Cardinality({i \in DOMAIN wq[c] : wq[c][i] = n})
    + (IF work[c] = n THEN 1 ELSE 0)
    + Cardinality({a \in act[c] :
          a.push /\ subs[c][<<a.obj, a.at>>][a.pos].node = n})

\* Chains, their last links and realizations are active in one place at a
\* time, though the publisher's announcement and the arrival of the data both
\* activate the subscribers of a publication.  (Initiations are not named:
\* one with two dependencies can be queued twice, see README.)
ActiveOnce ==
    \A c \in Comp : \A n \in Node :
        n.kind # "init" => Places(c, n) <= 1

\* The main thread never sleeps on work that is queued, nor when it is the
\* last component that has not said fini: the condition has one waiter, no
\* loop around the wait, and signals in three places only.
NoMissedSignal ==
    \A c \in Comp :
        pc[c] = "wait" => count[c] > 1 /\ (LockFree(c) => wq[c] = <<>>)

\* handle_notify writes a variable's buffer only while the main thread is
\* parked in check_sub for that very transfer.
BufferExclusive ==
    \A c \in Comp : \A n \in SubNode :
        xfer[c][n] \in {"claimed", "copied"} =>
            pc[c] = "blocked" /\ CurrentRule(c) = n

\* No component tears down while another is still inside its touchpoints,
\* where it may need work from this one.
TeardownLast ==
    \A c \in Comp : pc[c] = "down" => \A d \in Comp : Signalled(d)

\* An object is scheduled anew only when it was realized between the looks
\* schedule_target takes at the realized and at the pending flag; no object is
\* scheduled a third time, so that the bound MaxPass = 2 never stops anything.
NoThirdPass ==
    \A c \in Comp :
        /\ \A o \in Obj : pass[c][o] > 1 => ObjectRealized(c, o)
        /\ ~LockFree(c) /\ Top(c).pc = "claim" /\ Top(c).obj \notin pending[c]
               => pass[c][Top(c).obj] < 2

-----------------------------------------------------------------------------
(***************************************************************************)
(* What the code means to guarantee and does not.                          *)
(***************************************************************************)

\* The entry the scheduler of c is about to subscribe to.
NextEntry(c) ==
    LET f == Top(c)
    IN  IF f.pc = "sub" THEN <<Deps[f.obj][f.i], 0>>
                        ELSE ChainEntry(f.obj, f.i)

\* "dep could come in while we're adding subs": it is never the case that an
\* entry is realized and its subscribers activated between the check that
\* finds it missing and the subscription to it.
NoLateSubscription ==
    \A c \in Comp :
        ~LockFree(c) /\ Top(c).pc \in {"sub", "chain"} =>
            \/ NextEntry(c) \notin realized[c]
            \/ \E a \in act[c] : <<a.obj, a.at>> = NextEntry(c)

\* "wqueue cleared by handling %i nodes": a node leaves the queue only when
\* the main thread takes it.  An initiation that is queued a second time
\* breaks this when something else was queued in between.
QueueKept ==
    [][\A c \in Comp : \A n \in Range(wq[c]) :
           n \in Range(wq'[c]) \/ work'[c] = n]_vars

\* The main thread of c sleeps in a touchpoint whose target is realized.
Overslept(c) ==
    pc[c] = "wait" /\ ~Signalled(c) /\ ObjectRealized(c, Touch[c][tp[c]])

\* "finished touchpoint processing for %s": whenever the main thread sleeps in a
\* touchpoint whose target is realized, something wakes it in the end.  An
\* announcement that realizes the target and activates nobody does not
\* (work_watch; activate_subs signals only after it has queued a node).
Wakes == \A c \in Comp : []<>~Overslept(c)

\* Every component gets through its touchpoints and tears down.
AllDown == <>(\A c \in Comp : pc[c] = "down")

\* While the queue is kept, as it is in the workflows this is checked for, two
\* things only can keep a component in a touchpoint or in benesh_fini for ever:
\* a subscription that comes too late, and a main thread that is not woken
\* when its target has been realized, itself or that of another component.
Completes == []NoLateSubscription /\ Wakes => AllDown

=============================================================================
