------------------------------- MODULE MsgTask -------------------------------
(***************************************************************************)
(* A MsgTask: a queue (msg_q.c over linked_list.c), and a thread that      *)
(* takes messages from it until it is unblocked (MsgTask.cpp), run by a    *)
(* LocThread whose delegate the thread and the owner share                 *)
(* (LocThread.cpp).  The thread deletes the task, and whoever lets go of   *)
(* the delegate last deletes that.                                         *)
(*                                                                         *)
(* The queue is changed under its mutex, so each call of it is a step; the *)
(* delegate has a mutex for its count only.  Messages come from anybody    *)
(* while the task is not being destroyed, and from its own messages even   *)
(* then; an owner that lets others send later is not modelled, for they    *)
(* would use a task that is gone.  Memory for the queue itself is there;   *)
(* that for an element of the list may not be.                             *)
(***************************************************************************)
EXTENDS Naturals, Sequences, SequencesExt

CONSTANTS
  Messages,  \* each is sent at most once
  Null       \* no message

ASSUME MessagesAssumption ==
  /\ Null \notin Messages
  /\ Messages \cap {"task", "thread", "delegate", "mThread"} = {}

VARIABLES
  head, tail, next, prev,  \* the list: its elements are called by their messages
  unblocked,
  signalled,   \* is the receiver waiting and has been woken?
  mThread,     \* has the task a thread?
  mRunnable, mJoinable, mRefCount,  \* the delegate
  worker,      \* where the thread is
  owner,       \* where the owner is
  got,         \* the message the thread handles
  sent,        \* messages that were put on the list, in that order
  handled,     \* messages that were handled, in that order
  lost,        \* messages the queue did not take
  deleted,     \* how often each object was deleted
  misused,     \* objects that were used when deleted
  unstarted    \* did the thread find that it was stopped already?

list     == <<head, tail, next, prev>>
msgQ     == <<list, unblocked, signalled>>
delegate == <<mRunnable, mJoinable, mRefCount>>
fate     == <<deleted, misused>>
traffic  == <<sent, lost>>
taskVars == <<msgQ, mThread, delegate, worker, owner, got, traffic, handled, fate, unstarted>>

Objects == {"task", "thread", "delegate"} \cup Messages

\* Before MsgTask::MsgTask.
TaskInit ==
  /\ head = Null
  /\ tail = Null
  /\ next = [m \in Messages |-> Null]
  /\ prev = [m \in Messages |-> Null]
  /\ unblocked = FALSE
  /\ signalled = FALSE
  /\ mThread = FALSE
  /\ mRunnable = FALSE
  /\ mJoinable = FALSE
  /\ mRefCount = 0
  /\ worker = "none"
  /\ owner = "new"
  /\ got = Null
  /\ sent = <<>>
  /\ handled = <<>>
  /\ lost = {}
  /\ deleted = [x \in Objects |-> 0]
  /\ misused = {}
  /\ unstarted = FALSE

Uses(xs)   == misused' = misused \cup {x \in xs : deleted[x] > 0}
Free(xs)   == deleted' = [x \in Objects |-> IF x \in xs THEN deleted[x] + 1 ELSE deleted[x]]
TouchOnly(xs) == Uses(xs) /\ UNCHANGED deleted
FreeOnly(xs) == Free(xs) /\ UNCHANGED misused

-----------------------------------------------------------------------------
\* linked_list.c.

\* linked_list_add: at the head.
Add(m) ==
  /\ head' = m
  /\ next' = [next EXCEPT ![m] = head]
  /\ prev' = [x \in Messages |-> IF x = m THEN Null ELSE IF x = head THEN m ELSE prev[x]]
  /\ tail' = IF head # Null THEN tail ELSE m

\* A mutant of Take: taken where it was added.
TakeHead ==
  /\ got' = head
  /\ head' = next[head]
  /\ prev' = IF head' # Null THEN [prev EXCEPT ![head'] = Null] ELSE prev
  /\ tail' = IF head' = Null THEN Null ELSE tail
  /\ UNCHANGED next

\* linked_list_remove: from the tail.
Take ==
  /\ got' = tail
  /\ tail' = prev[tail]
  /\ next' = IF tail' # Null THEN [next EXCEPT ![tail'] = Null] ELSE next
  /\ head' = IF tail' # Null THEN head ELSE Null
  /\ UNCHANGED prev

\* What linked_list_flush finds, from the head on: whatever is in every set that has the
\* head and the next of each of its members.
Chained(set) ==
  /\ head # Null => head \in set
  /\ \A m \in set : next[m] = Null \/ next[m] \in set

Elements == {m \in Messages : \A set \in SUBSET Messages : Chained(set) => m \in set}

-----------------------------------------------------------------------------
\* msg_q.c, as the task uses it.

\* msg_q_snd.  A message the queue does not take is leaked; the receiver is
\* woken even if there was no memory for it.
msg_q_snd(m) ==
  /\ \/ /\ ~unblocked
        /\ Add(m)
        /\ sent' = Append(sent, m)
        /\ UNCHANGED lost
     \/ /\ lost' = lost \cup {m}
        /\ UNCHANGED <<list, sent>>
  /\ signalled' = (signalled \/ (worker = "waiting" /\ ~unblocked))
  /\ UNCHANGED unblocked

\* A mutant of msg_q_unblock: the receiver is not woken.
UnblockSilently ==
  /\ unblocked' = TRUE
  /\ UNCHANGED <<list, signalled>>

msg_q_unblock ==
  /\ unblocked' = TRUE
  /\ signalled' = (signalled \/ worker = "waiting")
  /\ UNCHANGED list

\* The end of msg_q_rcv, with the mutex held: wait on, or take a message if
\* there is one.
Receive ==
  /\ signalled' = FALSE
  /\ IF tail = Null
     THEN /\ worker' = IF unblocked THEN "post" ELSE "waiting"
          /\ UNCHANGED <<list, got>>
     ELSE /\ Take
          /\ worker' = "handle"
  /\ UNCHANGED unblocked

-----------------------------------------------------------------------------
\* The thread: LocThreadDelegate::threadMain and MsgTask::run.

Thread == UNCHANGED <<mThread, owner>>

\* It asks what to run, and whether it still should.
threadMain ==
  /\ worker = "start"
  /\ worker' = IF mRunnable THEN "loop" ELSE "destroy"
  /\ unstarted' = ~mRunnable
  /\ TouchOnly({"delegate"})
  /\ UNCHANGED <<msgQ, delegate, got, traffic, handled>>
  /\ Thread

Loop ==
  /\ worker = "loop"
  /\ worker' = IF mRunnable THEN "receive" ELSE "clear"
  /\ TouchOnly({"delegate"})
  /\ UNCHANGED <<msgQ, delegate, got, traffic, handled, unstarted>>
  /\ Thread

\* msg_q_rcv: a queue that is unblocked gives nothing any more.
msg_q_rcv ==
  /\ worker = "receive"
  /\ IF unblocked THEN worker' = "post" /\ UNCHANGED <<msgQ, got>> ELSE Receive
  /\ TouchOnly({"task"})
  /\ UNCHANGED <<delegate, traffic, handled, unstarted>>
  /\ Thread

\* The wait ends; it may do so without a signal.
WakeUp ==
  /\ worker = "waiting"
  /\ Receive
  /\ TouchOnly({"task"})
  /\ UNCHANGED <<delegate, traffic, handled, unstarted>>
  /\ Thread

\* The message is handled, which may send another, ...
Proc ==
  /\ worker = "handle"
  /\ handled' = Append(handled, got)
  /\ worker' = "handled"
  /\ \/ \E m \in Messages \ (Range(sent) \cup lost) : msg_q_snd(m)
     \/ UNCHANGED <<msgQ, traffic>>
  /\ TouchOnly({got, "task"})
  /\ UNCHANGED <<delegate, got, unstarted>>
  /\ Thread

\* ... and deleted.
Handled ==
  /\ worker = "handled"
  /\ worker' = "loop"
  /\ got' = Null
  /\ FreeOnly({got})
  /\ UNCHANGED <<msgQ, delegate, traffic, handled, unstarted>>
  /\ Thread

\* run was the last: postrun does nothing.
Post ==
  /\ worker = "post"
  /\ worker' = "clear"
  /\ TouchOnly({"delegate"})
  /\ UNCHANGED <<msgQ, delegate, got, traffic, handled, unstarted>>
  /\ Thread

Clear ==
  /\ worker = "clear"
  /\ worker' = "delete"
  /\ mRunnable' = FALSE
  /\ TouchOnly({"delegate"})
  /\ UNCHANGED <<msgQ, mJoinable, mRefCount, got, traffic, handled, unstarted>>
  /\ Thread

\* MsgTask::~MsgTask: flush and destroy the queue.
DeleteTask ==
  /\ FreeOnly({"task"} \cup Elements)
  /\ head' = Null
  /\ tail' = Null
  /\ UNCHANGED <<next, prev, unblocked, signalled>>

DeleteRunnable ==
  /\ worker = "delete"
  /\ worker' = "destroy"
  /\ DeleteTask
  /\ UNCHANGED <<delegate, got, traffic, handled, unstarted>>
  /\ Thread

\* A mutant of LastToGo: the count is looked at before it is lowered, and taken for the
\* one that is left.
OtherIsLeft == mRefCount = 2

\* LocThreadDelegate::destroy: whoever comes last deletes the delegate.
LastToGo == mRefCount = 1

LetGo ==
  /\ mRefCount' = mRefCount - 1
  /\ TouchOnly({"delegate"})

Destroy ==
  /\ worker = "destroy"
  /\ mRefCount > 0
  /\ worker' = IF LastToGo THEN "last" ELSE "gone"
  /\ LetGo
  /\ UNCHANGED <<msgQ, mRunnable, mJoinable, got, traffic, handled, unstarted>>
  /\ Thread

DeleteDelegate ==
  /\ worker = "last"
  /\ worker' = "gone"
  /\ FreeOnly({"delegate"})
  /\ UNCHANGED <<msgQ, delegate, got, traffic, handled, unstarted>>
  /\ Thread

Worker ==
  \/ threadMain
  \/ Loop
  \/ msg_q_rcv
  \/ WakeUp
  \/ Proc
  \/ Handled
  \/ Post
  \/ Clear
  \/ DeleteRunnable
  \/ Destroy
  \/ DeleteDelegate

-----------------------------------------------------------------------------
\* The owner.

Mine == UNCHANGED <<worker, got, handled, unstarted>>

\* MsgTask::MsgTask.  A thread that cannot be created leaves no delegate and
\* no LocThread.
Construct ==
  /\ owner = "new"
  /\ owner' = "running"
  /\ \E joinable \in BOOLEAN :
       /\ mThread' = TRUE
       /\ mRunnable' = TRUE
       /\ mJoinable' = joinable
       /\ mRefCount' = 2
       /\ worker' = "start"
  /\ UNCHANGED <<msgQ, got, traffic, handled, fate, unstarted>>

ConstructWithoutThread ==
  /\ owner = "new"
  /\ owner' = "running"
  /\ FreeOnly({"thread", "delegate"})
  /\ UNCHANGED <<msgQ, mThread, delegate, traffic>>
  /\ Mine

\* MsgTask::sendMsg, from any thread.
sendMsg ==
  /\ owner = "running"
  /\ \E m \in Messages \ (Range(sent) \cup lost) : msg_q_snd(m)
  /\ TouchOnly({"task"})
  /\ UNCHANGED <<mThread, delegate, owner>>
  /\ Mine

\* MsgTask::destroy.
destroy ==
  /\ owner = "running"
  /\ owner' = IF mThread THEN "disown" ELSE "delete"
  /\ msg_q_unblock
  /\ TouchOnly({"task"})
  /\ UNCHANGED <<mThread, delegate, traffic>>
  /\ Mine

\* The thread may have deleted the task by now, and this writes to it.
Disown ==
  /\ owner = "disown"
  /\ owner' = IF mJoinable THEN "stop" ELSE "destroy"
  /\ mThread' = FALSE
  /\ misused' = misused \cup IF deleted["task"] > 0 THEN {"mThread"} ELSE {}
  /\ UNCHANGED <<msgQ, delegate, traffic, deleted>>
  /\ Mine

DeleteThis ==
  /\ owner = "delete"
  /\ owner' = "gone"
  /\ DeleteTask
  /\ UNCHANGED <<mThread, delegate, traffic>>
  /\ Mine

\* LocThreadDelegate::stop: the thread is to end, and is waited for.
stop ==
  /\ owner = "stop"
  /\ owner' = "join"
  /\ mRunnable' = FALSE
  /\ mJoinable' = FALSE
  /\ TouchOnly({"delegate"})
  /\ UNCHANGED <<msgQ, mThread, mRefCount, traffic>>
  /\ Mine

Join ==
  /\ owner = "join"
  /\ worker = "gone"
  /\ owner' = "destroy"
  /\ UNCHANGED <<msgQ, mThread, delegate, traffic, fate>>
  /\ Mine

OwnerDestroys ==
  /\ owner = "destroy"
  /\ mRefCount > 0
  /\ owner' = IF LastToGo THEN "last" ELSE "leave"
  /\ LetGo
  /\ UNCHANGED <<msgQ, mThread, mRunnable, mJoinable, traffic>>
  /\ Mine

\* The end of LocThread::~LocThread.
Leave ==
  /\ owner \in {"last", "leave"}
  /\ owner' = "gone"
  /\ FreeOnly({"thread"} \cup IF owner = "last" THEN {"delegate"} ELSE {})
  /\ UNCHANGED <<msgQ, mThread, delegate, traffic>>
  /\ Mine

Destroying ==
  \/ Disown
  \/ DeleteThis
  \/ stop
  \/ Join
  \/ OwnerDestroys
  \/ Leave

TaskNext ==
  \/ Construct
  \/ ConstructWithoutThread
  \/ sendMsg
  \/ destroy
  \/ Destroying
  \/ Worker

\* A handler comes to its end, a destruction goes on, and a thread that runs or
\* has been woken goes on.
TaskFairness ==
  /\ WF_taskVars(Destroying)
  /\ WF_taskVars(worker # "waiting" /\ Worker)
  /\ WF_taskVars(signalled /\ WakeUp)

TaskSpec == TaskInit /\ [][TaskNext]_taskVars /\ TaskFairness

-----------------------------------------------------------------------------
\* Messages are handled in the order they were sent, each once, however the
\* list that keeps them fills, runs empty and fills again (linked_list_add,
\* linked_list_remove), and whoever sends them.
InOrder == IsPrefix(handled, sent)

\* Nothing is deleted twice, and nothing is used that is deleted, whoever of the owner and
\* the thread goes last (LocThreadDelegate::destroy, MsgTask::destroy) and whatever is on the
\* list by then; but for destroy's write to mThread of a task its thread may have deleted.
DeletedOnce ==
  /\ misused \subseteq {"mThread"}
  /\ \A x \in Objects : deleted[x] <= 1

Ended ==
  /\ owner = "gone"
  /\ worker \in {"none", "gone"}
  /\ misused \subseteq {"mThread"}
  /\ deleted["thread"] = 1
  /\ deleted["delegate"] = 1
  /\ \A x \in ({"task"} \cup Range(sent)) \ Range(handled) : deleted[x] = IF unstarted THEN 0 ELSE 1
  /\ \A m \in Range(handled) : deleted[m] = 1

\* A task that is destroyed comes to its end whatever its thread is doing: the
\* thread wakes and goes, and the task, the delegate and every message on the
\* list are deleted once and not used again.  Excepted are destroy's write to
\* mThread, and a joinable thread that was stopped before it looked at what to
\* run: nobody deletes the task then, nor its messages.
EndsWell == owner \notin {"new", "running"} ~> []Ended
=============================================================================
