------------------------------- MODULE Cache -------------------------------
(***************************************************************************)
(* The data cache, src/cache/cache.c: a singly linked list of named data   *)
(* with a head and a tail pointer.  add and del hold the pool's userLock;  *)
(* get, set and getSize walk the list without it.  A set that changes a    *)
(* value hands the data's listener to the thread pool, which keeps the     *)
(* promises of TaskPool.                                                   *)
(*                                                                         *)
(* Reads of the shared list and of the words of a value are steps of their *)
(* own; what add and del do between taking and releasing userLock is one   *)
(* step, because the walkers see only one write of it (dataHead or a next  *)
(* field; a freed node is freed after it was unlinked).                    *)
(***************************************************************************)
EXTENDS RttIpc, FiniteSets

CONSTANTS Adders, Deleters, Getters, Setters, Sizers,   \* who calls what
          Name, Word,
          Words,        \* number of words of every value (length)
          Listened,     \* the names added with a valueChangedListener
          Node,         \* the memory for nodes; bounds the list
          MaxChanges,   \* bound: listener tasks in a behaviour, and data that missed one
          Null

Thread == Adders \cup Deleters \cup Getters \cup Setters \cup Sizers
MaxNodes == Cardinality(Node)
MaxWalk == MaxNodes + 1       \* bound: what getSize counts when others delete as it walks
Value == [1 .. Words -> Word]

ASSUME CacheAssumption ==
    /\ NoThread \notin Thread /\ Null \notin Node
    /\ Words \in Nat \ {0} /\ IsFiniteSet(Node) /\ MaxChanges \in Nat
    /\ Listened \subseteq Name

VARIABLES dataHead, dataTail,
          heap,         \* the allocated CacheData: name, value, next
          userLock,
          call,         \* the call each thread is in, with its locals
          fault,        \* somebody read through NULL or a freed node
          seen,         \* what the listener of a node saw last
          missed,       \* the nodes whose last change the pool had no memory for
          struck,       \* a caller was given cause to fault, see NoFault
          shrunk,       \* the calls of getSize during which data were deleted
          submitted, pending, running   \* the thread pool

list == << dataHead, dataTail, heap >>
live == DOMAIN heap
pool == << submitted, pending, running >>
history == << seen, missed, struck, shrunk >>
vars == << list, pool, userLock, call, fault, history >>

(* A listener task: the k-th one, for a node. *)
Task == (1 .. MaxChanges) \X Node
Pool == INSTANCE TaskPool

Idle == [at |-> "idle"]

Init ==
    /\ dataHead = Null /\ dataTail = Null
    /\ heap = << >>
    /\ userLock = FreeMutex
    /\ call = [t \in Thread |-> Idle]
    /\ fault = FALSE
    /\ seen = << >> /\ missed = {} /\ struck = FALSE /\ shrunk = {}
    /\ Pool!Init

At(t, place) == call[t].at = place /\ t \notin ToSet(userLock.waiting)
Goto(t, locals) ==
    call' = [call EXCEPT ![t] = [f \in DOMAIN locals \cup DOMAIN @ |->
                                    IF f \in DOMAIN locals THEN locals[f] ELSE @[f]]]
Return(t) == call' = [call EXCEPT ![t] = Idle]

(* Reading *n: a null pointer or a freed node is a fault and ends the call. *)
Fault(t) == fault' = TRUE /\ Return(t)

NobodyIn(places) == \A t \in Thread : call[t].at \notin places
DelPlaces == {"delLock", "delDo"}
Reading == {"has", "search", "get", "set", "write", "notify"}

(* The nodes met when next is followed from n, Null when there are no more. *)
Follow(n) ==
    LET nth[k \in 0 .. MaxNodes] ==
            IF k = 0 THEN n ELSE IF nth[k - 1] = Null THEN Null ELSE heap[nth[k - 1]].next
    IN  nth

OnList == {Follow(dataHead)[k] : k \in 0 .. MaxNodes} \ {Null}

NamesOnList == {heap[n].name : n \in OnList}

(* Whoever but t will follow a pointer to n: a call that holds one in its     *)
(* local, a listener that waits for its turn or runs.                         *)
Awaited(n, t) ==
    \/ \E u \in Thread \ {t} : call[u].at \in Reading \cup DelPlaces \cup {"size"} /\ call[u].data = n
    \/ \E k \in ToSet(pending) \cup running : k[2] = n

(* Whoever read dataHead as NULL and will find, reading it again, that it is not. *)
FoundNull == \E u \in Thread : call[u].at \in DelPlaces \cup {"has"} /\ call[u].data = Null

-----------------------------------------------------------------------------
(* Mutated forms of definitions below, each with one mistake. *)
UnlinkedTailKept(data) ==
    [gone |-> data, head |-> heap[data].next, tail |-> dataTail, heap |-> heap]

SearchPastEnd(t) ==
    LET c == call[t] IN
    /\ At(t, "search")
    /\ IF c.data \notin live THEN Fault(t)
       ELSE /\ UNCHANGED fault
            /\ IF heap[c.data].name = c.name THEN Goto(t, [at |-> c.op])
               ELSE Goto(t, [data |-> heap[c.data].next])
    /\ UNCHANGED << list, pool, userLock, history >>

SetCompareLastWord(t) ==
    LET c == call[t] IN
    /\ At(t, "set") /\ c.data \in live
    /\ IF c.i > Words THEN Goto(t, [at |-> "notify"])
       ELSE Goto(t, [at |-> "write", changed |-> heap[c.data].value[c.i] # c.value[c.i]])
    /\ UNCHANGED << list, pool, userLock, fault, history >>

DelSearchAtNamed(data, nm) ==
    LET nth == Follow(data)
        named == {k \in 0 .. MaxNodes : nth[k] # Null /\ heap[nth[k]].name = nm}
    IN  IF named = {} THEN Null ELSE nth[CHOOSE k \in named : \A j \in named : k <= j]

SizeCallFromOne(t) ==
    /\ call[t] = Idle
    /\ Goto(t, [at |-> "size", data |-> dataHead, length |-> 1, atStart |-> Cardinality(OnList)])
    /\ shrunk' = shrunk \ {t}
    /\ UNCHANGED << list, pool, userLock, fault, seen, missed, struck >>
-----------------------------------------------------------------------------
(* addData *)
AddCall(t, nm, v) ==
    /\ call[t] = Idle
    /\ userLock' = MutexTake(userLock, t)
    /\ Goto(t, [at |-> "add", name |-> nm, value |-> v])
    /\ UNCHANGED << list, pool, fault, history >>

(* A name that is on the list is refused; else a new node becomes the last. *)
Add(t) ==
    LET c == call[t] IN
    /\ At(t, "add")
    /\ \/ /\ \E n \in OnList : heap[n].name = c.name
          /\ UNCHANGED << list, history >>
       \/ /\ \A n \in OnList : heap[n].name # c.name
          /\ \E n \in Node \ live :
                /\ heap' = [m \in live \cup {n} |->
                        IF m = n THEN [name |-> c.name, value |-> c.value, next |-> Null]
                        ELSE IF dataHead # Null /\ m = dataTail THEN [heap[m] EXCEPT !.next = n]
                        ELSE heap[m]]
                /\ dataHead' = IF dataHead = Null THEN n ELSE dataHead
                /\ dataTail' = n
                /\ seen' = [m \in live \cup {n} |-> IF m = n THEN c.value ELSE seen[m]]
                /\ struck' = (struck \/ (dataHead = Null /\ FoundNull))
                /\ UNCHANGED << missed, shrunk >>
    /\ userLock' = MutexRelease(userLock, t)
    /\ Return(t)
    /\ UNCHANGED << pool, fault >>

(* delData reads dataHead before it takes the lock. *)
DelCall(t, nm) ==
    /\ call[t] = Idle
    /\ Goto(t, [at |-> "delLock", name |-> nm, data |-> dataHead])
    /\ UNCHANGED << list, pool, userLock, fault, history >>

DelLock(t) ==
    /\ At(t, "delLock")
    /\ userLock' = MutexTake(userLock, t)
    /\ Goto(t, [at |-> "delDo"])
    /\ UNCHANGED << list, pool, fault, history >>

(* Where the search of delData for name nm stops: at the first node when it *)
(* has the name, else at a node whose successor has it, else nowhere.       *)
DelSearch(data, nm) ==
    LET nth == Follow(data)
        before == {k \in 0 .. MaxNodes - 1 : nth[k + 1] # Null /\ heap[nth[k + 1]].name = nm}
    IN  IF heap[data].name = nm THEN data
        ELSE IF before = {} THEN Null
        ELSE nth[CHOOSE k \in before : \A j \in before : k <= j]

(* The list after the deletion, given where the search stopped, and the node  *)
(* that is freed.  A search that stopped at the head removes the head.  At    *)
(* the end of a longer list next is cleared before it is followed, so that    *)
(* free reads through NULL.                                                   *)
Unlinked(data) ==
    IF data = dataHead
    THEN IF dataHead = dataTail
         THEN [gone |-> data, head |-> Null, tail |-> Null, heap |-> heap]
         ELSE [gone |-> data, head |-> heap[data].next, tail |-> dataTail, heap |-> heap]
    ELSE IF heap[data].next = dataTail
    THEN [gone |-> Null, head |-> dataHead, tail |-> data,
          heap |-> [heap EXCEPT ![data].next = Null]]
    ELSE [gone |-> heap[data].next, head |-> dataHead, tail |-> dataTail,
          heap |-> [heap EXCEPT ![data].next = heap[heap[data].next].next]]

Del(t) ==
    LET c == call[t]
        data == DelSearch(c.data, c.name)
    IN
    /\ At(t, "delDo")
    /\ \/ /\ dataHead = Null
          /\ Return(t) /\ UNCHANGED << list, fault, history >>
       \/ /\ dataHead # Null
          /\ c.data \in live => data # Null /\ data # dataHead /\ heap[data].next = Null
          /\ Fault(t) /\ UNCHANGED << list, history >>
       \/ /\ dataHead # Null /\ c.data \in live /\ data = Null
          /\ Return(t) /\ UNCHANGED << list, fault, history >>
       \/ /\ dataHead # Null /\ c.data \in live /\ data # Null
          /\ data = dataHead \/ heap[data].next # Null
          /\ LET r == Unlinked(data) IN
             /\ dataHead' = r.head /\ dataTail' = r.tail
             /\ heap' = [n \in live \ {r.gone} |-> r.heap[n]]
             /\ seen' = [n \in live \ {r.gone} |-> seen[n]] /\ missed' = missed \ {r.gone}
             /\ struck' = (struck \/ r.gone = Null \/ Awaited(r.gone, t))
             /\ shrunk' = {u \in Thread : call[u].at = "size"}
             /\ IF r.gone = Null THEN Fault(t) ELSE Return(t) /\ UNCHANGED fault
    /\ userLock' = MutexRelease(userLock, t)
    /\ UNCHANGED pool
-----------------------------------------------------------------------------
(* hasData, called by get and set: dataHead is read twice. *)
HasCall(t, op, nm, v) ==
    /\ call[t] = Idle
    /\ Goto(t, [at |-> "has", op |-> op, name |-> nm, value |-> v, data |-> dataHead,
                i |-> 1, changed |-> FALSE])
    /\ UNCHANGED << list, pool, userLock, fault, history >>

HasHead(t) ==
    /\ At(t, "has")
    /\ IF dataHead = Null THEN Return(t) ELSE Goto(t, [at |-> "search"])
    /\ UNCHANGED << list, pool, userLock, fault, history >>

Search(t) ==
    LET c == call[t] IN
    /\ At(t, "search")
    /\ IF c.data \notin live THEN Fault(t)
       ELSE /\ UNCHANGED fault
            /\ IF heap[c.data].name = c.name THEN Goto(t, [at |-> c.op])
               ELSE IF heap[c.data].next = Null THEN Return(t)
               ELSE Goto(t, [data |-> heap[c.data].next])
    /\ UNCHANGED << list, pool, userLock, history >>

(* getValue copies word by word. *)
GetWord(t) ==
    LET c == call[t] IN
    /\ At(t, "get")
    /\ IF c.data \notin live THEN Fault(t)
       ELSE /\ UNCHANGED fault
            /\ IF c.i > Words THEN Return(t)
               ELSE Goto(t, [i |-> c.i + 1, value |-> [c.value EXCEPT ![c.i] = heap[c.data].value[c.i]]])
    /\ UNCHANGED << list, pool, userLock, history >>

(* setValue compares a word, and then writes it. *)
SetCompare(t) ==
    LET c == call[t] IN
    /\ At(t, "set")
    /\ IF c.data \notin live THEN Fault(t)
       ELSE /\ UNCHANGED fault
            /\ IF c.i > Words THEN Goto(t, [at |-> "notify"])
               ELSE Goto(t, [at |-> "write",
                             changed |-> c.changed \/ heap[c.data].value[c.i] # c.value[c.i]])
    /\ UNCHANGED << list, pool, userLock, history >>

SetWrite(t) ==
    LET c == call[t] IN
    /\ At(t, "write")
    /\ IF c.data \notin live
       THEN Fault(t) /\ UNCHANGED list
       ELSE /\ heap' = [heap EXCEPT ![c.data].value[c.i] = c.value[c.i]]
            /\ Goto(t, [at |-> "set", i |-> c.i + 1])
            /\ UNCHANGED << dataHead, dataTail, fault >>
    /\ UNCHANGED << pool, userLock, history >>

(* A value that was changed has its listener queued, if it has one; when the *)
(* pool has no memory for the task, addTask says so and nobody looks.         *)
SetNotify(t) ==
    LET c == call[t] IN
    /\ At(t, "notify")
    /\ \/ /\ c.changed /\ c.data \notin live
          /\ Fault(t) /\ UNCHANGED << pool, missed >>
       \/ /\ c.changed /\ c.data \in live /\ heap[c.data].name \in Listened
          /\ Cardinality(submitted) + Cardinality(missed) < MaxChanges
          /\ \/ /\ Pool!Submit(<< Cardinality(submitted) + 1, c.data >>)
                /\ missed' = missed \ {c.data}
             \/ missed' = missed \cup {c.data} /\ UNCHANGED pool
          /\ Return(t) /\ UNCHANGED fault
       \/ /\ c.changed => (c.data \in live /\ heap[c.data].name \notin Listened)
          /\ Return(t) /\ UNCHANGED << pool, fault, missed >>
    /\ UNCHANGED << list, userLock, seen, struck, shrunk >>

(* The pool runs a listener: it looks at the data it was queued for. *)
ListenerStart ==
    /\ Pool!Start
    /\ LET n == Head(pending)[2] IN
       IF n \in live THEN seen' = [seen EXCEPT ![n] = heap[n].value] /\ UNCHANGED fault
                     ELSE fault' = TRUE /\ UNCHANGED seen
    /\ UNCHANGED << list, userLock, call, missed, struck, shrunk >>

ListenerFinish(k) ==
    /\ Pool!Finish(k)
    /\ fault' = (fault \/ k[2] \notin live)
    /\ UNCHANGED << list, userLock, call, history >>
-----------------------------------------------------------------------------
(* getSize. *)
SizeCall(t) ==
    /\ call[t] = Idle
    /\ Goto(t, [at |-> "size", data |-> dataHead, length |-> 0, atStart |-> Cardinality(OnList)])
    /\ shrunk' = shrunk \ {t}
    /\ UNCHANGED << list, pool, userLock, fault, seen, missed, struck >>

SizeNext(t) ==
    LET c == call[t] IN
    /\ At(t, "size") /\ c.data # Null /\ c.length < MaxWalk
    /\ IF c.data \notin live THEN Fault(t)
       ELSE Goto(t, [data |-> heap[c.data].next, length |-> c.length + 1]) /\ UNCHANGED fault
    /\ UNCHANGED << list, pool, userLock, history >>

SizeReturn(t) ==
    /\ At(t, "size") /\ call[t].data = Null
    /\ Return(t)
    /\ UNCHANGED << list, pool, userLock, fault, history >>
-----------------------------------------------------------------------------
Step(t) == \/ Add(t) \/ DelLock(t) \/ Del(t) \/ HasHead(t) \/ Search(t) \/ GetWord(t)
           \/ SetCompare(t) \/ SetWrite(t) \/ SetNotify(t) \/ SizeNext(t) \/ SizeReturn(t)

Zero == CHOOSE v \in Value : TRUE

(* What happens after a fault is anybody's guess; the model stops there. *)
Next == /\ ~fault
        /\ \/ \E t \in Thread : Step(t)
           \/ \E t \in Adders, nm \in Name, v \in Value : AddCall(t, nm, v)
           \/ \E t \in Deleters, nm \in Name : DelCall(t, nm)
           \/ \E t \in Getters, nm \in Name : HasCall(t, "get", nm, Zero)
           \/ \E t \in Setters, nm \in Name, v \in Value : HasCall(t, "set", nm, v)
           \/ \E t \in Sizers : SizeCall(t)
           \/ ListenerStart
           \/ \E k \in Task : ListenerFinish(k)

Spec == Init /\ [][Next]_vars
-----------------------------------------------------------------------------
TypeOK ==
    /\ userLock \in Mutex(Thread) /\ (userLock.owner = NoThread <=> userLock.hold = 0)
    /\ fault \in BOOLEAN /\ struck \in BOOLEAN /\ shrunk \subseteq Thread
    /\ ~fault =>
        /\ live \subseteq Node
        /\ \A n \in live : heap[n] \in [name : Name, value : Value, next : Node \cup {Null}]
        /\ dataHead \in Node \cup {Null} /\ dataTail \in Node \cup {Null}
        /\ DOMAIN seen = live /\ missed \subseteq live

(* The list is a list until somebody faults, whatever adds and deletes raced *)
(* for the lock: head and tail are null together, the tail is the end of the *)
(* walk from the head (lines 139-148, 199-215), every allocated node is on   *)
(* it, no freed node is, and no name is on it twice.                         *)
ListWellFormed ==
    ~fault => LET nth == Follow(dataHead) IN
        /\ (dataHead = Null) <=> (dataTail = Null)
        /\ OnList = live
        /\ dataTail # Null => \E k \in 0 .. MaxNodes : nth[k] = dataTail /\ heap[dataTail].next = Null
        /\ \A m, n \in live : heap[m].name = heap[n].name => m = n

(* get, set, getSize and the listeners take no lock, and delData reads the   *)
(* head before it takes it (lines 71-88, 169, 248-252, 276-287, 305-314).    *)
(* They read through a null pointer or a freed node only after one of three  *)
(* events, which struck records: a delete frees a node that a call or a      *)
(* listener still points to; the first add falls between the two reads of    *)
(* dataHead in hasData or delData; the last of three or more is deleted,     *)
(* whose free reads through the next field just cleared (lines 209-216).     *)
(* Adds, and deletes of other nodes, disturb no walk.                        *)
NoFault == fault => struck

(* "it will call when the CacheData's value has changed" (cache.h:46): when  *)
(* no set and no listener is in progress, every listener has seen the value  *)
(* its data has now, whichever words each set changed (lines 277-288), but   *)
(* for a change that the pool had no memory to tell (line 287), and unless   *)
(* one of the events of NoFault came before.                                 *)
ListenersUpToDate ==
    (~struck /\ pending = << >> /\ running = {} /\ NobodyIn({"set", "write", "notify"})) =>
        \A n \in live \ missed : heap[n].name \in Listened => seen[n] = heap[n].value

(* getSize, which walks while others add, returns a length the list had at   *)
(* some time during the call, if nothing was deleted meanwhile and none of   *)
(* the events of NoFault came before.                                        *)
SizeWasTrue ==
    ~struck => \A t \in Thread \ shrunk : (call[t].at = "size" /\ call[t].data = Null) =>
        /\ call[t].atStart <= call[t].length
        /\ call[t].length <= Cardinality(OnList)

(* del takes away the data it names and nothing else: a name leaves the list *)
(* only in a del of that name (delData, lines 167-226).                      *)
OnlyNamedDeleted ==
    [][\A nm \in NamesOnList \ NamesOnList' :
            \E t \in Deleters : call[t].at = "delDo" /\ call[t].name = nm]_vars

(* What del does take away, unless one of the events of NoFault came before,  *)
(* however many adds and deletes wait for the lock or went in between          *)
(* (dataHead is read before it, line 169): nothing when the name is not there, *)
(* else exactly one data: the one it names, or the head when it names the      *)
(* second (lines 178-222).  No other call takes data away.                     *)
OneTaken(nm) ==
    IF nm \notin NamesOnList THEN live' = live
    ELSE \E n \in live :
            /\ live' = live \ {n}
            /\ \/ heap[n].name = nm
               \/ n = dataHead /\ heap[n].next \in live /\ heap[heap[n].next].name = nm

DelTakesOne ==
    [][struck' \/ /\ live \subseteq live' \/ \E t \in Thread : call[t].at = "delDo"
                  /\ \A t \in Thread : call[t].at = "delDo" /\ call'[t].at # "delDo" =>
                                           OneTaken(call[t].name)]_vars
=============================================================================
