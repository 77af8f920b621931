--------------------------------- MODULE MrApi ---------------------------------
(***************************************************************************)
(* The public interface of src/src/mr.c and what mr_init and mr_cleanup of *)
(* src/src/core.c do for it: attributes, handles and the memory behind     *)
(* them, under a caller that calls them in any order, keeps the log file's *)
(* name in a buffer it writes again, sets fields of the public structure   *)
(* mr_attr_t itself, and destroys a handle once after every mr_create,     *)
(* also after one that failed (handles start as NULL).  malloc and strdup  *)
(* return any block that is not in use, one that was freed before too: a   *)
(* handle that was not reset may point into the memory of another.         *)
(***************************************************************************)
EXTENDS Naturals

CONSTANTS
  Handles,    \* the caller's variables of type mr_t
  Sizes,      \* values for thread counts and queue sizes
  Names,      \* log file names
  Default,    \* MR_DEFAULT_LOG_FILE
  Blocks,     \* the addresses malloc and strdup hand out (bound: how many)
  MaxFaults,  \* bound: failing allocations
  NULL

ASSUME SizesAssumption == Sizes \subseteq Nat /\ 1 \in Sizes
ASSUME DefaultAssumption == Default \in Names
ASSUME BoundsAssumption == MaxFaults \in Nat

\* Strings: what strdup made, the caller's buffer and the literal MR_DEFAULT_LOG_FILE.
Buffer == <<"caller">>
Literal == <<"literal">>
Strings == Blocks \cup {Buffer, Literal}
ASSUME NullAssumption == Blocks \cap {Buffer, Literal} = {} /\ NULL \notin Strings

VARIABLES
  attr,      \* the caller's mr_attr_t
  text,      \* what each string holds
  structs,   \* blocks allocated and not freed, with a struct mr
  strings,   \* and those with a copy of a name
  conf,      \* mr->attr of each structure
  handle,    \* the structure each handle points to, or NULL
  owned,     \* handles the caller has still to destroy
  ready,     \* those among them whose mr_create returned 0
  asked,     \* the name the attributes gave when a handle was created
  crash,     \* the program has used memory that is not there: C says nothing of the rest
  gaps,      \* calls that lead to that: see NoCrash
  faultsLeft

heap    == <<structs, strings, conf>>
handles == <<handle, owned, ready, asked>>
status  == <<crash, gaps, faultsLeft>>
memory  == <<text, heap, handles, status>>
vars    == <<attr, memory>>

Attrs == [mapper_threads : Sizes, reducer_threads : Sizes, queue_size : Sizes,
          log_file : Strings \cup {NULL}]
CallerAttrs == [mapper_threads : Sizes, reducer_threads : Sizes, queue_size : Sizes,
                log_file : {Buffer, Literal, NULL}]
Defaults == [mapper_threads |-> 1, reducer_threads |-> 1, queue_size |-> 1,
             log_file |-> Literal]

\* Before mr_attr_init the structure holds anything; the defaults stand for valid sizes.
Init ==
  /\ attr \in CallerAttrs
  /\ text = [s \in Strings |-> Default]
  /\ structs = {} /\ strings = {} /\ conf = [b \in Blocks |-> Defaults]
  /\ handle = [h \in Handles |-> NULL] /\ owned = {} /\ ready = {}
  /\ asked = [h \in Handles |-> Default]
  /\ crash = FALSE /\ gaps = {} /\ faultsLeft = MaxFaults

--------------------------------------------------------------------------------
(***************************************************************************)
(* Attributes                                                              *)
(***************************************************************************)
mr_attr_check_size(n) == n >= 1

mr_attr_check(a) ==
  /\ mr_attr_check_size(a.mapper_threads)
  /\ mr_attr_check_size(a.reducer_threads)
  /\ mr_attr_check_size(a.queue_size)

mr_attr_init == ~crash /\ attr' = Defaults /\ UNCHANGED memory

\* A setter that refuses its argument (EINVAL) changes nothing.
mr_attr_set(field, n) ==
  /\ ~crash /\ mr_attr_check_size(n)
  /\ attr' = [attr EXCEPT ![field] = n]
  /\ UNCHANGED memory

\* The pointer is kept, not the name; NULL means the default.
mr_attr_set_log_file(path) ==
  /\ ~crash
  /\ attr' = [attr EXCEPT !.log_file = IF path = NULL THEN Literal ELSE path]
  /\ UNCHANGED memory

\* The caller writes a field of the structure, or its buffer.
CallerSetsField ==
  /\ ~crash /\ attr' \in CallerAttrs
  /\ UNCHANGED memory
CallerWritesBuffer ==
  /\ ~crash
  /\ \E n \in Names : text' = [text EXCEPT ![Buffer] = n]
  /\ UNCHANGED <<attr, heap, handles, status>>

Attributes ==
  \/ mr_attr_init
  \/ \E n \in Sizes : \/ mr_attr_set("mapper_threads", n)
                      \/ mr_attr_set("reducer_threads", n)
                      \/ mr_attr_set("queue_size", n)
  \/ \E path \in {Buffer, NULL} : mr_attr_set_log_file(path)
  \/ CallerSetsField \/ CallerWritesBuffer

--------------------------------------------------------------------------------
(***************************************************************************)
(* Handles                                                                 *)
(***************************************************************************)
\* Mutant: the pointer is copied, not the string.
mr_init_shallow(b, s) ==
  /\ conf' = [conf EXCEPT ![b] = attr]
  /\ structs' = structs \cup {b}
  /\ UNCHANGED <<strings, text>>

\* mr_init of the structure at b, when strdup returns s.
mr_init(b, s) ==
  /\ conf' = [conf EXCEPT ![b] = [attr EXCEPT !.log_file = s]]
  /\ text' = [text EXCEPT ![s] = text[attr.log_file]]
  /\ structs' = structs \cup {b} /\ strings' = strings \cup {s}

Fail == faultsLeft > 0 /\ faultsLeft' = faultsLeft - 1

\* What malloc can return.
malloc == Blocks \ (structs \cup strings)

\* mr_create, when the arguments pass, in a caller that owes no mr_destroy for h.  When
\* malloc fails *mr is NULL; when strdup fails the structure is freed and *mr points to
\* where it was; strdup of a NULL pointer stops the program.
mr_create(h) ==
  /\ ~crash /\ h \notin owned
  /\ mr_attr_check(attr)
  /\ \/ /\ attr.log_file # NULL
        /\ \E b, s \in malloc :
             b # s /\ mr_init(b, s) /\ handle' = [handle EXCEPT ![h] = b]
        /\ asked' = [asked EXCEPT ![h] = text[attr.log_file]]
        /\ ready' = ready \cup {h}
        /\ UNCHANGED status
     \/ /\ attr.log_file = NULL
        /\ crash' = TRUE /\ gaps' = gaps \cup {"null"}
        /\ UNCHANGED <<text, heap, handle, ready, asked, faultsLeft>>
     \/ /\ Fail
        /\ handle' = [handle EXCEPT ![h] = NULL]
        /\ UNCHANGED <<text, heap, ready, asked, crash, gaps>>
     \/ /\ attr.log_file # NULL /\ Fail
        /\ \E b \in malloc : handle' = [handle EXCEPT ![h] = b]
        /\ UNCHANGED <<text, heap, ready, asked, crash, gaps>>
  /\ owned' = owned \cup {h}
  /\ UNCHANGED attr

\* mr_create refuses its arguments (EINVAL), the attributes or a NULL among the others, and
\* leaves the handle as it is: NULL, or what an earlier mr_destroy has freed.
mr_create_invalid(h) ==
  /\ ~crash /\ h \notin owned
  /\ owned' = owned \cup {h}
  /\ UNCHANGED <<attr, text, heap, handle, ready, asked, status>>

\* mr_start reads the structure, and the name in mr_log_init.
mr_start(h) ==
  /\ ~crash /\ h \in ready
  /\ LET b == handle[h] IN
       crash' = ~(b \in structs /\ conf[b].log_file \in strings \cup {Buffer, Literal})
  /\ UNCHANGED <<attr, text, heap, handles, gaps, faultsLeft>>

\* Mutant: the string is not freed.
mr_cleanup_forgets(b) == {b}

\* What mr_cleanup and mr_destroy pass to free.
mr_cleanup(b) == {conf[b].log_file, b}

\* What free takes away; nobody is to look at what the blocks held.
Free(blocks) ==
  /\ structs' = structs \ blocks /\ strings' = strings \ blocks
  /\ conf' = [b \in Blocks |-> IF b \in blocks THEN Defaults ELSE conf[b]]
  /\ text' = [s \in Strings |-> IF s \in blocks THEN Default ELSE text[s]]

\* The structure at b is read, and freed with its string; the program cannot survive that
\* when no structure is there.
Destroy(b) ==
  IF b \in structs /\ mr_cleanup(b) \subseteq structs \cup strings
  THEN Free(mr_cleanup(b)) /\ UNCHANGED crash
  ELSE crash' = TRUE /\ UNCHANGED <<text, heap>>

\* Mutant: NULL is not looked for.
mr_destroy_unchecked(h) ==
  /\ ~crash /\ h \in owned
  /\ owned' = owned \ {h} /\ ready' = ready \ {h}
  /\ Destroy(handle[h])
  /\ UNCHANGED <<attr, handle, asked, gaps, faultsLeft>>

\* mr_destroy: nothing for NULL; else cleanup and free.  Only the function's copy of the
\* handle becomes NULL.  When mr_create did not return 0 the structure, if there is one, is
\* that of another handle: the second gap.
mr_destroy(h) ==
  /\ ~crash /\ h \in owned
  /\ owned' = owned \ {h} /\ ready' = ready \ {h}
  /\ IF handle[h] = NULL THEN UNCHANGED <<text, heap, crash, gaps>>
     ELSE /\ Destroy(handle[h])
          /\ gaps' = IF h \in ready THEN gaps ELSE gaps \cup {"dangling"}
  /\ UNCHANGED <<attr, handle, asked, faultsLeft>>

Next ==
  \/ Attributes
  \/ \E h \in Handles : mr_create(h) \/ mr_create_invalid(h) \/ mr_start(h) \/ mr_destroy(h)

Spec == Init /\ [][Next]_vars

--------------------------------------------------------------------------------
(***************************************************************************)
(* Properties                                                              *)
(***************************************************************************)

\* Every variable keeps its type.
TypeOK ==
  /\ attr \in CallerAttrs /\ text \in [Strings -> Names]
  /\ structs \subseteq Blocks /\ strings \subseteq Blocks
  /\ conf \in [Blocks -> Attrs]
  /\ handle \in [Handles -> Blocks \cup {NULL}]
  /\ ready \subseteq owned /\ owned \subseteq Handles
  /\ asked \in [Handles -> Names] /\ crash \in BOOLEAN
  /\ gaps \subseteq {"null", "dangling"} /\ faultsLeft \in 0 .. MaxFaults

\* A job only ever runs with at least one thread of each kind and a queue of at least one
\* slot, whatever the caller wrote into the attributes before or after mr_create: what
\* MrQueue, MrMapper and MrReducer assume of their constants.
HandlesValid ==
  \A h \in ready : LET c == conf[handle[h]] IN
    c.mapper_threads >= 1 /\ c.reducer_threads >= 1 /\ c.queue_size >= 1

\* A job logs to the file named when its handle was created, although the attributes only
\* point to a buffer that the caller may have written again since.
LogFileFixed ==
  \A h \in ready : text[conf[handle[h]].log_file] = asked[h]

\* The memory behind a handle is its own, although freed blocks are handed out again and
\* stale handles still point to them: structure and string are there, and no two handles
\* share them.
Separate ==
  /\ \A h \in ready : handle[h] \in structs /\ conf[handle[h]].log_file \in strings
  /\ \A h, k \in ready : h # k =>
       {handle[h], conf[handle[h]].log_file} \cap {handle[k], conf[handle[k]].log_file} = {}

\* A handle keeps what it was created with, in memory of its own, as long as the caller has
\* not met a gap (see NoCrash); and every variable keeps its type.
JobsConsistent == TypeOK /\ (gaps = {} => HandlesValid /\ LogFileFixed /\ Separate)

\* No call touches memory that is not there, however calls, refusals and failed allocations
\* follow each other, before one of two gaps is met: mr_create with a log_file of NULL,
\* which mr_attr_check lets pass; mr_destroy after a failed strdup, or after a refused
\* mr_create on a handle that was in use before, where the handle points to a block that
\* was freed, and may be another handle's by now.
NoCrash == crash => gaps # {}

\* Memory is allocated only for handles the caller has still to destroy.
NothingLeaks ==
  \A b \in structs \cup strings :
    \E h \in ready : handle[h] \in structs /\ b \in {handle[h], conf[handle[h]].log_file}
================================================================================
