------------------------------ MODULE MrApiProofs ------------------------------
(***************************************************************************)
(* Proofs about MrApi, for any number of handles, any sizes and names, and *)
(* any number of calls and failing allocations.                            *)
(***************************************************************************)
EXTENDS MrApi, TLAPS

\* The heap: a block is a structure or a string, a structure has its own string, and a
\* string belongs to a structure.
Paired ==
  /\ structs \cap strings = {}
  /\ \A b \in structs : conf[b].log_file \in strings
  /\ \A b, c \in structs : conf[b].log_file = conf[c].log_file => b = c
  /\ \A s \in strings : \E b \in structs : conf[b].log_file = s

\* A structure is somebody's.
Reached == \A b \in structs : \E h \in ready : handle[h] = b

\* As long as no gap is met, a handle whose mr_create returned 0 has a structure that no other
\* such handle has (a stale handle may point to it), with the name the attributes gave then
\* and sizes that mr_attr_check let pass.
OwnCopy ==
  gaps = {} =>
    /\ \A h \in ready :
         /\ handle[h] \in structs
         /\ text[conf[handle[h]].log_file] = asked[h]
         /\ mr_attr_check(conf[handle[h]])
    /\ \A h, k \in ready : handle[h] = handle[k] => h = k

\* The inductive invariant.
IInv == TypeOK /\ Paired /\ Reached /\ OwnCopy /\ NoCrash

--------------------------------------------------------------------------------
(***************************************************************************)
(* Attributes: they are the caller's, and no structure depends on them.    *)
(***************************************************************************)

\* The initial state.
LEMMA InitInv == Init => IInv
<1> SUFFICES ASSUME Init PROVE IInv
  OBVIOUS
<1> USE SizesAssumption, DefaultAssumption, BoundsAssumption, NullAssumption
    DEF SizesAssumption, DefaultAssumption, BoundsAssumption, NullAssumption
<1>1. Defaults \in Attrs
  BY DEF Defaults, Attrs, Strings
<1>2. TypeOK
  <2>1. text \in [Strings -> Names] /\ conf \in [Blocks -> Attrs]
    BY <1>1 DEF Init
  <2>2. handle \in [Handles -> Blocks \cup {NULL}] /\ asked \in [Handles -> Names]
    BY DEF Init
  <2>3. faultsLeft \in 0 .. MaxFaults
    BY DEF Init
  <2>4. crash \in BOOLEAN
    BY DEF Init
  <2> QED
    BY <2>1, <2>2, <2>3, <2>4 DEF Init, TypeOK
<1>3. Paired /\ Reached /\ OwnCopy /\ NoCrash
  BY DEF Init, Paired, Reached, OwnCopy, NoCrash
<1> QED
  BY <1>2, <1>3 DEF IInv

\* What the attribute calls write is a structure of the caller's.
LEMMA AttributesType ==
  ASSUME TypeOK, Attributes
  PROVE  /\ attr' \in CallerAttrs
         /\ text' \in [Strings -> Names]
         /\ \A b \in Blocks : text'[b] = text[b]
         /\ UNCHANGED <<heap, handles, status>>
<1> USE DEF TypeOK, memory
<1>1. CASE mr_attr_init
  BY <1>1, SizesAssumption
  DEF mr_attr_init, SizesAssumption, Defaults, CallerAttrs
<1>2. ASSUME NEW n \in Sizes,
             NEW f \in {"mapper_threads", "reducer_threads", "queue_size"},
             mr_attr_set(f, n)
      PROVE  attr' \in CallerAttrs /\ UNCHANGED memory
  BY <1>2 DEF mr_attr_set, CallerAttrs
<1>3. ASSUME NEW path \in {Buffer, NULL}, mr_attr_set_log_file(path)
      PROVE  attr' \in CallerAttrs /\ UNCHANGED memory
  BY <1>3 DEF mr_attr_set_log_file, CallerAttrs
<1>4. CASE CallerSetsField
  BY <1>4 DEF CallerSetsField
<1>5. CASE CallerWritesBuffer
  BY <1>5, NullAssumption DEF CallerWritesBuffer, Strings, NullAssumption
<1> QED
  BY <1>1, <1>2, <1>3, <1>4, <1>5 DEF Attributes

\* The attribute calls leave every handle as it is.
LEMMA AttributesStep == IInv /\ Attributes => IInv'
<1> SUFFICES ASSUME IInv, Attributes PROVE IInv'
  OBVIOUS
<1>1. /\ attr' \in CallerAttrs /\ text' \in [Strings -> Names]
      /\ \A b \in Blocks : text'[b] = text[b]
      /\ UNCHANGED <<heap, handles, status>>
  BY AttributesType DEF IInv
<1>2. TypeOK'
  BY <1>1 DEF IInv, TypeOK, heap, handles, status
<1>3. Paired' /\ Reached' /\ NoCrash'
  BY <1>1 DEF IInv, Paired, Reached, NoCrash, heap, handles, status
<1>4. \A h \in ready : handle[h] \in structs => text'[conf[handle[h]].log_file]
                                                 = text[conf[handle[h]].log_file]
  BY <1>1 DEF IInv, TypeOK, Paired
<1>5. OwnCopy'
  BY <1>1, <1>4 DEF IInv, OwnCopy, heap, handles, status, mr_attr_check, mr_attr_check_size
<1> QED
  BY <1>2, <1>3, <1>5 DEF IInv

--------------------------------------------------------------------------------
(***************************************************************************)
(* mr_create                                                               *)
(***************************************************************************)

\* The ways through mr_create.
CreateOk(h, b, s) ==
  /\ attr.log_file # NULL /\ mr_init(b, s) /\ handle' = [handle EXCEPT ![h] = b]
  /\ asked' = [asked EXCEPT ![h] = text[attr.log_file]]
  /\ ready' = ready \cup {h} /\ UNCHANGED status
CreateNull(h) ==
  /\ crash' = TRUE /\ gaps' = gaps \cup {"null"}
  /\ UNCHANGED <<text, heap, handle, ready, asked, faultsLeft>>
CreateFails(h) ==
  /\ Fail /\ \E b \in Blocks \cup {NULL} : handle' = [handle EXCEPT ![h] = b]
  /\ UNCHANGED <<text, heap, ready, asked, crash, gaps>>

\* mr_create takes one of them.
LEMMA CreateCases ==
  ASSUME NEW h \in Handles, mr_create(h)
  PROVE  /\ ~crash /\ h \notin owned /\ mr_attr_check(attr)
         /\ owned' = owned \cup {h} /\ UNCHANGED attr
         /\ \/ \E b, s \in Blocks \ (structs \cup strings) : b # s /\ CreateOk(h, b, s)
            \/ CreateNull(h) \/ CreateFails(h)
  BY DEF mr_create, malloc, CreateOk, CreateNull, CreateFails

\* The memory of mr_init: a structure with its own string.
LEMMA CreateOkStep ==
  ASSUME IInv, NEW h \in Handles, mr_create(h),
         NEW b \in Blocks \ (structs \cup strings), NEW s \in Blocks \ (structs \cup strings),
         b # s, CreateOk(h, b, s)
  PROVE  IInv'
<1>1. /\ ~crash /\ h \notin owned /\ mr_attr_check(attr)
      /\ owned' = owned \cup {h} /\ UNCHANGED attr
  BY CreateCases
<1>2. /\ conf' = [conf EXCEPT ![b] = [attr EXCEPT !.log_file = s]]
      /\ text' = [text EXCEPT ![s] = text[attr.log_file]]
      /\ structs' = structs \cup {b} /\ strings' = strings \cup {s}
      /\ asked' = [asked EXCEPT ![h] = text[attr.log_file]]
      /\ handle' = [handle EXCEPT ![h] = b] /\ ready' = ready \cup {h}
      /\ UNCHANGED <<crash, gaps, faultsLeft>>
  BY DEF CreateOk, mr_init, status
<1>3. text[attr.log_file] \in Names
  <2>1. attr.log_file \in {Buffer, Literal}
    BY DEF CreateOk, IInv, TypeOK, CallerAttrs
  <2> QED
    BY <2>1 DEF IInv, TypeOK, Strings
<1>4. [attr EXCEPT !.log_file = s] \in Attrs
  BY DEF IInv, TypeOK, CallerAttrs, Attrs, Strings
<1>5. TypeOK'
  <2>1. conf' \in [Blocks -> Attrs] /\ structs' \subseteq Blocks /\ strings' \subseteq Blocks
    BY <1>2, <1>4 DEF IInv, TypeOK
  <2>2. text' \in [Strings -> Names] /\ asked' \in [Handles -> Names]
    BY <1>2, <1>3 DEF IInv, TypeOK, Strings
  <2>3. /\ handle' \in [Handles -> Blocks \cup {NULL}]
        /\ ready' \subseteq owned' /\ owned' \subseteq Handles
    BY <1>1, <1>2 DEF IInv, TypeOK
  <2> QED
    BY <2>1, <2>2, <2>3, <1>1, <1>2 DEF IInv, TypeOK
<1>6. /\ conf'[b].log_file = s /\ (mr_attr_check(attr) => mr_attr_check(conf'[b]))
      /\ \A c \in structs : conf'[c] = conf[c] /\ c # b /\ c \in Blocks
  BY <1>2 DEF IInv, TypeOK, CallerAttrs, mr_attr_check, mr_attr_check_size
<1>7. Paired'
  BY <1>2, <1>6 DEF IInv, Paired
<1>8. /\ handle'[h] = b /\ h \notin ready /\ asked'[h] = text[attr.log_file]
      /\ \A k \in ready : handle'[k] = handle[k] /\ asked'[k] = asked[k]
  BY <1>1, <1>2 DEF IInv, TypeOK
<1>9. Reached'
  BY <1>2, <1>8 DEF IInv, Reached
<1>10. OwnCopy'
  <2> SUFFICES ASSUME gaps = {} PROVE OwnCopy'
    BY <1>2 DEF OwnCopy
  <2>1. text'[s] = text[attr.log_file] /\ \A t \in strings : text'[t] = text[t]
    BY <1>2 DEF IInv, TypeOK, Strings
  <2>2. ASSUME NEW k \in ready
        PROVE  /\ handle'[k] \in structs /\ text'[conf'[handle'[k]].log_file] = asked'[k]
               /\ mr_attr_check(conf'[handle'[k]])
    <3>1. /\ handle[k] \in structs /\ text[conf[handle[k]].log_file] = asked[k]
          /\ mr_attr_check(conf[handle[k]]) /\ conf[handle[k]].log_file \in strings
      BY DEF IInv, OwnCopy, Paired
    <3>2. conf'[handle'[k]] = conf[handle[k]] /\ handle'[k] = handle[k] /\ asked'[k] = asked[k]
      BY <1>6, <1>8, <3>1
    <3> QED
      BY <2>1, <3>1, <3>2
  <2>3. /\ handle'[h] \in structs' /\ text'[conf'[handle'[h]].log_file] = asked'[h]
        /\ mr_attr_check(conf'[handle'[h]])
    BY <1>1, <1>2, <1>6, <1>8, <2>1
  <2>4. \A k, l \in ready : handle'[k] = handle'[l] => k = l
    BY <1>8 DEF IInv, OwnCopy
  <2>5. \A k \in ready : handle'[k] # handle'[h]
    BY <1>6, <1>8, <2>2
  <2> QED
    BY <1>2, <2>2, <2>3, <2>4, <2>5 DEF OwnCopy, mr_attr_check, mr_attr_check_size
<1>11. NoCrash'
  BY <1>2 DEF IInv, NoCrash
<1> QED
  BY <1>5, <1>7, <1>9, <1>10, <1>11 DEF IInv

\* strdup of a NULL name stops the program: the first gap.
LEMMA CreateNullStep ==
  ASSUME IInv, NEW h \in Handles, mr_create(h), CreateNull(h)
  PROVE  IInv'
<1>1. owned' = owned \cup {h} /\ UNCHANGED attr
  BY CreateCases
<1> USE <1>1 DEF IInv, CreateNull, heap
<1>2. TypeOK'
  BY DEF TypeOK
<1>3. Paired' /\ Reached' /\ OwnCopy' /\ NoCrash'
  BY DEF Paired, Reached, OwnCopy, NoCrash
<1> QED
  BY <1>2, <1>3

\* When malloc fails the handle is NULL, when strdup fails it points to a free block: it is
\* none of those whose mr_create returned 0.
LEMMA CreateFailsStep ==
  ASSUME IInv, NEW h \in Handles, mr_create(h), CreateFails(h)
  PROVE  IInv'
<1>1. h \notin owned /\ owned' = owned \cup {h} /\ UNCHANGED attr
  BY CreateCases
<1>2. \A k \in ready : handle'[k] = handle[k]
  BY <1>1 DEF CreateFails, IInv, TypeOK
<1>3. handle' \in [Handles -> Blocks \cup {NULL}] /\ faultsLeft' \in 0 .. MaxFaults
  BY BoundsAssumption DEF CreateFails, Fail, IInv, TypeOK, BoundsAssumption
<1> USE <1>1, <1>2, <1>3 DEF IInv, CreateFails, heap
<1>4. TypeOK'
  BY DEF TypeOK
<1>5. Paired' /\ Reached' /\ NoCrash'
  BY DEF Paired, Reached, NoCrash
<1>6. OwnCopy'
  BY DEF OwnCopy, mr_attr_check, mr_attr_check_size
<1> QED
  BY <1>4, <1>5, <1>6

\* A refused mr_create leaves the handle, stale or not.
LEMMA CreateInvalidStep ==
  ASSUME IInv, NEW h \in Handles, mr_create_invalid(h)
  PROVE  IInv'
<1> USE DEF IInv, mr_create_invalid, heap, status
<1>1. TypeOK'
  BY DEF TypeOK
<1>2. Paired' /\ Reached' /\ NoCrash'
  BY DEF Paired, Reached, NoCrash
<1>3. OwnCopy'
  BY DEF OwnCopy, mr_attr_check, mr_attr_check_size
<1> QED
  BY <1>1, <1>2, <1>3

--------------------------------------------------------------------------------
(***************************************************************************)
(* mr_start and mr_destroy                                                 *)
(***************************************************************************)

\* mr_start finds the structure and its string, as long as no gap is met.
LEMMA StartFindsMemory ==
  ASSUME IInv, gaps = {}, NEW h \in Handles, mr_start(h)
  PROVE  crash' = FALSE
<1>1. handle[h] \in structs /\ conf[handle[h]].log_file \in strings
  BY DEF mr_start, IInv, OwnCopy, Paired
<1> QED
  BY <1>1 DEF mr_start

\* mr_start changes no memory; through a handle that a gap has spoilt it may end the program.
LEMMA StartStep == ASSUME IInv, NEW h \in Handles, mr_start(h) PROVE IInv'
<1>1. UNCHANGED <<attr, text, heap, handles, gaps, faultsLeft>> /\ crash' \in BOOLEAN
  BY DEF mr_start
<1>2. crash' => gaps # {}
  BY StartFindsMemory
<1> USE <1>1 DEF IInv, heap, handles
<1>3. TypeOK'
  BY DEF TypeOK
<1>4. Paired' /\ Reached'
  BY DEF Paired, Reached
<1>5. OwnCopy'
  BY DEF OwnCopy, mr_attr_check, mr_attr_check_size
<1>6. NoCrash'
  BY <1>2 DEF NoCrash
<1> QED
  BY <1>3, <1>4, <1>5, <1>6

\* The ways through mr_destroy: NULL, a structure is freed, or there is none.
LEMMA DestroyCases ==
  ASSUME IInv, NEW h \in Handles, mr_destroy(h)
  PROVE  /\ ~crash /\ owned' = owned \ {h} /\ ready' = ready \ {h}
         /\ UNCHANGED <<attr, handle, asked, faultsLeft>>
         /\ \/ /\ UNCHANGED <<text, heap, crash>> /\ (h \in ready => handle[h] \notin structs)
               /\ gaps' = gaps
            \/ /\ handle[h] \in structs /\ Free(mr_cleanup(handle[h])) /\ UNCHANGED crash
               /\ gaps' = IF h \in ready THEN gaps ELSE gaps \cup {"dangling"}
            \/ /\ crash' = TRUE /\ UNCHANGED <<text, heap>>
               /\ gaps' = IF h \in ready THEN gaps ELSE gaps \cup {"dangling"}
               /\ handle[h] \notin structs
<1>1. NULL \notin structs
  BY NullAssumption DEF IInv, TypeOK, Strings, NullAssumption
<1>2. handle[h] \in structs => mr_cleanup(handle[h]) \subseteq structs \cup strings
  BY DEF IInv, Paired, mr_cleanup
<1> QED
  BY <1>1, <1>2 DEF mr_destroy, Destroy

\* What free leaves, when a structure and its string are given back.
LEMMA FreeKeeps ==
  ASSUME IInv, NEW a \in structs, Free(mr_cleanup(a))
  PROVE  /\ structs' = structs \ {a} /\ strings' = strings \ {conf[a].log_file}
         /\ conf' \in [Blocks -> Attrs] /\ text' \in [Strings -> Names]
         /\ \A b \in structs \ {a} : /\ conf'[b] = conf[b]
                                     /\ conf[b].log_file \in strings \ {conf[a].log_file}
         /\ \A s \in strings \ {conf[a].log_file} : text'[s] = text[s]
<1>1. /\ conf[a].log_file \in strings /\ structs \cap strings = {}
      /\ structs \subseteq Blocks /\ strings \subseteq Blocks
  BY DEF IInv, Paired, TypeOK
<1>2. Defaults \in Attrs /\ Default \in Names
  BY SizesAssumption, DefaultAssumption
  DEF Defaults, Attrs, Strings, SizesAssumption, DefaultAssumption
<1>3. structs' = structs \ {a} /\ strings' = strings \ {conf[a].log_file}
  BY <1>1 DEF Free, mr_cleanup
<1>4. conf' \in [Blocks -> Attrs] /\ text' \in [Strings -> Names]
  BY <1>2 DEF Free, IInv, TypeOK
<1>5. ASSUME NEW b \in structs \ {a}
      PROVE  conf'[b] = conf[b] /\ conf[b].log_file \in strings \ {conf[a].log_file}
  <2>1. b \notin mr_cleanup(a) /\ b \in Blocks
    BY <1>1 DEF mr_cleanup
  <2> QED
    BY <2>1 DEF Free, IInv, Paired
<1>6. ASSUME NEW s \in strings \ {conf[a].log_file} PROVE text'[s] = text[s]
  <2>1. s \notin mr_cleanup(a) /\ s \in Strings
    BY <1>1 DEF mr_cleanup, Strings
  <2> QED
    BY <2>1 DEF Free
<1> QED
  BY <1>3, <1>4, <1>5, <1>6

\* mr_destroy takes away a structure with its string, and, before a gap, that of no other
\* handle.
LEMMA DestroyStep == ASSUME IInv, NEW h \in Handles, mr_destroy(h) PROVE IInv'
<1>1. /\ ~crash /\ owned' = owned \ {h} /\ ready' = ready \ {h}
      /\ UNCHANGED <<attr, handle, asked, faultsLeft>>
  BY DestroyCases
<1>2. gaps' \subseteq {"null", "dangling"} /\ gaps \subseteq gaps'
      /\ crash' \in BOOLEAN
  BY DestroyCases DEF IInv, TypeOK
<1>3. CASE UNCHANGED <<text, heap>> /\ handle[h] \notin structs /\ (crash' => gaps' # {})
  <2>1. TypeOK'
    BY <1>1, <1>2, <1>3 DEF IInv, TypeOK, heap
  <2>2. Paired' /\ NoCrash'
    BY <1>3 DEF IInv, Paired, NoCrash, heap
  <2>3. Reached'
    BY <1>1, <1>3 DEF IInv, Reached, heap
  <2>4. OwnCopy'
    BY <1>1, <1>2, <1>3 DEF IInv, OwnCopy, heap, mr_attr_check, mr_attr_check_size
  <2> QED
    BY <2>1, <2>2, <2>3, <2>4 DEF IInv
<1>4. CASE UNCHANGED <<text, heap, crash>> /\ h \notin ready
  <2>1. TypeOK'
    BY <1>1, <1>2, <1>4 DEF IInv, TypeOK, heap
  <2>2. Paired' /\ NoCrash'
    BY <1>1, <1>4 DEF IInv, Paired, NoCrash, heap
  <2>3. Reached'
    BY <1>1, <1>4 DEF IInv, Reached, heap
  <2>4. OwnCopy'
    BY <1>1, <1>2, <1>4 DEF IInv, OwnCopy, heap, mr_attr_check, mr_attr_check_size
  <2> QED
    BY <2>1, <2>2, <2>3, <2>4 DEF IInv
<1>5. CASE /\ handle[h] \in structs /\ Free(mr_cleanup(handle[h])) /\ UNCHANGED crash
           /\ gaps' = IF h \in ready THEN gaps ELSE gaps \cup {"dangling"}
  <2>1. PICK a \in structs : a = handle[h]
    BY <1>5
  <2>2. /\ structs' = structs \ {a} /\ strings' = strings \ {conf[a].log_file}
        /\ conf' \in [Blocks -> Attrs] /\ text' \in [Strings -> Names]
        /\ \A b \in structs \ {a} : /\ conf'[b] = conf[b]
                                    /\ conf[b].log_file \in strings \ {conf[a].log_file}
        /\ \A s \in strings \ {conf[a].log_file} : text'[s] = text[s]
    BY <1>5, <2>1, FreeKeeps
  <2>3. TypeOK'
    BY <1>1, <1>2, <2>2 DEF IInv, TypeOK
  <2>4. Paired'
    BY <2>2 DEF IInv, Paired
  <2>5. Reached'
    BY <1>1, <2>1, <2>2 DEF IInv, Reached
  <2>6. NoCrash'
    BY <1>1, <1>5 DEF NoCrash
  <2>7. ASSUME gaps' = {} PROVE OwnCopy'
    <3>1. gaps = {} /\ h \in ready
      BY <1>5, <2>7
    <3>2. ASSUME NEW k \in ready \ {h}
          PROVE  /\ handle[k] \in structs' /\ text'[conf'[handle[k]].log_file] = asked[k]
                 /\ mr_attr_check(conf'[handle[k]])
      <4>1. handle[k] \in structs \ {a}
        BY <2>1, <3>1 DEF IInv, OwnCopy
      <4>2. /\ conf'[handle[k]] = conf[handle[k]]
            /\ text'[conf[handle[k]].log_file] = text[conf[handle[k]].log_file]
        BY <2>2, <4>1
      <4>3. text[conf[handle[k]].log_file] = asked[k] /\ mr_attr_check(conf[handle[k]])
        BY <3>1 DEF IInv, OwnCopy
      <4> QED
        BY <2>2, <4>1, <4>2, <4>3
    <3>3. \A k, l \in ready : handle[k] = handle[l] => k = l
      BY <3>1 DEF IInv, OwnCopy
    <3> QED
      BY <1>1, <3>2, <3>3 DEF OwnCopy, mr_attr_check, mr_attr_check_size
  <2>8. OwnCopy'
    BY <2>7 DEF OwnCopy
  <2> QED
    BY <2>3, <2>4, <2>5, <2>6, <2>8 DEF IInv
<1>6. gaps = {} /\ h \in ready => handle[h] \in structs
  BY DEF IInv, OwnCopy
<1>7. CASE crash' = TRUE /\ UNCHANGED <<text, heap>> /\ handle[h] \notin structs
           /\ gaps' = IF h \in ready THEN gaps ELSE gaps \cup {"dangling"}
  BY <1>3, <1>6, <1>7
<1>8. CASE /\ UNCHANGED <<text, heap, crash>> /\ (h \in ready => handle[h] \notin structs)
  BY <1>1, <1>3, <1>4, <1>8
<1> QED
  BY <1>5, <1>7, <1>8, DestroyCases

--------------------------------------------------------------------------------
(***************************************************************************)
(* Theorems                                                                *)
(***************************************************************************)

\* Every step keeps the invariant.
LEMMA StepInv == IInv /\ [Next]_vars => IInv'
<1> SUFFICES ASSUME IInv, [Next]_vars PROVE IInv'
  OBVIOUS
<1>1. CASE Attributes
  BY <1>1, AttributesStep
<1>2. ASSUME NEW h \in Handles, mr_create(h) PROVE IInv'
  BY <1>2, CreateCases, CreateOkStep, CreateNullStep, CreateFailsStep
<1>3. ASSUME NEW h \in Handles, mr_create_invalid(h) PROVE IInv'
  BY <1>3, CreateInvalidStep
<1>4. CASE UNCHANGED vars
  BY <1>4
  DEF vars, memory, heap, handles, status, IInv, TypeOK, Paired, Reached, OwnCopy, NoCrash,
      mr_attr_check, mr_attr_check_size
<1>5. ASSUME NEW h \in Handles, mr_start(h) PROVE IInv'
  BY <1>5, StartStep
<1>6. ASSUME NEW h \in Handles, mr_destroy(h) PROVE IInv'
  BY <1>6, DestroyStep
<1> QED
  BY <1>1, <1>2, <1>3, <1>4, <1>5, <1>6 DEF Next

\* The invariant holds in every behaviour.
LEMMA Inductive == Spec => []IInv
  BY InitInv, StepInv, PTL DEF Spec

\* A handle keeps valid sizes and the log file it was created with, whatever the caller
\* does with its attributes and its buffer later, in memory of its own, although malloc
\* hands out again what was freed (until a gap is met); and every variable keeps its type.
THEOREM HandlesKept == Spec => []JobsConsistent
<1>1. ASSUME IInv PROVE JobsConsistent
  <2> SUFFICES ASSUME gaps = {} PROVE HandlesValid /\ LogFileFixed /\ Separate
    BY <1>1 DEF IInv, JobsConsistent
  <2> USE <1>1
  <2>1. HandlesValid /\ LogFileFixed
    BY SizesAssumption
    DEF IInv, HandlesValid, LogFileFixed, OwnCopy, mr_attr_check, mr_attr_check_size
  <2>2. \A h \in ready : handle[h] \in structs /\ conf[handle[h]].log_file \in strings
    BY DEF IInv, OwnCopy, Paired
  <2>3. ASSUME NEW h \in ready, NEW k \in ready, h # k
        PROVE  {handle[h], conf[handle[h]].log_file} \cap {handle[k], conf[handle[k]].log_file}
               = {}
    <3>1. handle[h] # handle[k]
      BY <2>3 DEF IInv, OwnCopy
    <3>2. conf[handle[h]].log_file # conf[handle[k]].log_file
      BY <2>2, <3>1 DEF IInv, Paired
    <3>3. structs \cap strings = {}
      BY DEF IInv, Paired
    <3> QED
      BY <2>2, <3>1, <3>2, <3>3
  <2> QED
    BY <2>1, <2>2, <2>3 DEF Separate
<1> QED
  BY <1>1, Inductive, PTL

\* No sequence of calls, refusals and failing allocations makes the library use memory that
\* is not there, before one of the two gaps is met.
THEOREM MemoryValid == Spec => []NoCrash
<1>1. IInv => NoCrash
  BY DEF IInv
<1> QED
  BY <1>1, Inductive, PTL

\* What is allocated belongs to a handle that the caller has still to destroy.
THEOREM MemoryReturned == Spec => []NothingLeaks
<1>1. IInv => NothingLeaks
  BY DEF IInv, NothingLeaks, Paired, Reached
<1> QED
  BY <1>1, Inductive, PTL
================================================================================
