--------------------------- MODULE SdkCacheProofs ---------------------------
(***************************************************************************)
(* The inductive invariants of what the SDKs keep: the audit file, the     *)
(* policy bundle, the context pack and the Go revocation cache, for any    *)
(* number of threads and any bounds.                                       *)
(***************************************************************************)
EXTENDS Sdk, FiniteSetTheorems, SequenceTheorems, TLAPS

-----------------------------------------------------------------------------
(* The audit file.  The events a file holds and those its threads are about *)
(* to add to it stay within its bound.                                     *)
EmitBounds == /\ IsFiniteSet(Actors) /\ FileMax \in Nat /\ MaxEvents \in Nat
              /\ MaxTime \in Nat

\* The threads that will append to the file an event whose rename was not
\* refused: past the size test, or with the file open.
Adding(f) ==
    {t \in Actors :
        /\ event[t] \notin refused
        /\ \/ f = emitPath /\ emitPc[t] \in {"lock", "open"}
           \/ emitPc[t] = "append" /\ open[t] = f}

Counted(f) == content[f] \ refused

\* The bound holds with what they will add counted.
RoomIsLeft ==
    \A f \in Emitter!Files :
        Cardinality(Counted(f)) + Cardinality(Adding(f))
            <= FileMax + Cardinality(Actors)

\* The lock keeps all but one thread away from the file; who is in emit has
\* an event.
Emitting ==
    /\ \A t, u \in Actors :
          emitPc[t] \in {"open", "append"} /\ emitPc[u] \in {"open", "append"}
              => t = u
    /\ \A t \in Actors : emitPc[t] = "append" => open[t] \in Emitter!Files
    /\ \A t \in Actors : emitPc[t] # "idle" => event[t] \in Emitter!Events

EmitInv == Emitter!TypeOK /\ Emitting /\ RoomIsLeft

\* The sets that are counted are finite.
LEMMA EmitFinite ==
    ASSUME EmitBounds, Emitter!TypeOK, NEW f \in Emitter!Files
    PROVE  /\ IsFiniteSet(Emitter!Events) /\ IsFiniteSet(content[f])
           /\ IsFiniteSet(Counted(f))
           /\ IsFiniteSet(Adding(f)) /\ Cardinality(Adding(f))
                <= Cardinality(Actors)
           /\ Cardinality(Counted(f)) <= Cardinality(content[f])
           /\ Cardinality(Counted(f)) \in Nat /\ Cardinality(Adding(f)) \in Nat
           /\ Cardinality(content[f]) \in Nat /\ Cardinality(Actors) \in Nat
           /\ FileMax \in Nat
<1>1. IsFiniteSet(Emitter!Events)
  <2>1. 1 \in Int /\ MaxEvents \in Int
    BY DEF EmitBounds
  <2> QED
    BY <2>1, FS_Interval DEF Emitter!Events
<1>2. content[f] \subseteq Emitter!Events
  BY DEF Emitter!TypeOK
<1>3. IsFiniteSet(content[f])
  BY <1>1, <1>2, FS_Subset
<1>4. Counted(f) \subseteq content[f]
  BY DEF Counted
<1>5. IsFiniteSet(Counted(f)) /\ Cardinality(Counted(f))
            <= Cardinality(content[f])
  BY <1>3, <1>4, FS_Subset
<1>6. Adding(f) \subseteq Actors /\ IsFiniteSet(Actors)
  BY DEF Adding, EmitBounds
<1>7. IsFiniteSet(Adding(f)) /\ Cardinality(Adding(f)) <= Cardinality(Actors)
  BY <1>6, FS_Subset
<1>8. FileMax \in Nat
  BY DEF EmitBounds
<1> QED
  BY <1>1, <1>3, <1>5, <1>6, <1>7, <1>8, FS_CardinalityType

LEMMA EmitImplies == ASSUME EmitBounds, EmitInv PROVE Emitter!FilesAreBounded
<1> SUFFICES ASSUME NEW f \in Emitter!Files
             PROVE  Cardinality(content[f] \ refused)
                 <= FileMax + Cardinality(Actors)
  BY DEF Emitter!FilesAreBounded, Emitter!Cardinality, Cardinality
<1>1. Cardinality(Counted(f)) + Cardinality(Adding(f))
            <= FileMax + Cardinality(Actors)
  BY DEF EmitInv, RoomIsLeft
<1> HIDE DEF Emitter!Files
<1>2. Cardinality(Counted(f)) <= FileMax + Cardinality(Actors)
  BY <1>1, EmitFinite DEF EmitInv
<1> QED
  BY <1>2 DEF Counted

LEMMA EmitInit == ASSUME EmitBounds, Emitter!Init PROVE EmitInv
<1>1. Emitter!TypeOK
  <2>1. 0 \in Emitter!Seconds /\ 0 \in 0 .. MaxEvents
    BY DEF EmitBounds, Emitter!Seconds
  <2>2. /\ content \in [Emitter!Files -> SUBSET Emitter!Events]
        /\ born \in [Emitter!Files -> Emitter!Seconds]
        /\ emitPath \in Emitter!Files \cup {Emitter!NoFile}
        /\ rotated \in [Emitter!Seconds -> Emitter!Files \cup {Emitter!NoFile}]
    BY <2>1 DEF Emitter!Init
  <2>3. /\ emitPc \in [Actors -> Emitter!PCs]
        /\ event \in [Actors -> 0 .. MaxEvents]
        /\ name \in [Actors -> Emitter!Seconds]
        /\ open \in [Actors -> Emitter!Files \cup {Emitter!NoFile}]
    BY <2>1 DEF Emitter!Init, Emitter!PCs
  <2>4. lock \in BOOLEAN /\ (lock
              <=> \E t \in Actors : emitPc[t] \in {"open", "append"})
    BY DEF Emitter!Init
  <2> QED
    BY <2>1, <2>2, <2>3, <2>4 DEF Emitter!Init, Emitter!TypeOK
<1>2. Emitting
  BY DEF Emitter!Init, Emitting
<1>3. RoomIsLeft
  <2> SUFFICES ASSUME NEW f \in Emitter!Files
               PROVE  Cardinality(Counted(f)) + Cardinality(Adding(f))
                   <= FileMax + Cardinality(Actors)
    BY DEF RoomIsLeft
  <2>1. Counted(f) = {} /\ Adding(f) = {}
    BY DEF Emitter!Init, Counted, Adding
  <2>2. Cardinality({}) = 0
    BY FS_EmptySet
  <2>3. Cardinality(Actors) \in Nat /\ FileMax \in Nat
    BY FS_CardinalityType DEF EmitBounds
  <2> QED
    BY <2>1, <2>2, <2>3
<1> QED
  BY <1>1, <1>2, <1>3 DEF EmitInv

-----------------------------------------------------------------------------
\* Nothing is counted or added that was not before.
LEMMA RoomStays ==
    ASSUME EmitBounds, Emitter!TypeOK, NEW f \in Emitter!Files,
           Cardinality(Counted(f)) + Cardinality(Adding(f))
               <= FileMax + Cardinality(Actors),
           Counted(f)' \subseteq Counted(f), Adding(f)' \subseteq Adding(f)
    PROVE  Cardinality(Counted(f)') + Cardinality(Adding(f)')
        <= FileMax + Cardinality(Actors)
<1>1. /\ IsFiniteSet(Counted(f)') /\ Cardinality(Counted(f)')
           <= Cardinality(Counted(f))
      /\ IsFiniteSet(Adding(f)') /\ Cardinality(Adding(f)')
           <= Cardinality(Adding(f))
  BY EmitFinite, FS_Subset
<1>2. Cardinality(Counted(f)') \in Nat /\ Cardinality(Adding(f)') \in Nat
  BY <1>1, FS_CardinalityType
<1> QED
  BY <1>1, <1>2, EmitFinite

\* A file that is not over the limit has room for every thread.
LEMMA RoomForAll ==
    ASSUME EmitBounds, Emitter!TypeOK', NEW f \in Emitter!Files,
        Cardinality(content'[f]) <= FileMax
    PROVE  Cardinality(Counted(f)') + Cardinality(Adding(f)')
        <= FileMax + Cardinality(Actors)
<1>1. IsFiniteSet(Emitter!Events)
  <2>1. 1 \in Int /\ MaxEvents \in Int
    BY DEF EmitBounds
  <2> QED
    BY <2>1, FS_Interval DEF Emitter!Events
<1>2. content'[f] \subseteq Emitter!Events
  BY DEF Emitter!TypeOK
<1>3. IsFiniteSet(content'[f])
  BY <1>1, <1>2, FS_Subset
<1>4. Counted(f)' \subseteq content'[f]
  BY DEF Counted
<1>5. IsFiniteSet(Counted(f)') /\ Cardinality(Counted(f)')
            <= Cardinality(content'[f])
  BY <1>3, <1>4, FS_Subset
<1>6. Adding(f)' \subseteq Actors /\ IsFiniteSet(Actors)
  BY DEF Adding, EmitBounds
<1>7. IsFiniteSet(Adding(f)') /\ Cardinality(Adding(f)') <= Cardinality(Actors)
  BY <1>6, FS_Subset
<1>8. /\ Cardinality(Counted(f)') \in Nat /\ Cardinality(Adding(f)') \in Nat
      /\ Cardinality(content'[f]) \in Nat /\ Cardinality(Actors) \in Nat
      /\ FileMax \in Nat
  BY <1>3, <1>5, <1>6, <1>7, FS_CardinalityType DEF EmitBounds
<1> QED
  BY <1>5, <1>7, <1>8

LEMMA EmitTypeStep == ASSUME EmitBounds, Emitter!TypeOK, Emitting,
    Emitter!Next PROVE Emitter!TypeOK'
<1>0. emitPc \in [Actors -> Emitter!PCs]
  BY DEF Emitter!TypeOK
<1>1. CASE Emitter!Tick
  BY <1>1 DEF Emitter!Tick, Emitter!TypeOK, Emitter!Seconds, Emitter!fileVars,
     EmitBounds
<1>2. ASSUME NEW t \in Actors, Emitter!Emit(t) PROVE Emitter!TypeOK'
  BY <1>2, <1>0 DEF Emitter!Emit, Emitter!Goto, Emitter!TypeOK, Emitter!PCs,
     Emitter!fileVars, EmitBounds
<1>3. ASSUME NEW t \in Actors, Emitter!TestExists(t) \/ Emitter!TestSize(t)
      PROVE Emitter!TypeOK'
  <2>1. /\ emitPc[t] \in {"exists", "size"} /\ UNCHANGED <<clock,
             Emitter!fileVars, lock, event, name, open, emitted, written,
                 refused>>
        /\ \E label \in {"lock", "size", "idle",
             "name"} : emitPc' = [emitPc EXCEPT ![t] = label]
    BY <1>3 DEF Emitter!TestExists, Emitter!TestSize, Emitter!Goto
  <2> QED
    BY <2>1 DEF Emitter!TypeOK, Emitter!PCs, Emitter!fileVars
<1>4. ASSUME NEW t \in Actors, Emitter!TakeName(t) PROVE Emitter!TypeOK'
  BY <1>4 DEF Emitter!TakeName, Emitter!Goto, Emitter!TypeOK, Emitter!PCs,
     Emitter!fileVars
<1>5. ASSUME NEW t \in Actors, Emitter!Rename(t) PROVE Emitter!TypeOK'
  <2>1. /\ emitPc' = [emitPc EXCEPT ![t] = "lock"] /\ emitPc[t] = "rename"
        /\ UNCHANGED <<clock, content, born, lock, event, name, open, emitted,
             written>>
        /\ emitPath' \in {emitPath, Emitter!NoFile}
        /\ rotated' \in {rotated, [rotated EXCEPT ![name[t]] = emitPath]}
        /\ refused' \in {refused, refused \cup {event[t]}}
    BY <1>5 DEF Emitter!Rename, Emitter!Goto
  <2>2. emitPath' \in Emitter!Files \cup {Emitter!NoFile}
              /\ rotated' \in [Emitter!Seconds -> Emitter!Files \cup
                   {Emitter!NoFile}]
    BY <2>1 DEF Emitter!TypeOK
  <2>3. refused' \subseteq Emitter!Events
    <3>1. CASE refused' = refused
      BY <3>1 DEF Emitter!TypeOK
    <3>2. CASE refused' = refused \cup {event[t]} /\ refused' # refused
      <4>1. event[t] \in Emitter!Events
        BY <2>1 DEF Emitting
      <4> QED
        BY <3>2, <4>1 DEF Emitter!TypeOK
    <3> QED
      BY <2>1, <3>1, <3>2
  <2>4. lock' <=> \E u \in Actors : emitPc'[u] \in {"open", "append"}
    BY <2>1 DEF Emitter!TypeOK
  <2>5. emitPc' \in [Actors -> Emitter!PCs]
    BY <2>1 DEF Emitter!TypeOK, Emitter!PCs
  <2> QED
    BY <2>1, <2>2, <2>3, <2>4, <2>5 DEF Emitter!TypeOK
<1>6. ASSUME NEW t \in Actors, Emitter!Acquire(t) PROVE Emitter!TypeOK'
  BY <1>6 DEF Emitter!Acquire, Emitter!Goto, Emitter!TypeOK, Emitter!PCs,
     Emitter!fileVars
<1>7. ASSUME NEW t \in Actors, Emitter!OpenFile(t) PROVE Emitter!TypeOK'
  <2>1. /\ emitPc[t] = "open" /\ emitPc' = [emitPc EXCEPT ![t] = "append"]
        /\ open' = [open EXCEPT ![t] = emitPath']
        /\ UNCHANGED <<clock, content, rotated, lock, event, name, emitted,
             written, refused>>
        /\ emitPath' \in Emitter!Files \cup {Emitter!NoFile}
    BY <1>7 DEF Emitter!OpenFile, Emitter!Goto, Emitter!TypeOK
  <2>2. born' \in [Emitter!Files -> Emitter!Seconds]
    BY <1>7 DEF Emitter!OpenFile, Emitter!TypeOK
  <2>3. lock' <=> \E u \in Actors : emitPc'[u] \in {"open", "append"}
    BY <2>1 DEF Emitter!TypeOK
  <2>4. emitPc' \in [Actors -> Emitter!PCs]
              /\ open' \in [Actors -> Emitter!Files \cup {Emitter!NoFile}]
    BY <2>1 DEF Emitter!TypeOK, Emitter!PCs
  <2> QED
    BY <2>1, <2>2, <2>3, <2>4 DEF Emitter!TypeOK
<1>8. ASSUME NEW t \in Actors, Emitter!Append(t) PROVE Emitter!TypeOK'
  <2>1. /\ emitPc[t] = "append" /\ emitPc' = [emitPc EXCEPT ![t] = "idle"]
        /\ content' = [content EXCEPT ![open[t]] = content[open[t]] \cup
             {event[t]}]
        /\ written' = written \cup {event[t]} /\ lock' = FALSE
        /\ open' = [open EXCEPT ![t] = Emitter!NoFile]
        /\ UNCHANGED <<clock, born, emitPath, rotated, event, name, emitted,
             refused>>
    BY <1>8 DEF Emitter!Append, Emitter!Goto
  <2>2. ~ \E u \in Actors : emitPc'[u] \in {"open", "append"}
    BY <2>1, <1>0 DEF Emitting
  <2>3. open[t] \in Emitter!Files
    BY <2>1 DEF Emitting
  <2>4. content' \in [Emitter!Files -> SUBSET Emitter!Events]
              /\ written' \subseteq Emitter!Events
    <3>1. event[t] \in Emitter!Events
      BY <2>1 DEF Emitting
    <3> QED
      BY <2>1, <2>3, <3>1 DEF Emitter!TypeOK
  <2> QED
    BY <2>1, <2>2, <2>4 DEF Emitter!TypeOK, Emitter!PCs
<1>9. ASSUME NEW t \in Actors, Emitter!EmitFails(t) PROVE Emitter!TypeOK'
  <2>1. /\ emitPc[t] \in {"exists", "open", "append"}
        /\ emitPc' = [emitPc EXCEPT ![t] = "idle"]
        /\ lock' = (lock /\ emitPc[t] = "exists")
        /\ open' = [open EXCEPT ![t] = Emitter!NoFile]
        /\ UNCHANGED <<clock, Emitter!fileVars, event, name, emitted, written,
             refused>>
    BY <1>9 DEF Emitter!EmitFails, Emitter!Goto
  <2>2. emitPc'[t] = "idle" /\ \A u \in Actors : u # t => emitPc'[u] = emitPc[u]
    BY <1>0, <2>1
  <2>3. lock' <=> \E u \in Actors : emitPc'[u] \in {"open", "append"}
    <3>1. CASE emitPc[t] = "exists"
      BY <2>1, <2>2, <3>1 DEF Emitter!TypeOK
    <3>2. CASE emitPc[t] \in {"open", "append"}
      BY <2>1, <2>2, <3>2 DEF Emitting
    <3> QED
      BY <2>1, <3>1, <3>2
  <2>4. lock' \in BOOLEAN
    BY <2>1
  <2> QED
    BY <2>1, <2>3, <2>4 DEF Emitter!TypeOK, Emitter!PCs, Emitter!fileVars
<1> QED
  BY <1>1, <1>2, <1>3, <1>4, <1>5, <1>6, <1>7, <1>8, <1>9 DEF Emitter!Next

LEMMA EmittingStep == ASSUME EmitBounds, Emitter!TypeOK, Emitting,
    Emitter!Next PROVE Emitting'
<1>0. emitPc \in [Actors -> Emitter!PCs]
            /\ open \in [Actors -> Emitter!Files \cup {Emitter!NoFile}]
            /\ event \in [Actors -> 0 .. MaxEvents]
  BY DEF Emitter!TypeOK
<1>1. CASE Emitter!Tick
  BY <1>1 DEF Emitter!Tick, Emitting
<1>2. ASSUME NEW t \in Actors, Emitter!Emit(t) PROVE Emitting'
  <2>1. /\ UNCHANGED open /\ emitPc' = [emitPc EXCEPT ![t] = "exists"]
        /\ event' = [event EXCEPT ![t] = emitted + 1]
        /\ emitted + 1 \in Emitter!Events
    BY <1>2 DEF Emitter!Emit, Emitter!Goto, Emitter!TypeOK, Emitter!Events,
       EmitBounds
  <2> QED
    BY <1>0, <2>1 DEF Emitting
<1>3. ASSUME NEW t \in Actors, Emitter!TestExists(t) \/ Emitter!TestSize(t)
            \/ Emitter!TakeName(t) \/ Emitter!Rename(t)
      PROVE Emitting'
  <2>1. /\ UNCHANGED <<open, event>> /\ emitPc[t] # "idle"
        /\ \E label \in {"lock", "size", "idle", "name",
             "rename"} : emitPc' = [emitPc EXCEPT ![t] = label]
    BY <1>3 DEF Emitter!TestExists, Emitter!TestSize, Emitter!TakeName,
       Emitter!Rename, Emitter!Goto
  <2> QED
    BY <1>0, <2>1 DEF Emitting
<1>4. ASSUME NEW t \in Actors, Emitter!Acquire(t) PROVE Emitting'
  <2>1. /\ emitPc[t] = "lock" /\ emitPc' = [emitPc EXCEPT ![t] = "open"]
        /\ UNCHANGED <<open, event>>
        /\ \A u \in Actors : emitPc[u] \notin {"open", "append"}
    BY <1>4 DEF Emitter!Acquire, Emitter!Goto, Emitter!TypeOK
  <2> QED
    BY <1>0, <2>1 DEF Emitting
<1>5. ASSUME NEW t \in Actors, Emitter!OpenFile(t) PROVE Emitting'
  <2>1. /\ emitPc[t] = "open" /\ emitPc' = [emitPc EXCEPT ![t] = "append"]
        /\ open' = [open EXCEPT ![t] = emitPath']
        /\ emitPath' \in Emitter!Files /\ UNCHANGED event
    BY <1>5 DEF Emitter!OpenFile, Emitter!Goto, Emitter!TypeOK
  <2> QED
    BY <1>0, <2>1 DEF Emitting
<1>6. ASSUME NEW t \in Actors, Emitter!Append(t) \/ Emitter!EmitFails(t)
      PROVE Emitting'
  <2>1. emitPc' = [emitPc EXCEPT ![t] = "idle"]
              /\ open' = [open EXCEPT ![t] = Emitter!NoFile] /\ UNCHANGED event
    BY <1>6 DEF Emitter!Append, Emitter!EmitFails, Emitter!Goto
  <2> QED
    BY <1>0, <2>1 DEF Emitting
<1> QED
  BY <1>1, <1>2, <1>3, <1>4, <1>5, <1>6 DEF Emitter!Next

LEMMA RoomStep == ASSUME EmitBounds, Emitter!TypeOK, Emitting, RoomIsLeft,
    Emitter!TypeOK', Emitter!Next PROVE RoomIsLeft'
<1>0. emitPc \in [Actors -> Emitter!PCs]
            /\ open \in [Actors -> Emitter!Files \cup {Emitter!NoFile}]
            /\ event \in [Actors -> 0 .. MaxEvents]
  BY DEF Emitter!TypeOK
<1> SUFFICES ASSUME NEW f \in Emitter!Files
             PROVE  Cardinality(Counted(f)') + Cardinality(Adding(f)')
                 <= FileMax + Cardinality(Actors)
  BY DEF RoomIsLeft
<1>f. f # Emitter!NoFile
  BY DEF Emitter!Files, Emitter!NoFile
<1>r. Cardinality(Counted(f)) + Cardinality(Adding(f))
            <= FileMax + Cardinality(Actors)
  BY DEF RoomIsLeft
<1> HIDE DEF Emitter!Files
<1>1. CASE Emitter!Tick
  <2>1. Counted(f)' \subseteq Counted(f) /\ Adding(f)' \subseteq Adding(f)
    BY <1>1 DEF Emitter!Tick, Counted, Adding, Emitter!fileVars
  <2> QED
    BY <1>r, <2>1, RoomStays
<1>2. ASSUME NEW t \in Actors, Emitter!Emit(t) \/ Emitter!TakeName(t)
      PROVE Cardinality(Counted(f)') + Cardinality(Adding(f)')
          <= FileMax + Cardinality(Actors)
  <2>1. /\ emitPc[t] \notin {"lock", "open", "append"}
        /\ \E label \in {"exists",
             "rename"} : emitPc' = [emitPc EXCEPT ![t] = label]
        /\ \A u \in Actors : u # t => event'[u] = event[u]
        /\ UNCHANGED <<content, emitPath, open, refused>>
    BY <1>0, <1>2 DEF Emitter!Emit, Emitter!TakeName, Emitter!Goto,
       Emitter!fileVars
  <2>2. Counted(f)' \subseteq Counted(f) /\ Adding(f)' \subseteq Adding(f)
    BY <1>0, <2>1 DEF Counted, Adding
  <2> QED
    BY <1>r, <2>2, RoomStays
<1>3. ASSUME NEW t \in Actors, Emitter!TestExists(t)
      PROVE Cardinality(Counted(f)') + Cardinality(Adding(f)')
          <= FileMax + Cardinality(Actors)
  <2>1. /\ UNCHANGED <<content, emitPath, open, refused, event>>
        /\ \/ emitPath = Emitter!NoFile
                /\ emitPc' = [emitPc EXCEPT ![t] = "lock"]
           \/ emitPc' = [emitPc EXCEPT ![t] = "size"]
    BY <1>3 DEF Emitter!TestExists, Emitter!Goto, Emitter!fileVars
  <2>2. Counted(f)' \subseteq Counted(f) /\ Adding(f)' \subseteq Adding(f)
    BY <1>0, <1>f, <2>1 DEF Counted, Adding
  <2> QED
    BY <1>r, <2>2, RoomStays
<1>4. ASSUME NEW t \in Actors, Emitter!TestSize(t)
      PROVE Cardinality(Counted(f)') + Cardinality(Adding(f)')
          <= FileMax + Cardinality(Actors)
  <2>1. UNCHANGED <<content, emitPath, open, refused, event>>
    BY <1>4 DEF Emitter!TestSize, Emitter!fileVars
  <2>2. CASE emitPc' = [emitPc EXCEPT ![t] = "idle"]
              \/ emitPc' = [emitPc EXCEPT ![t] = "name"] \/ f # emitPath
    <3>1. \E label \in {"idle", "name",
                "lock"} : emitPc' = [emitPc EXCEPT ![t] = label]
                    /\ (label = "lock" => f # emitPath)
      BY <1>4, <2>2 DEF Emitter!TestSize, Emitter!Goto
    <3>2. Counted(f)' \subseteq Counted(f) /\ Adding(f)' \subseteq Adding(f)
      BY <1>0, <2>1, <3>1 DEF Counted, Adding
    <3> QED
      BY <1>r, <3>2, RoomStays
  <2>3. CASE f = emitPath /\ ~Emitter!IsTooLarge(emitPath)
    <3>1. Cardinality(content[f]) <= FileMax
      <4>1. ~(Cardinality(content[f]) > FileMax)
        BY <2>3 DEF Emitter!IsTooLarge, Emitter!Cardinality, Cardinality
      <4>2. Cardinality(content[f]) \in Nat
        BY EmitFinite, FS_CardinalityType
      <4> QED
        BY <4>1, <4>2 DEF EmitBounds
    <3>2. Cardinality(content'[f]) <= FileMax
      BY <2>1, <3>1
    <3> QED
      BY <3>2, RoomForAll
  <2> QED
    BY <1>4, <2>2, <2>3 DEF Emitter!TestSize, Emitter!Goto
<1>5. ASSUME NEW t \in Actors, Emitter!Rename(t)
      PROVE Cardinality(Counted(f)') + Cardinality(Adding(f)')
          <= FileMax + Cardinality(Actors)
  <2>1. /\ emitPc[t] = "rename" /\ emitPc' = [emitPc EXCEPT ![t] = "lock"]
        /\ UNCHANGED <<content, event, open>>
        /\ \/ emitPath' = Emitter!NoFile /\ UNCHANGED refused
           \/ emitPath' = emitPath /\ refused' = refused \cup {event[t]}
    BY <1>5 DEF Emitter!Rename, Emitter!Goto
  <2>2. Counted(f)' \subseteq Counted(f)
    BY <2>1 DEF Counted
  <2>3. Adding(f)' \subseteq Adding(f)
    BY <1>0, <1>f, <2>1 DEF Adding
  <2> QED
    BY <1>r, <2>2, <2>3, RoomStays
<1>6. ASSUME NEW t \in Actors, Emitter!Acquire(t)
      PROVE Cardinality(Counted(f)') + Cardinality(Adding(f)')
          <= FileMax + Cardinality(Actors)
  <2>1. /\ emitPc[t] = "lock" /\ emitPc' = [emitPc EXCEPT ![t] = "open"]
        /\ UNCHANGED <<content, emitPath, open, refused, event>>
    BY <1>6 DEF Emitter!Acquire, Emitter!Goto, Emitter!fileVars
  <2>2. Counted(f)' \subseteq Counted(f) /\ Adding(f)' \subseteq Adding(f)
    BY <1>0, <2>1 DEF Counted, Adding
  <2> QED
    BY <1>r, <2>2, RoomStays
<1>7. ASSUME NEW t \in Actors, Emitter!OpenFile(t)
      PROVE Cardinality(Counted(f)') + Cardinality(Adding(f)')
          <= FileMax + Cardinality(Actors)
  <2>1. /\ emitPc[t] = "open" /\ emitPc' = [emitPc EXCEPT ![t] = "append"]
        /\ open' = [open EXCEPT ![t] = emitPath']
        /\ UNCHANGED <<content, event, refused>>
        /\ emitPath' = emitPath \/ (emitPath = Emitter!NoFile
             /\ emitPath' \in Emitter!Files \ Emitter!Created)
    BY <1>7 DEF Emitter!OpenFile, Emitter!Goto
  <2>2. Counted(f)' \subseteq Counted(f)
    BY <2>1 DEF Counted
  <2>3. CASE emitPath' = emitPath \/ f # emitPath'
    <3>1. Adding(f)' \subseteq Adding(f)
      BY <1>0, <1>f, <2>1, <2>3 DEF Adding
    <3> QED
      BY <1>r, <2>2, <3>1, RoomStays
  <2>4. CASE f = emitPath' /\ f \notin Emitter!Created
    <3>1. content'[f] = {}
      BY <2>1, <2>4 DEF Emitter!Created
    <3>2. Cardinality(content'[f]) <= FileMax
      BY <3>1, FS_EmptySet DEF EmitBounds
    <3> QED
      BY <3>2, RoomForAll
  <2> QED
    BY <2>1, <2>3, <2>4
<1>8. ASSUME NEW t \in Actors, Emitter!Append(t)
      PROVE Cardinality(Counted(f)') + Cardinality(Adding(f)')
          <= FileMax + Cardinality(Actors)
  <2>1. /\ emitPc[t] = "append" /\ emitPc' = [emitPc EXCEPT ![t] = "idle"]
        /\ content' = [content EXCEPT ![open[t]] = content[open[t]] \cup
             {event[t]}]
        /\ open' = [open EXCEPT ![t] = Emitter!NoFile]
        /\ UNCHANGED <<emitPath, event, refused>>
    BY <1>8 DEF Emitter!Append, Emitter!Goto
  <2>2. Adding(f)' \subseteq Adding(f) \ {t}
    BY <1>0, <1>f, <2>1 DEF Adding
  <2>3. CASE f # open[t] \/ event[t] \in refused
    <3>1. Counted(f)' \subseteq Counted(f)
      BY <2>1, <2>3 DEF Counted, Emitter!TypeOK
    <3> QED
      BY <1>r, <2>2, <3>1, RoomStays
  <2>4. CASE f = open[t] /\ event[t] \notin refused
    <3>1. t \in Adding(f)
      BY <2>1, <2>4 DEF Adding
    <3>2. Counted(f)' \subseteq Counted(f) \cup {event[t]}
      BY <2>1, <2>4 DEF Counted, Emitter!TypeOK
    <3>3. IsFiniteSet(Adding(f) \ {t})
                /\ Cardinality(Adding(f) \ {t}) = Cardinality(Adding(f)) - 1
      BY <3>1, EmitFinite, FS_RemoveElement
    <3>4. IsFiniteSet(Adding(f)') /\ Cardinality(Adding(f)')
                <= Cardinality(Adding(f)) - 1
      BY <2>2, <3>3, FS_Subset
    <3>5. /\ IsFiniteSet(Counted(f) \cup {event[t]})
          /\ Cardinality(Counted(f) \cup {event[t]})
               <= Cardinality(Counted(f)) + 1
      <4>1. CASE event[t] \in Counted(f)
        <5>1. Counted(f) \cup {event[t]} = Counted(f)
          BY <4>1
        <5>2. IsFiniteSet(Counted(f)) /\ Cardinality(Counted(f))
                    <= Cardinality(Counted(f)) + 1
          BY EmitFinite
        <5> QED
          BY <5>1, <5>2
      <4>2. CASE event[t] \notin Counted(f)
        <5>1. /\ IsFiniteSet(Counted(f) \cup {event[t]})
              /\ Cardinality(Counted(f) \cup
                   {event[t]}) = Cardinality(Counted(f)) + 1
          BY <4>2, EmitFinite, FS_AddElement
        <5> QED
          BY <5>1, EmitFinite
      <4> QED
        BY <4>1, <4>2
    <3>6. IsFiniteSet(Counted(f)') /\ Cardinality(Counted(f)')
                <= Cardinality(Counted(f) \cup {event[t]})
      BY <3>2, <3>5, FS_Subset
    <3>7. /\ Cardinality(Counted(f)') \in Nat /\ Cardinality(Adding(f)') \in Nat
          /\ Cardinality(Counted(f) \cup {event[t]}) \in Nat
      BY <3>4, <3>5, <3>6, FS_CardinalityType
    <3> QED
      BY <1>r, <3>4, <3>5, <3>6, <3>7, EmitFinite
  <2> QED
    BY <2>3, <2>4
<1>9. ASSUME NEW t \in Actors, Emitter!EmitFails(t)
      PROVE Cardinality(Counted(f)') + Cardinality(Adding(f)')
          <= FileMax + Cardinality(Actors)
  <2>1. /\ emitPc' = [emitPc EXCEPT ![t] = "idle"]
        /\ open' = [open EXCEPT ![t] = Emitter!NoFile]
        /\ UNCHANGED <<content, emitPath, event, refused>>
    BY <1>9 DEF Emitter!EmitFails, Emitter!Goto, Emitter!fileVars
  <2>2. Counted(f)' \subseteq Counted(f) /\ Adding(f)' \subseteq Adding(f)
    BY <1>0, <1>f, <2>1 DEF Counted, Adding
  <2> QED
    BY <1>r, <2>2, RoomStays
<1> QED
  BY <1>1, <1>2, <1>3, <1>4, <1>5, <1>6, <1>7, <1>8, <1>9 DEF Emitter!Next

LEMMA EmitStays == ASSUME EmitInv, UNCHANGED Emitter!vars PROVE EmitInv'
<1>1. /\ clock' = clock /\ content' = content /\ born' = born
      /\ emitPath' = emitPath
      /\ rotated' = rotated /\ lock' = lock /\ emitPc' = emitPc
      /\ event' = event
      /\ name' = name /\ open' = open /\ emitted' = emitted
      /\ written' = written /\ refused' = refused
  BY DEF Emitter!vars
<1>2. Emitter!TypeOK'
  BY <1>1 DEF EmitInv, Emitter!TypeOK
<1>3. Emitting'
  BY <1>1 DEF EmitInv, Emitting
<1>4. \A f \in Emitter!Files : Adding(f)' = Adding(f)
            /\ Counted(f)' = Counted(f)
  BY <1>1 DEF Adding, Counted
<1>5. RoomIsLeft'
  BY <1>4 DEF EmitInv, RoomIsLeft
<1> QED
  BY <1>2, <1>3, <1>5 DEF EmitInv

LEMMA EmitStep == ASSUME EmitBounds, EmitInv, [Emitter!Next]_(Emitter!vars)
PROVE EmitInv'
<1> SUFFICES ASSUME Emitter!Next PROVE EmitInv'
  BY EmitStays
<1>1. Emitter!TypeOK'
  BY EmitTypeStep DEF EmitInv
<1>2. Emitting'
  BY EmittingStep DEF EmitInv
<1>3. RoomIsLeft'
  BY <1>1, RoomStep DEF EmitInv
<1> QED
  BY <1>1, <1>2, <1>3 DEF EmitInv

-----------------------------------------------------------------------------
(* The policy bundle.  A stored bundle is in force, for any number of loading *)
(* and storing threads, of failed stores and of restarts.                  *)
BundleBounds == MaxBundles \in Nat \ {0}

\* What a load has read is what the file holds, unless the file has been
\* replaced while the load was under way.
ReadsAreCurrent ==
    overlap \/ \A t \in Actors : bundleStep[t] = "read"
        => bundleHeld[t] = bundleDisk

BundleInv == Bundle!TypeOK /\ ReadsAreCurrent /\ Bundle!StoredIsInForce

LEMMA BundleInit == ASSUME BundleBounds, Bundle!Init PROVE BundleInv
<1> USE DEF BundleBounds
<1>1. Bundle!TypeOK
  <2>1. 1 \in 1 .. MaxBundles /\ 0 \in 0 .. MaxBundles
    OBVIOUS
  <2>2. Bundle!None \in Bundle!Files /\ Bundle!Torn \in Bundle!Files
              /\ 1 \in Bundle!Files
    BY <2>1 DEF Bundle!Files
  <2> QED
    BY <2>1, <2>2 DEF Bundle!Init, Bundle!TypeOK, Bundle!None
<1>2. ReadsAreCurrent /\ Bundle!StoredIsInForce
  BY DEF Bundle!Init, ReadsAreCurrent, Bundle!StoredIsInForce
<1> QED
  BY <1>1, <1>2 DEF BundleInv

LEMMA BundleTypeStep == ASSUME BundleBounds, Bundle!TypeOK,
    [Bundle!Next]_(Bundle!vars) PROVE Bundle!TypeOK'
<1> USE DEF BundleBounds, Bundle!TypeOK, Bundle!Files, Bundle!None, Bundle!Torn
<1>1. ASSUME NEW t \in Actors, Bundle!Load(t) PROVE Bundle!TypeOK'
  BY <1>1 DEF Bundle!Load, Bundle!Goes
<1>2. ASSUME NEW t \in Actors, Bundle!Write(t) PROVE Bundle!TypeOK'
  BY <1>2 DEF Bundle!Write, Bundle!Goes
<1>3. ASSUME NEW t \in Actors, Bundle!Read(t) \/ Bundle!Fetch(t)
      PROVE Bundle!TypeOK'
  BY <1>3 DEF Bundle!Read, Bundle!Fetch, Bundle!Goes
<1>4. ASSUME NEW t \in Actors, Bundle!Open(t) \/ Bundle!Reset(t)
            \/ Bundle!StoreFails(t)
      PROVE Bundle!TypeOK'
  BY <1>4 DEF Bundle!Open, Bundle!Reset, Bundle!StoreFails, Bundle!Goes
<1>5. ASSUME NEW t \in Actors, Bundle!Replace(t) PROVE Bundle!TypeOK'
  BY <1>5 DEF Bundle!Replace, Bundle!Loading, Bundle!Goes
<1>6. CASE Bundle!Issue \/ UNCHANGED Bundle!vars
  BY <1>6 DEF Bundle!Issue, Bundle!vars
<1>7. CASE Bundle!Restart
  <2>1. 0 \in 0 .. MaxBundles /\ Bundle!None \in Bundle!Files
    BY DEF Bundle!Files
  <2> QED
    BY <1>7, <2>1 DEF Bundle!Restart
<1> QED
  BY <1>1, <1>2, <1>3, <1>4, <1>6, <1>5, <1>7 DEF Bundle!Next

LEMMA BundleStep == ASSUME BundleBounds, BundleInv,
    [Bundle!Next]_(Bundle!vars) PROVE BundleInv'
<1> USE DEF BundleInv, Bundle!TypeOK
<1>1. Bundle!TypeOK'
  BY BundleTypeStep
<1>2. ASSUME NEW t \in Actors, Bundle!Read(t)
      PROVE ReadsAreCurrent' /\ Bundle!StoredIsInForce'
  BY <1>2 DEF Bundle!Read, Bundle!Goes, ReadsAreCurrent,
     Bundle!StoredIsInForce
<1>3. ASSUME NEW t \in Actors, Bundle!Load(t)
      PROVE ReadsAreCurrent' /\ Bundle!StoredIsInForce'
  BY <1>3 DEF Bundle!Load, Bundle!Goes, ReadsAreCurrent,
     Bundle!StoredIsInForce
<1>4. ASSUME NEW t \in Actors, Bundle!Fetch(t) \/ Bundle!Open(t)
            \/ Bundle!Write(t) \/ Bundle!StoreFails(t)
      PROVE ReadsAreCurrent' /\ Bundle!StoredIsInForce'
  BY <1>4 DEF Bundle!Fetch, Bundle!Open, Bundle!Write, Bundle!StoreFails,
     Bundle!Goes, ReadsAreCurrent, Bundle!StoredIsInForce
<1>5. ASSUME NEW t \in Actors, Bundle!Replace(t)
      PROVE ReadsAreCurrent' /\ Bundle!StoredIsInForce'
  BY <1>5 DEF Bundle!Replace, Bundle!Loading, Bundle!Goes, ReadsAreCurrent,
     Bundle!StoredIsInForce
<1>6. ASSUME NEW t \in Actors, Bundle!Reset(t)
      PROVE ReadsAreCurrent' /\ Bundle!StoredIsInForce'
  BY <1>6 DEF Bundle!Reset, Bundle!Goes, ReadsAreCurrent,
     Bundle!StoredIsInForce
<1>7. CASE Bundle!Issue \/ UNCHANGED Bundle!vars
  <2>1. UNCHANGED <<bundleDisk, bundleMemory, bundleStep, bundleHeld, overlap>>
    BY <1>7 DEF Bundle!Issue, Bundle!vars
  <2>2. ReadsAreCurrent'
    BY <2>1 DEF ReadsAreCurrent
  <2>3. Bundle!StoredIsInForce'
    BY <2>1 DEF Bundle!StoredIsInForce
  <2> QED
    BY <1>1, <2>2, <2>3
<1>8. CASE Bundle!Restart
  <2>1. bundleMemory' = Bundle!None /\ \A t \in Actors : bundleStep'[t] = "idle"
    BY <1>8 DEF Bundle!Restart
  <2>2. ReadsAreCurrent'
    BY <2>1 DEF ReadsAreCurrent
  <2>3. Bundle!StoredIsInForce'
    BY <2>1 DEF Bundle!StoredIsInForce
  <2> QED
    BY <1>1, <2>2, <2>3
<1> QED
  BY <1>1, <1>2, <1>3, <1>4, <1>5, <1>6, <1>7, <1>8 DEF Bundle!Next

-----------------------------------------------------------------------------
(* The context pack.  A pack the server has invalidated is not in the file *)
(* after the worker has acted, and in memory for a bounded time only.      *)
PackBounds == PackTtl \in Nat /\ FetchLag \in Nat /\ MaxChanges \in Nat

\* What the worker is told of, and acts on, is what the server has or had.
ToldOfThePast ==
    /\ Len(log) <= MaxChanges /\ due <= pack /\ told <= pack
    /\ \A i \in 1 .. Len(log) : log[i] <= pack

\* An invalidated pack is not in the file nor about to be; a thread that has
\* read it did so before the worker acted, and so did one that has cached it.
OldPacksAge ==
    /\ packDisk = Context!None \/ packDisk >= due
    /\ \A t \in Actors : packStep[t] = "replace" => packHeld[t] >= due
    /\ \A t \in Actors : packStep[t] = "read" =>
          packHeld[t] = Context!None \/ packHeld[t] >= due \/ applied <= age[t]
    /\ \/ packMemory.pack = Context!None \/ packMemory.pack >= due
       \/ packMemory.age > PackTtl \/ applied <= packMemory.age + FetchLag

PackInv == Context!TypeOK /\ ToldOfThePast /\ OldPacksAge

\* The numbers the provers are told of.
LEMMA PackNumbers ==
    ASSUME PackBounds, Context!TypeOK
    PROVE  /\ pack \in Nat \ {0} /\ packDisk \in Nat /\ told \in Nat
           /\ due \in Nat
           /\ packMemory.pack \in Nat /\ packMemory.age \in Nat
           /\ applied \in Nat
           /\ PackTtl \in Nat /\ FetchLag \in Nat /\ MaxChanges \in Nat
           /\ Context!Long \in Nat
           /\ Context!Long = PackTtl + FetchLag + 1
           /\ packMemory.pack \in Context!Pack
           /\ packMemory.age \in 0 .. PackTtl + 1
           /\ packMemory = [pack |-> packMemory.pack, age |-> packMemory.age]
           /\ \A t \in Actors : packHeld[t] \in Nat /\ age[t] \in Nat
           /\ log \in Seq(Context!Pack) /\ Len(log) \in Nat
           /\ \A i \in 1 .. Len(log) : log[i] \in Context!Pack /\ log[i] \in Nat
           /\ Context!None \in Context!Pack
           /\ Context!Empty \in [pack : Context!Pack, age : 0 .. PackTtl + 1]
           /\ Context!Empty.pack = Context!None /\ Context!Empty.age = 0
           /\ Context!None = 0
<1>1. Context!Pack \subseteq Nat /\ Context!None \in Context!Pack
            /\ Context!None = 0 /\ 0 \in 0 .. PackTtl + 1
  BY DEF PackBounds, Context!Pack, Context!None
<1>2. Context!Empty \in [pack : Context!Pack, age : 0 .. PackTtl + 1]
            /\ Context!Empty.pack = Context!None /\ Context!Empty.age = 0
  BY <1>1 DEF Context!Empty
<1>3. /\ pack \in Nat \ {0} /\ packDisk \in Nat /\ told \in Nat /\ due \in Nat
      /\ \A t \in Actors : packHeld[t] \in Nat
  BY <1>1 DEF Context!TypeOK
<1>4. /\ PackTtl \in Nat /\ FetchLag \in Nat /\ MaxChanges \in Nat
      /\ Context!Long \in Nat /\ Context!Long = PackTtl + FetchLag + 1
      /\ applied \in Nat /\ \A t \in Actors : age[t] \in Nat
  BY DEF Context!TypeOK, PackBounds, Context!Long
<1>5. /\ packMemory.pack \in Context!Pack
      /\ packMemory.age \in 0 .. PackTtl + 1 /\ packMemory.pack \in Nat
      /\ packMemory.age \in Nat
      /\ packMemory = [pack |-> packMemory.pack, age |-> packMemory.age]
  <2>1. packMemory \in [pack : Context!Pack, age : 0 .. PackTtl + 1]
    BY DEF Context!TypeOK
  <2>2. /\ packMemory.pack \in Context!Pack
        /\ packMemory.age \in 0 .. PackTtl + 1
        /\ packMemory = [pack |-> packMemory.pack, age |-> packMemory.age]
    BY <2>1
  <2>3. 0 .. PackTtl + 1 \subseteq Nat
    BY <1>4
  <2> QED
    BY <1>1, <2>2, <2>3
<1>6. log \in Seq(Context!Pack) /\ Len(log) \in Nat
            /\ \A i \in 1 .. Len(log) : log[i] \in Context!Pack
                 /\ log[i] \in Nat
  <2>1. log \in Seq(Context!Pack)
    BY DEF Context!TypeOK
  <2>2. Len(log) \in Nat /\ \A i \in 1 .. Len(log) : log[i] \in Context!Pack
    BY <2>1
  <2> QED
    BY <1>1, <2>1, <2>2
<1> QED
  BY <1>1, <1>2, <1>3, <1>4, <1>5, <1>6

\* Max and Min of two numbers.
LEMMA MaxOfTwo ==
    ASSUME NEW a \in Nat, NEW b \in Nat
    PROVE  Context!Max({a, b}) = IF a >= b THEN a ELSE b
<1> DEFINE m == IF a >= b THEN a ELSE b
<1>1. m \in {a, b} /\ \A y \in {a, b} : m >= y
  OBVIOUS
<1>2. \A x \in {a, b} : (\A y \in {a, b} : x >= y) => x = m
  OBVIOUS
<1> HIDE DEF m
<1>3. (CHOOSE x \in {a, b} : \A y \in {a, b} : x >= y) = m
  BY <1>1, <1>2
<1> QED
  BY <1>3 DEF Context!Max, m

LEMMA OlderIsMin ==
    ASSUME NEW a \in Nat, NEW limit \in Nat
    PROVE  Context!Older(a, limit) = IF a + 1 <= limit THEN a + 1 ELSE limit
<1> DEFINE b == a + 1
           m == IF b <= limit THEN b ELSE limit
<1>1. b \in Nat
  OBVIOUS
<1> HIDE DEF b
<1>2. m \in {b, limit} /\ \A y \in {b, limit} : m <= y
  BY <1>1
<1>3. \A x \in {b, limit} : (\A y \in {b, limit} : x <= y) => x = m
  BY <1>1
<1> HIDE DEF m
<1>4. (CHOOSE x \in {b, limit} : \A y \in {b, limit} : x <= y) = m
  BY <1>2, <1>3
<1> QED
  BY <1>4 DEF Context!Older, Context!Min, m, b

LEMMA PackImplies == ASSUME PackBounds, PackInv PROVE Context!InvalidatedPacksGo
<1>1. Context!TypeOK /\ OldPacksAge
  BY DEF PackInv
<1>2. CASE Context!Usable
  <2>1. packMemory.age <= PackTtl /\ Context!Served = packMemory.pack
    BY <1>2 DEF Context!Usable, Context!Served
  <2>2. ~(packMemory.age > PackTtl)
    BY <2>1, <1>1, PackNumbers
  <2>3. applied <= packMemory.age + FetchLag => applied <= PackTtl + FetchLag
    BY <2>1, <1>1, PackNumbers
  <2> QED
    BY <1>1, <2>1, <2>2, <2>3 DEF OldPacksAge, Context!InvalidatedPacksGo
<1>3. CASE ~Context!Usable
  BY <1>1, <1>3 DEF Context!Served, OldPacksAge, Context!InvalidatedPacksGo
<1> QED
  BY <1>2, <1>3

LEMMA PackInit == ASSUME PackBounds, Context!Init PROVE PackInv
<1>1. Context!TypeOK
  <2>1. /\ Context!None \in Context!Pack
        /\ 1 \in Context!Pack \ {Context!None} /\ 0 \in 0 .. PackTtl + 1
        /\ 0 \in 0 .. MaxChanges
        /\ 0 \in 0 .. FetchLag /\ Context!Long \in 0 .. Context!Long
    BY DEF Context!Pack, Context!None, PackBounds, Context!Long
  <2>2. packMemory \in [pack : Context!Pack, age : 0 .. PackTtl + 1]
    BY <2>1 DEF Context!Init, Context!Empty
  <2>3. log \in Seq(Context!Pack)
    BY DEF Context!Init
  <2>4. /\ packStep \in [Actors -> {"idle", "read", "replace", "reset"}]
        /\ packHeld \in [Actors -> Context!Pack]
        /\ age \in [Actors -> 0 .. FetchLag]
    BY <2>1 DEF Context!Init
  <2> QED
    BY <2>1, <2>2, <2>3, <2>4 DEF Context!Init, Context!TypeOK
<1>2. ToldOfThePast
  BY DEF Context!Init, ToldOfThePast, PackBounds, Context!None
<1>3. OldPacksAge
  BY DEF Context!Init, OldPacksAge, Context!Empty, Context!None
<1> QED
  BY <1>1, <1>2, <1>3 DEF PackInv

-----------------------------------------------------------------------------
LEMMA PackTick == ASSUME PackBounds, PackInv, Context!Tick PROVE PackInv'
<1> USE DEF PackInv
<1>1. /\ \A t \in Actors : packStep[t] = "read" => age[t] < FetchLag
      /\ age' = [t \in Actors |-> IF packStep[t] = "read" THEN age[t] + 1
           ELSE 0]
      /\ packMemory' = IF packMemory = Context!Empty THEN Context!Empty
           ELSE [packMemory EXCEPT !.age = Context!Older(@, PackTtl + 1)]
      /\ applied' = Context!Older(applied, Context!Long)
      /\ UNCHANGED <<pack, log, packDisk, packStep, packHeld, last, poll,
           version, told, due>>
  BY DEF Context!Tick, Context!server, Context!worker
<1>2. applied' = IF applied + 1 <= Context!Long THEN applied + 1
            ELSE Context!Long
  BY <1>1, OlderIsMin, PackNumbers
<1>3. applied' \in 0 .. Context!Long /\ applied' <= applied + 1
            /\ applied' \in Nat
  BY <1>2, PackNumbers
<1>4. age' \in [Actors -> 0 .. FetchLag]
            /\ \A t \in Actors : packStep[t] = "read" => age'[t] = age[t] + 1
  <2>1. \A t \in Actors : age[t] \in 0 .. FetchLag /\ age[t] \in Nat
    BY PackNumbers DEF Context!TypeOK
  <2>2. FetchLag \in Nat /\ 0 \in 0 .. FetchLag
    BY PackNumbers
  <2>3. \A t \in Actors : packStep[t] = "read" => age[t] + 1 \in 0 .. FetchLag
    BY <1>1, <2>1, <2>2
  <2> QED
    BY <1>1, <2>2, <2>3
<1>5. /\ packMemory' \in [pack : Context!Pack, age : 0 .. PackTtl + 1]
           /\ packMemory'.pack = packMemory.pack
      /\ packMemory.pack = Context!None
           \/ packMemory'.age = IF packMemory.age + 1
                <= PackTtl + 1 THEN packMemory.age + 1 ELSE PackTtl + 1
  <2>1. CASE packMemory = Context!Empty
    BY <1>1, <2>1, PackNumbers
  <2>2. CASE packMemory # Context!Empty
    <3> DEFINE a == Context!Older(packMemory.age, PackTtl + 1)
    <3>1. PackTtl + 1 \in Nat
      BY PackNumbers
    <3>2. a = IF packMemory.age + 1 <= PackTtl + 1 THEN packMemory.age + 1
                ELSE PackTtl + 1
      BY <3>1, OlderIsMin, PackNumbers
    <3>3. a \in 0 .. PackTtl + 1
      BY <3>2, PackNumbers
    <3>4. packMemory' = [packMemory EXCEPT !.age = a]
      BY <1>1, <2>2
    <3> HIDE DEF a
    <3>5. packMemory' = [pack |-> packMemory.pack, age |-> a]
      BY <3>4, PackNumbers
    <3> QED
      BY <3>2, <3>3, <3>5, PackNumbers
  <2> QED
    BY <2>1, <2>2
<1>6. Context!TypeOK'
  BY <1>1, <1>3, <1>4, <1>5 DEF Context!TypeOK
<1>7. ToldOfThePast'
  BY <1>1 DEF ToldOfThePast
<1>8. OldPacksAge'
  <2>1. ASSUME NEW t \in Actors, packStep[t] = "read"
        PROVE  packHeld[t] = Context!None \/ packHeld[t] >= due \/ applied'
            <= age'[t]
    <3>1. applied <= age[t] => applied' <= age'[t]
      <4>1. applied \in Nat /\ age[t] \in Nat /\ age'[t] = age[t] + 1
        BY <1>4, <2>1, PackNumbers
      <4> QED
        BY <1>3, <4>1
    <3> QED
      BY <2>1, <3>1 DEF OldPacksAge
  <2>2. \/ packMemory'.pack = Context!None \/ packMemory'.pack >= due
        \/ packMemory'.age > PackTtl \/ applied' <= packMemory'.age + FetchLag
    <3>1. CASE packMemory.pack = Context!None \/ packMemory.pack >= due
      BY <1>5, <3>1
    <3>2. CASE packMemory.pack # Context!None /\ packMemory.age > PackTtl
      BY <1>5, <3>2, PackNumbers
    <3>3. CASE packMemory.pack # Context!None /\ ~(packMemory.age > PackTtl)
                /\ applied <= packMemory.age + FetchLag
      <4>1. packMemory'.age = packMemory.age + 1
        BY <1>5, <3>3, PackNumbers
      <4> QED
        <5>1. applied \in Nat /\ packMemory.age \in Nat /\ FetchLag \in Nat
          BY PackNumbers
        <5> QED
          BY <1>3, <3>3, <4>1, <5>1
    <3> QED
      BY <3>1, <3>2, <3>3 DEF OldPacksAge
  <2> QED
    BY <1>1, <2>1, <2>2 DEF OldPacksAge
<1> QED
  BY <1>6, <1>7, <1>8

\* What the server does changes nothing the worker has been told.
LEMMA ServerMoves == ASSUME PackBounds, PackInv, Context!Change
    \/ Context!FallBack PROVE PackInv'
<1> USE DEF PackInv
<1>1. UNCHANGED <<packDisk, packMemory, packStep, packHeld, age, last, poll,
            version, told, due, applied>>
  BY DEF Context!Change, Context!FallBack, Context!cache, Context!caller,
     Context!worker, Context!ghost
<1>2. /\ pack' \in Context!Pack \ {Context!None} /\ pack <= pack'
      /\ log' \in Seq(Context!Pack)
      /\ Len(log') <= MaxChanges /\ \A i \in 1 .. Len(log') : log'[i] <= pack'
  <2>1. CASE Context!Change
    <3>1. PICK e \in {Context!None, pack + 1} : log' = Append(log, e)
                /\ pack' \in {pack, pack + 1} /\ e <= pack'
      <4>1. Context!None <= pack
        BY PackNumbers
      <4>2. CASE pack' = pack + 1 /\ log' = Append(log, pack')
        BY <4>2, PackNumbers
      <4>3. CASE pack' = pack /\ log' = Append(log, Context!None)
        BY <4>1, <4>3
      <4> QED
        BY <2>1, <4>2, <4>3 DEF Context!Change
    <3>2. Len(log) < MaxChanges /\ pack <= MaxChanges
      BY <2>1 DEF Context!Change
    <3>3. pack + 1 \in Context!Pack \ {Context!None} /\ e \in Context!Pack
                /\ pack' \in Nat /\ pack <= pack' /\ e \in Nat
      <4>1. pack \in Nat \ {0} /\ MaxChanges \in Nat /\ Context!None = 0
        BY PackNumbers
      <4>2. pack + 1 \in Context!Pack \ {Context!None}
                  /\ Context!None \in Context!Pack
        BY <3>2, <4>1 DEF Context!Pack
      <4> QED
        BY <3>1, <4>1, <4>2
    <3>4. log' \in Seq(Context!Pack) /\ Len(log') = Len(log) + 1
                /\ log'[Len(log) + 1] = e
          /\ \A i \in 1 .. Len(log) : log'[i] = log[i]
      BY <3>1, <3>3, PackNumbers
    <3>5. \A i \in 1 .. Len(log) : log[i] <= pack'
      <4>1. \A i \in 1 .. Len(log) : log[i] \in Nat /\ log[i] <= pack
        BY PackNumbers DEF ToldOfThePast
      <4>2. pack \in Nat
        BY PackNumbers
      <4> QED
        BY <3>3, <4>1, <4>2
    <3>6. \A i \in 1 .. Len(log') : i = Len(log) + 1 \/ i \in 1 .. Len(log)
      BY <3>4, PackNumbers
    <3> QED
      <4>1. Len(log') <= MaxChanges
        BY <3>2, <3>4, PackNumbers
      <4>2. \A i \in 1 .. Len(log') : log'[i] <= pack'
        BY <3>1, <3>4, <3>5, <3>6
      <4>3. pack' \in Context!Pack \ {Context!None}
        BY <3>1, <3>3 DEF Context!TypeOK
      <4> QED
        BY <3>3, <3>4, <4>1, <4>2, <4>3
  <2>2. CASE Context!FallBack
    <3> DEFINE n == Len(log) - 1
    <3>1. log # <<>> /\ log' = SubSeq(log, 1, n) /\ pack' = pack
      BY <2>2 DEF Context!FallBack
    <3>2. n \in Nat /\ n <= Len(log) /\ Len(log) \in Nat /\ n <= MaxChanges
      BY <3>1, PackNumbers DEF ToldOfThePast
    <3> HIDE DEF n
    <3>3. log' \in Seq(Context!Pack) /\ Len(log') = n
                /\ \A i \in 1 .. n : log'[i] = log[i] /\ i \in 1 .. Len(log)
      <4>1. \A i \in 1 .. n : log[i] \in Context!Pack /\ i \in 1 .. Len(log)
        BY <3>2, PackNumbers
      <4>2. n \in Int /\ 1 \in Int
        BY <3>2
      <4>3. /\ SubSeq(log, 1, n) \in Seq(Context!Pack)
                 /\ Len(SubSeq(log, 1, n)) = IF 1 <= n THEN n - 1 + 1 ELSE 0
            /\ \A i \in 1 .. n - 1 + 1 : SubSeq(log, 1, n)[i] = log[1 + i - 1]
        BY <4>1, <4>2, SubSeqProperties
      <4> QED
        BY <3>1, <3>2, <4>1, <4>3
    <3> QED
      BY <3>1, <3>2, <3>3, PackNumbers DEF Context!TypeOK, ToldOfThePast
  <2> QED
    BY <2>1, <2>2
<1>3. due <= pack' /\ told <= pack'
  <2>1. pack' \in Nat
    BY <1>2, PackNumbers DEF Context!Pack
  <2> QED
    BY <1>2, <2>1, PackNumbers DEF ToldOfThePast
<1>4. Context!TypeOK'
  BY <1>1, <1>2 DEF Context!TypeOK
<1>5. ToldOfThePast'
  BY <1>1, <1>2, <1>3 DEF ToldOfThePast
<1>6. OldPacksAge'
  BY <1>1 DEF OldPacksAge
<1> QED
  BY <1>4, <1>5, <1>6

\* The threads.
LEMMA ThreadMoves ==
    ASSUME PackBounds, PackInv, NEW t \in Actors,
           Context!Read(t) \/ Context!Load(t) \/ Context!Fetch(t)
               \/ Context!Replace(t) \/ Context!Reset(t)
                    \/ Context!StoreFails(t)
    PROVE  PackInv'
<1> USE DEF PackInv
<1>0. UNCHANGED <<pack, log, last, poll, version, told, due, applied>>
  BY DEF Context!Read, Context!Load, Context!Fetch, Context!Replace,
     Context!Reset, Context!StoreFails, Context!server, Context!worker,
     Context!ghost
<1>1. ToldOfThePast'
  BY <1>0 DEF ToldOfThePast
<1>2. /\ packStep \in [Actors -> {"idle", "read", "replace", "reset"}]
      /\ packHeld \in [Actors -> Context!Pack]
      /\ age \in [Actors -> 0 .. FetchLag]
      /\ 0 \in 0 .. FetchLag /\ Context!None \in Context!Pack
      /\ pack \in Context!Pack
  <2>1. 0 \in 0 .. FetchLag
    BY DEF PackBounds
  <2>2. Context!None \in Context!Pack
    BY PackNumbers
  <2> QED
    BY <2>1, <2>2 DEF Context!TypeOK
<1>3. /\ packStep' \in [Actors -> {"idle", "read", "replace", "reset"}]
      /\ \A u \in Actors : u # t => packStep'[u] = packStep[u]
  BY <1>2 DEF Context!Read, Context!Load, Context!Fetch, Context!Replace,
     Context!Reset, Context!StoreFails, Context!Goes
<1>4. /\ packHeld' \in [Actors -> Context!Pack]
      /\ age' \in [Actors -> 0 .. FetchLag]
      /\ \A u \in Actors : u # t => packHeld'[u] = packHeld[u]
           /\ age'[u] = age[u]
  <2>1. \/ \E p \in Context!Pack : packHeld' = [packHeld EXCEPT ![t] = p]
             /\ age' = age
        \/ packHeld' = [packHeld EXCEPT ![t] = Context!None]
             /\ age' = [age EXCEPT ![t] = 0]
        \/ packHeld' = packHeld /\ age' = age
    BY <1>2 DEF Context!Read, Context!Load, Context!Fetch, Context!Replace,
       Context!Reset, Context!StoreFails, Context!Forget, Context!TypeOK
  <2>2. CASE \E p \in Context!Pack : packHeld' = [packHeld EXCEPT ![t] = p]
              /\ age' = age
    BY <1>2, <2>2
  <2>3. CASE packHeld' = [packHeld EXCEPT ![t] = Context!None]
              /\ age' = [age EXCEPT ![t] = 0]
    BY <1>2, <2>3
  <2> QED
    BY <1>2, <2>1, <2>2, <2>3
<1>5. packDisk' \in Context!Pack
            /\ packMemory' \in [pack : Context!Pack, age : 0 .. PackTtl + 1]
  <2>1. CASE Context!Load(t)
    <3>1. /\ packDisk' = packDisk
          /\ packMemory' = IF packHeld[t] = Context!None THEN packMemory
               ELSE [pack |-> packHeld[t], age |-> 0]
      BY <2>1 DEF Context!Load
    <3>2. 0 \in 0 .. PackTtl + 1
      BY PackNumbers
    <3> QED
      BY <1>2, <3>1, <3>2 DEF Context!TypeOK
  <2>2. CASE Context!Replace(t)
    BY <1>2, <2>2 DEF Context!Replace, Context!TypeOK
  <2>3. CASE Context!Reset(t)
    BY <2>3, PackNumbers DEF Context!Reset, Context!TypeOK
  <2>4. CASE Context!Read(t) \/ Context!Fetch(t) \/ Context!StoreFails(t)
    BY <2>4 DEF Context!Read, Context!Fetch, Context!StoreFails,
       Context!cache, Context!TypeOK
  <2> QED
    BY <2>1, <2>2, <2>3, <2>4
<1>6. Context!TypeOK'
  BY <1>0, <1>3, <1>4, <1>5 DEF Context!TypeOK
<1>7. /\ \A u \in Actors : u # t /\ packStep'[u] = "replace"
           => packHeld'[u] >= due
      /\ \A u \in Actors : u # t /\ packStep'[u] = "read" =>
            packHeld'[u] = Context!None \/ packHeld'[u] >= due \/ applied
                <= age'[u]
  BY <1>3, <1>4 DEF OldPacksAge
<1>8. CASE Context!Read(t)
  <2>1. packStep'[t] = "read" /\ packHeld'[t] = packDisk
              /\ UNCHANGED <<packDisk, packMemory>>
    BY <1>2, <1>8 DEF Context!Read, Context!Goes, Context!cache
  <2> QED
    BY <1>0, <1>1, <1>6, <1>7, <2>1 DEF OldPacksAge
<1>9. CASE Context!Load(t)
  <2>1. /\ packStep'[t] = "idle" /\ packDisk' = packDisk /\ packStep[t] = "read"
        /\ packMemory' = IF packHeld[t] = Context!None THEN packMemory
             ELSE [pack |-> packHeld[t], age |-> 0]
    BY <1>2, <1>9 DEF Context!Load, Context!Goes
  <2>2. \/ packMemory'.pack = Context!None \/ packMemory'.pack >= due
        \/ packMemory'.age > PackTtl \/ applied <= packMemory'.age + FetchLag
    <3>1. CASE packHeld[t] = Context!None
      BY <2>1, <3>1 DEF OldPacksAge
    <3>2. CASE packHeld[t] # Context!None
      <4>1. packMemory'.pack = packHeld[t] /\ packMemory'.age = 0
        BY <2>1, <3>2
      <4>2. applied <= age[t] => applied <= 0 + FetchLag
        BY <1>2, PackNumbers
      <4> QED
        BY <2>1, <3>2, <4>1, <4>2 DEF OldPacksAge
    <3> QED
      BY <3>1, <3>2
  <2> QED
    BY <1>0, <1>1, <1>6, <1>7, <2>1, <2>2 DEF OldPacksAge
<1>10. CASE Context!Fetch(t)
  <2>1. packStep'[t] = "replace" /\ packHeld'[t] = pack /\ UNCHANGED <<packDisk,
              packMemory>>
    BY <1>2, <1>10 DEF Context!Fetch, Context!Goes, Context!cache
  <2>2. pack >= due
    BY PackNumbers DEF ToldOfThePast
  <2> QED
    BY <1>0, <1>1, <1>6, <1>7, <2>1, <2>2 DEF OldPacksAge
<1>11. CASE Context!Replace(t)
  <2>1. packStep[t] = "replace" /\ packStep'[t] = "reset"
              /\ packDisk' = packHeld[t] /\ packMemory' = packMemory
    BY <1>2, <1>11 DEF Context!Replace, Context!Goes
  <2> QED
    BY <1>0, <1>1, <1>6, <1>7, <2>1 DEF OldPacksAge
<1>12. CASE Context!Reset(t)
  <2>1. packStep'[t] = "idle" /\ packDisk' = packDisk
              /\ packMemory'.pack = Context!None
    BY <1>2, <1>12, PackNumbers DEF Context!Reset, Context!Goes
  <2> QED
    BY <1>0, <1>1, <1>6, <1>7, <2>1 DEF OldPacksAge
<1>13. CASE Context!StoreFails(t)
  <2>1. packStep'[t] = "idle" /\ UNCHANGED <<packDisk, packMemory>>
    BY <1>2, <1>13 DEF Context!StoreFails, Context!Goes, Context!cache
  <2> QED
    BY <1>0, <1>1, <1>6, <1>7, <2>1 DEF OldPacksAge
<1> QED
  BY <1>8, <1>9, <1>10, <1>11, <1>12, <1>13

\* The worker's steps up to the removal of the file, and a restart.
LEMMA WorkerMoves ==
    ASSUME PackBounds, PackInv,
           Context!PollVersion \/ Context!Regressed \/ Context!FetchEvents
               \/ Context!PollFails \/ Context!Pop
    PROVE  PackInv'
<1> USE DEF PackInv
<1>1. /\ UNCHANGED <<pack, log, packDisk, packStep, packHeld, age, due,
           applied>>
      /\ packMemory' \in {packMemory, Context!Empty}
  BY DEF Context!PollVersion, Context!Regressed, Context!FetchEvents,
     Context!PollFails, Context!Pop, Context!server, Context!cache,
     Context!caller, Context!ghost
<1>2. /\ poll' \in {"idle", "fetch", "pop", "remove"}
      /\ last' \in 0 .. MaxChanges /\ version' \in 0 .. MaxChanges
      /\ told' \in Context!Pack /\ told' <= pack
  <2>0. 0 \in 0 .. MaxChanges /\ Context!None \in Context!Pack /\ Context!None
              <= pack /\ pack <= pack /\ Len(log) \in 0 .. MaxChanges
        /\ pack \in Context!Pack
    BY PackNumbers DEF ToldOfThePast, Context!TypeOK
  <2>1. CASE Context!PollVersion \/ Context!PollFails
    BY <2>0, <2>1 DEF Context!PollVersion, Context!PollFails, Context!Goal,
       Context!TypeOK
  <2>2. CASE Context!Regressed
    BY <2>0, <2>2 DEF Context!Regressed, Context!Goal, Context!TypeOK
  <2>3. CASE Context!Pop
    BY <2>3 DEF Context!Pop, Context!TypeOK, ToldOfThePast
  <2>4. CASE Context!FetchEvents
    <3>1. CASE Context!Goal("pop", Len(log), pack) /\ UNCHANGED last
      BY <2>0, <3>1 DEF Context!Goal, Context!TypeOK
    <3>2. ASSUME NEW v \in last + 1 .. Len(log), NEW i \in last + 1 .. Len(log),
                 Context!Goal("pop", v, log[i]), UNCHANGED last
          PROVE  /\ poll' = "pop" /\ last' \in 0 .. MaxChanges
                 /\ version' \in 0 .. MaxChanges
                 /\ told' \in Context!Pack /\ told' <= pack
      <4>1. last \in Nat /\ v \in 0 .. MaxChanges /\ i \in 1 .. Len(log)
        BY PackNumbers DEF ToldOfThePast, Context!TypeOK
      <4>2. log[i] \in Context!Pack /\ log[i] <= pack
        BY <4>1, PackNumbers DEF ToldOfThePast
      <4> QED
        BY <3>2, <4>1, <4>2 DEF Context!Goal, Context!TypeOK
    <3>3. ASSUME NEW v \in last + 1 .. Len(log),
                Context!Goal("idle", 0, Context!None), last' = v
          PROVE  /\ poll' = "idle" /\ last' \in 0 .. MaxChanges
                 /\ version' \in 0 .. MaxChanges
                 /\ told' \in Context!Pack /\ told' <= pack
      <4>1. v \in 0 .. MaxChanges
        BY PackNumbers DEF ToldOfThePast, Context!TypeOK
      <4> QED
        BY <2>0, <3>3, <4>1 DEF Context!Goal
    <3> QED
      BY <2>4, <3>1, <3>2, <3>3 DEF Context!FetchEvents, Context!Goal
  <2> QED
    BY <2>1, <2>2, <2>3, <2>4
<1>3. Context!TypeOK'
  BY <1>1, <1>2, PackNumbers DEF Context!TypeOK
<1>4. ToldOfThePast'
  BY <1>1, <1>2 DEF ToldOfThePast
<1>5. OldPacksAge'
  <2>1. CASE packMemory' = packMemory
    BY <1>1, <2>1 DEF OldPacksAge
  <2>2. CASE packMemory' = Context!Empty
    BY <1>1, <2>2, PackNumbers DEF OldPacksAge
  <2> QED
    BY <1>1, <2>1, <2>2
<1> QED
  BY <1>3, <1>4, <1>5

LEMMA PackRestart == ASSUME PackBounds, PackInv, Context!Restart PROVE PackInv'
<1> USE DEF PackInv
<1>1. /\ packMemory' = Context!Empty /\ packStep' = [t \in Actors |-> "idle"]
      /\ packHeld' = [t \in Actors |-> Context!None]
      /\ age' = [t \in Actors |-> 0] /\ last' = 0 /\ poll' = "idle"
      /\ version' = 0 /\ told' = Context!None
      /\ UNCHANGED <<pack, log, packDisk, due, applied>>
  BY DEF Context!Restart, Context!Goal, Context!server, Context!ghost
<1>2. 0 \in 0 .. MaxChanges /\ 0 \in 0 .. FetchLag /\ Context!None <= pack
  BY PackNumbers
<1>3. Context!TypeOK'
  BY <1>1, <1>2, PackNumbers DEF Context!TypeOK
<1>4. ToldOfThePast'
  BY <1>1, <1>2 DEF ToldOfThePast
<1>5. OldPacksAge'
  BY <1>1, PackNumbers DEF OldPacksAge
<1> QED
  BY <1>3, <1>4, <1>5

LEMMA PackRemove == ASSUME PackBounds, PackInv, Context!Remove PROVE PackInv'
<1> USE DEF PackInv
<1>1. UNCHANGED <<pack, log, packMemory, packStep, packHeld, age>>
  BY DEF Context!Remove, Context!server, Context!caller
<1>2. last' = version /\ poll' = "idle" /\ version' = 0 /\ told' = Context!None
  BY DEF Context!Remove, Context!Applied, Context!Goal
<1>3. 0 \in 0 .. MaxChanges /\ Context!None <= pack
            /\ Context!None \in Context!Pack
            /\ Context!Long \in 0 .. Context!Long /\ 0 \in 0 .. Context!Long
      /\ Context!None = 0
  BY PackNumbers
<1>4. CASE packDisk' \in {Context!None, packDisk} /\ due' = Context!None
            /\ applied' = Context!Long
  <2>1. Context!TypeOK'
    BY <1>1, <1>2, <1>3, <1>4 DEF Context!TypeOK
  <2>2. ToldOfThePast'
    BY <1>1, <1>2, <1>3, <1>4 DEF ToldOfThePast
  <2>3. packDisk' >= due' /\ packMemory'.pack >= due'
              /\ \A t \in Actors : packHeld'[t] >= due'
    BY <1>1, <1>3, <1>4, PackNumbers
  <2> QED
    BY <2>1, <2>2, <2>3 DEF OldPacksAge
<1>5. CASE packDisk' = Context!None /\ ~Context!Storing
            /\ due' = Context!Max({due, told}) /\ applied' = 0
  <2>1. due' = IF due >= told THEN due ELSE told
    BY <1>5, MaxOfTwo, PackNumbers
  <2>2. due' \in Context!Pack /\ due' <= pack
    BY <2>1 DEF Context!TypeOK, ToldOfThePast
  <2>3. Context!TypeOK'
    BY <1>1, <1>2, <1>3, <1>5, <2>2 DEF Context!TypeOK
  <2>4. ToldOfThePast'
    BY <1>1, <1>2, <1>3, <2>2 DEF ToldOfThePast
  <2>5. \A t \in Actors : packStep'[t] # "replace"
    BY <1>1, <1>5 DEF Context!Storing
  <2>6. applied' <= packMemory'.age + FetchLag /\ \A t \in Actors : applied'
              <= age'[t]
    BY <1>1, <1>5, PackNumbers
  <2> QED
    BY <1>5, <2>3, <2>4, <2>5, <2>6 DEF OldPacksAge
<1>6. \/ packDisk' \in {Context!None, packDisk} /\ due' = Context!None
           /\ applied' = Context!Long
      \/ packDisk' = Context!None /\ ~Context!Storing
           /\ due' = Context!Max({due, told}) /\ applied' = 0
  BY DEF Context!Remove, Context!Applied
<1> QED
  BY <1>4, <1>5, <1>6

LEMMA PackStays == ASSUME PackInv, UNCHANGED Context!vars PROVE PackInv'
<1>1. UNCHANGED <<pack, log, packDisk, packMemory, packStep, packHeld, age>>
  BY DEF Context!vars, Context!server, Context!cache, Context!caller
<1>2. UNCHANGED <<last, poll, version, told, due, applied>>
  BY DEF Context!vars, Context!worker, Context!ghost
<1>3. Context!TypeOK'
  BY <1>1, <1>2 DEF PackInv, Context!TypeOK
<1>4. ToldOfThePast'
  BY <1>1, <1>2 DEF PackInv, ToldOfThePast
<1>5. OldPacksAge'
  BY <1>1, <1>2 DEF PackInv, OldPacksAge
<1> QED
  BY <1>3, <1>4, <1>5 DEF PackInv

LEMMA PackStep == ASSUME PackBounds, PackInv, [Context!Next]_(Context!vars)
PROVE PackInv'
  BY PackTick, ServerMoves, ThreadMoves, WorkerMoves, PackRestart, PackRemove,
     PackStays DEF Context!Next

-----------------------------------------------------------------------------
(* The Go cache.  It follows the version it has recorded, for any number of *)
(* goroutines that poll, look up, edit, load and persist at once.          *)
\* What the code takes for granted of its parameters.
GoBounds ==
    /\ Agents # {} /\ Pollers \subseteq GoCache!Goroutines
    /\ MaxVersion \in Nat \ {0}

\* A state with version v, of which the agents in `surely` are there and at
\* most those in `maybe`, is what the server had at v, but for the host's calls
\* and the entries removed.
Agrees(v, blanket, surely, maybe) ==
    v # GoCache!NoVersion =>
        /\ v \in 1 .. GoCache!Version
        /\ hostFlag \/ blanket = history[v].blanket
        /\ maybe \subseteq history[v].killed \cup hostKills
        /\ history[v].blanket \/ history[v].killed \subseteq surely \cup
             released

CacheAgrees == Agrees(mem.version, mem.blanket, mem.revoked, mem.revoked)

FileAgrees ==
    goPath.version # GoCache!NoFile =>
        Agrees(goPath.version, goPath.blanket, goPath.revoked, goPath.revoked)

HeldAgrees ==
    \A g \in GoCache!Goroutines :
        /\ goHeld[g].surely \subseteq goHeld[g].maybe
        /\ Agrees(goHeld[g].version, goHeld[g].blanket, goHeld[g].surely,
             goHeld[g].maybe)

\* A poll acts on an answer the server has given.
Answers ==
    \A g \in GoCache!Goroutines :
        /\ goPc[g] \in {"fast", "compare", "applyFast", "apply"}
           => reply[g] \in 1 .. GoCache!Version
        /\ goPc[g] = "applyFast" => history[reply[g]].blanket

GoInv == GoCache!TypeOK /\ CacheAgrees /\ FileAgrees /\ HeldAgrees /\ Answers

LEMMA EmptyTypes ==
    ASSUME GoBounds
    PROVE  /\ GoCache!NoJob \in [op : {"look", "revoke"}, agent : Agents]
           /\ GoCache!NoSnapshot \in GoCache!Snapshot
           /\ GoCache!NoSnapshot.version = GoCache!NoVersion
           /\ GoCache!NoSnapshot.surely = {} /\ GoCache!NoSnapshot.maybe = {}
           /\ GoCache!EmptyCache \in GoCache!Cache
           /\ GoCache!EmptyCache.version = GoCache!NoVersion
BY DEF GoBounds, GoCache!NoJob, GoCache!NoSnapshot, GoCache!Snapshot,
   GoCache!EmptyCache, GoCache!Cache, GoCache!NoVersion

LEMMA ServerStates ==
    ASSUME GoCache!TypeOK, NEW v \in 1 .. GoCache!Version
    PROVE  history[v].blanket \in BOOLEAN /\ history[v].killed \subseteq Agents
<1>1. history[v] \in GoCache!ServerState
  BY DEF GoCache!TypeOK, GoCache!Version
<1> QED
  BY <1>1 DEF GoCache!ServerState

LEMMA GoInit == GoBounds /\ GoCache!Init => GoInv
<1> SUFFICES ASSUME GoBounds, GoCache!Init PROVE GoInv
  OBVIOUS
<1>1. PICK b \in BOOLEAN, K \in SUBSET Agents :
         history = <<[blanket |-> b, killed |-> K]>>
  BY DEF GoCache!Init
<1>2. history \in Seq(GoCache!ServerState) /\ GoCache!Version = 1
  BY <1>1 DEF GoCache!ServerState, GoCache!Version
<1>3. /\ mem \in GoCache!Cache /\ mem.version = GoCache!NoVersion
      /\ goPath \in GoCache!File /\ goPath.version = GoCache!NoFile
  BY EmptyTypes DEF GoCache!Init, GoCache!File
<1>4. goPc \in [GoCache!Goroutines -> GoCache!PCs]
            /\ \A g \in GoCache!Goroutines : goPc[g] = "idle"
  BY DEF GoCache!Init, GoCache!PCs
<1>5. /\ reply \in [GoCache!Goroutines -> 0 .. MaxVersion]
      /\ job \in [GoCache!Goroutines -> [op : {"look", "revoke"}, agent :
           Agents]]
      /\ goHeld \in [GoCache!Goroutines -> GoCache!Snapshot]
      /\ \A g \in GoCache!Goroutines : goHeld[g] = GoCache!NoSnapshot
  BY EmptyTypes DEF GoCache!Init, GoBounds, GoCache!NoVersion
<1>6. hostKills \subseteq Agents /\ released \subseteq Agents
      /\ worker \in {"none", "running", "stopping"}
  BY DEF GoCache!Init
<1>7. hostFlag \in BOOLEAN
  BY Zenon DEF GoCache!Init
<1>8. GoCache!TypeOK
  BY <1>2, <1>3, <1>4, <1>5, <1>6, <1>7 DEF GoCache!TypeOK, GoBounds
<1>9. CacheAgrees /\ FileAgrees /\ Answers
  BY <1>3, <1>4 DEF CacheAgrees, FileAgrees, Answers, Agrees
<1>10. HeldAgrees
  BY <1>5, EmptyTypes DEF HeldAgrees, Agrees
<1> QED
  BY <1>8, <1>9, <1>10 DEF GoInv

\* A goroutine moves on; cache, file and what is held stay.
LEMMA PollMoves ==
    ASSUME GoInv, UNCHANGED <<history, mem, goPath, goHeld, GoCache!ghost>>,
        GoCache!TypeOK', Answers'
    PROVE  GoInv'
BY DEF GoInv, CacheAgrees, FileAgrees, HeldAgrees, Agrees, GoCache!ghost,
   GoCache!Version

\* Neither server nor host changes anything.
LEMMA CacheMoves ==
    ASSUME GoInv, UNCHANGED <<history, GoCache!ghost>>, GoCache!TypeOK',
        Answers',
           Agrees(mem'.version, mem'.blanket, mem'.revoked, mem'.revoked),
           goPath'.version # GoCache!NoFile =>
              Agrees(goPath'.version, goPath'.blanket, goPath'.revoked,
                  goPath'.revoked),
           \A g \in GoCache!Goroutines :
              /\ goHeld'[g].surely \subseteq goHeld'[g].maybe
              /\ Agrees(goHeld'[g].version, goHeld'[g].blanket,
                   goHeld'[g].surely,
                        goHeld'[g].maybe)
    PROVE  GoInv'
BY DEF GoInv, CacheAgrees, FileAgrees, HeldAgrees, Agrees, GoCache!ghost,
   GoCache!Version

\* A goroutine comes to a step at which it holds no answer.
LEMMA AnswersStay ==
    ASSUME GoInv, NEW g \in GoCache!Goroutines,
           NEW step \in GoCache!PCs \ {"fast", "compare", "applyFast", "apply"},
           GoCache!Goto(g, step), UNCHANGED history,
           reply' = reply \/ reply' = [reply EXCEPT ![g] = GoCache!NoVersion]
    PROVE  Answers' /\ goPc' \in [GoCache!Goroutines -> GoCache!PCs]
BY DEF GoInv, GoCache!TypeOK, Answers, GoCache!Goto, GoCache!Version

LEMMA ApplyKeeps ==
    ASSUME GoBounds, GoInv, NEW g \in GoCache!Goroutines,
        NEW blanket \in BOOLEAN,
           NEW killed \in SUBSET history[reply[g]].killed,
           reply[g] \in 1 .. GoCache!Version,
               blanket = history[reply[g]].blanket,
           killed = history[reply[g]].killed \/ blanket,
           GoCache!ApplyServerState(g, blanket, killed)
    PROVE  GoInv'
<1> USE DEF GoInv
<1>1. /\ mem' = [revoked |-> killed, blanket |-> blanket, loaded |-> TRUE,
                 version |-> reply[g]]
      /\ goHeld' = GoCache!Unshared /\ GoCache!Goto(g, "snapshot")
      /\ reply' = [reply EXCEPT ![g] = GoCache!NoVersion]
      /\ UNCHANGED <<history, goPath, worker, job, GoCache!ghost>>
  BY DEF GoCache!ApplyServerState
<1>2. killed \subseteq Agents /\ reply[g] \in Nat
  BY ServerStates
<1>3. /\ mem' \in GoCache!Cache /\ mem'.version = reply[g]
      /\ mem'.blanket = blanket
      /\ mem'.revoked = killed
  BY <1>1, <1>2 DEF GoCache!Cache
<1>4. \A h \in GoCache!Goroutines :
         /\ goHeld'[h] \in GoCache!Snapshot
         /\ goHeld'[h].surely = goHeld[h].surely
         /\ goHeld'[h].maybe = goHeld[h].maybe
         /\ goHeld'[h].blanket = goHeld[h].blanket
         /\ goHeld'[h].version = goHeld[h].version
  BY <1>1 DEF GoCache!Unshared, GoCache!TypeOK, GoCache!Snapshot
<1>5. goHeld' \in [GoCache!Goroutines -> GoCache!Snapshot]
  BY <1>1, <1>4 DEF GoCache!Unshared
<1>6. Answers' /\ goPc' \in [GoCache!Goroutines -> GoCache!PCs]
  BY <1>1, AnswersStay DEF GoCache!PCs
<1>7. reply' \in [GoCache!Goroutines -> 0 .. MaxVersion]
  BY <1>1 DEF GoCache!TypeOK, GoCache!NoVersion, GoBounds
<1>8. UNCHANGED <<history, goPath, worker, job, hostKills, hostFlag, released>>
  BY <1>1 DEF GoCache!ghost
<1>9. GoCache!TypeOK'
  BY <1>3, <1>5, <1>6, <1>7, <1>8 DEF GoCache!TypeOK, GoCache!Version
<1>10. Agrees(mem'.version, mem'.blanket, mem'.revoked, mem'.revoked)
  BY <1>3 DEF Agrees
<1> QED
  BY <1>1, <1>4, <1>6, <1>9, <1>10, CacheMoves DEF HeldAgrees, FileAgrees

LEMMA PollStepKeeps ==
    ASSUME GoBounds, GoInv, NEW g \in GoCache!Goroutines,
        GoCache!PollStep(g) PROVE GoInv'
<1> USE DEF GoInv
<1>1. CASE GoCache!BeginPoll(g) \/ GoCache!RequestFails(g)
            \/ GoCache!Unchanged(g) \/ GoCache!NeedState(g)
  <2>1. PICK step \in {"idle", "askVersion", "askState"} : GoCache!Goto(g, step)
    BY <1>1 DEF GoCache!BeginPoll, GoCache!RequestFails, GoCache!Unchanged,
       GoCache!NeedState, GoCache!EndPoll
  <2>2. /\ reply' = reply \/ reply' = [reply EXCEPT ![g] = GoCache!NoVersion]
        /\ UNCHANGED <<history, mem, goPath, worker, job, goHeld,
             GoCache!ghost>>
    BY <1>1 DEF GoCache!BeginPoll, GoCache!RequestFails, GoCache!Unchanged,
       GoCache!NeedState, GoCache!EndPoll, GoCache!callVars
  <2>3. Answers' /\ goPc' \in [GoCache!Goroutines -> GoCache!PCs]
    BY <2>1, <2>2, AnswersStay DEF GoCache!PCs
  <2>4. GoCache!TypeOK'
    BY <2>2, <2>3 DEF GoCache!TypeOK, GoCache!ghost, GoCache!Version,
       GoCache!NoVersion, GoBounds
  <2> QED
    BY <2>2, <2>3, <2>4, PollMoves
<1>2. CASE GoCache!VersionAnswered(g) \/ GoCache!StateAnswered(g)
  <2>1. PICK next \in {"fast", "apply"} : GoCache!Goto(g, next)
    BY <1>2 DEF GoCache!VersionAnswered, GoCache!StateAnswered,
       GoCache!Answered
  <2>2. /\ reply' = [reply EXCEPT ![g] = GoCache!Version]
        /\ UNCHANGED <<history, mem, goPath, worker, job, goHeld,
             GoCache!ghost>>
    BY <1>2 DEF GoCache!VersionAnswered, GoCache!StateAnswered,
       GoCache!Answered
  <2>3. GoCache!Version' = GoCache!Version
              /\ GoCache!Version \in 1 .. MaxVersion
    BY <2>2 DEF GoCache!TypeOK, GoCache!Version
  <2>4. goPc' \in [GoCache!Goroutines -> GoCache!PCs]
    BY <2>1 DEF GoCache!TypeOK, GoCache!Goto, GoCache!PCs
  <2>5. reply' \in [GoCache!Goroutines -> 0 .. MaxVersion]
    BY <2>2, <2>3 DEF GoCache!TypeOK, GoBounds
  <2>6. GoCache!TypeOK'
    BY <2>2, <2>3, <2>4, <2>5 DEF GoCache!TypeOK, GoCache!ghost
  <2>7. Answers'
    BY <2>1, <2>2, <2>3 DEF GoCache!TypeOK, Answers, GoCache!Goto, GoBounds
  <2> QED
    BY <2>2, <2>6, <2>7, PollMoves
<1>3. CASE GoCache!TestFastPath(g)
  <2>1. PICK next \in {"applyFast", "compare"} :
           /\ GoCache!Goto(g, next)
           /\ next = "applyFast" => history[reply[g]].blanket
    BY <1>3 DEF GoCache!TestFastPath
  <2>2. /\ goPc[g] = "fast"
        /\ UNCHANGED <<history, mem, goPath, worker, reply, job, goHeld,
             GoCache!ghost>>
    BY <1>3 DEF GoCache!TestFastPath, GoCache!callVars
  <2>3. goPc' \in [GoCache!Goroutines -> GoCache!PCs]
    BY <2>1 DEF GoCache!TypeOK, GoCache!Goto, GoCache!PCs
  <2>4. GoCache!TypeOK'
    BY <2>2, <2>3 DEF GoCache!TypeOK, GoCache!ghost, GoCache!Version
  <2>5. Answers'
    BY <2>1, <2>2 DEF GoCache!TypeOK, Answers, GoCache!Goto, GoCache!Version
  <2> QED
    BY <2>2, <2>4, <2>5, PollMoves
<1>4. CASE GoCache!ApplyFast(g)
  <2>1. reply[g] \in 1 .. GoCache!Version /\ history[reply[g]].blanket
    BY <1>4 DEF GoCache!ApplyFast, Answers
  <2>2. history[reply[g]].blanket = TRUE
    BY <2>1, ServerStates
  <2> QED
    BY <1>4, <2>1, <2>2, ApplyKeeps DEF GoCache!ApplyFast
<1>5. CASE GoCache!Apply(g)
  <2>1. reply[g] \in 1 .. GoCache!Version
    BY <1>5 DEF GoCache!Apply, Answers
  <2> QED
    BY <1>5, <2>1, ServerStates, ApplyKeeps DEF GoCache!Apply
<1> QED
  BY <1>1, <1>2, <1>3, <1>4, <1>5 DEF GoCache!PollStep

LEMMA PersistStepKeeps ==
    ASSUME GoBounds, GoInv, NEW g \in GoCache!Goroutines,
        GoCache!PersistStep(g) PROVE GoInv'
<1> USE DEF GoInv
<1>1. CASE GoCache!TakeSnapshot(g)
  <2>1. PICK s \in GoCache!Snapshot :
           /\ goHeld' = [goHeld EXCEPT ![g] = s]
           /\ s.surely = mem.revoked /\ s.maybe = mem.revoked
           /\ s.blanket = mem.blanket /\ s.version = mem.version
    <3>1. [surely |-> mem.revoked, maybe |-> mem.revoked, shared |-> TRUE,
           blanket |-> mem.blanket,
               version |-> mem.version] \in GoCache!Snapshot
      BY DEF GoCache!TypeOK, GoCache!Cache, GoCache!Snapshot
    <3> QED
      BY <1>1, <3>1 DEF GoCache!TakeSnapshot
  <2>2. /\ GoCache!Goto(g, "marshal")
        /\ UNCHANGED <<history, mem, goPath, worker, reply, job, GoCache!ghost>>
    BY <1>1 DEF GoCache!TakeSnapshot
  <2>3. Answers' /\ goPc' \in [GoCache!Goroutines -> GoCache!PCs]
    BY <2>2, AnswersStay DEF GoCache!PCs
  <2>4. GoCache!TypeOK'
    BY <2>1, <2>2, <2>3 DEF GoCache!TypeOK, GoCache!ghost, GoCache!Version
  <2>5. \A h \in GoCache!Goroutines :
           /\ goHeld'[h].surely \subseteq goHeld'[h].maybe
           /\ Agrees(goHeld'[h].version, goHeld'[h].blanket, goHeld'[h].surely,
                     goHeld'[h].maybe)
    BY <2>1 DEF GoCache!TypeOK, HeldAgrees, CacheAgrees
  <2> QED
    BY <2>2, <2>3, <2>4, <2>5, CacheMoves DEF CacheAgrees, FileAgrees
<1>2. CASE GoCache!Marshal(g)
  <2>1. PICK read \in SUBSET Agents :
           /\ goHeld[g].surely \subseteq read /\ read \subseteq goHeld[g].maybe
           /\ goHeld' = [goHeld EXCEPT ![g].surely = read, ![g].maybe = read,
                                   ![g].shared = FALSE]
    BY <1>2 DEF GoCache!Marshal
  <2>2. /\ GoCache!Goto(g, "publish")
        /\ UNCHANGED <<history, mem, goPath, worker, reply, job, GoCache!ghost>>
    BY <1>2 DEF GoCache!Marshal
  <2>3. /\ goHeld' \in [GoCache!Goroutines -> GoCache!Snapshot]
        /\ goHeld'[g].surely = read /\ goHeld'[g].maybe = read
        /\ goHeld'[g].blanket = goHeld[g].blanket
        /\ goHeld'[g].version = goHeld[g].version
        /\ \A h \in GoCache!Goroutines \ {g} : goHeld'[h] = goHeld[h]
    BY <2>1 DEF GoCache!TypeOK, GoCache!Snapshot
  <2>4. Answers' /\ goPc' \in [GoCache!Goroutines -> GoCache!PCs]
    BY <2>2, AnswersStay DEF GoCache!PCs
  <2>5. GoCache!TypeOK'
    BY <2>2, <2>3, <2>4 DEF GoCache!TypeOK, GoCache!ghost, GoCache!Version
  <2>6. Agrees(goHeld[g].version, goHeld[g].blanket, read, read)
    BY <2>1 DEF HeldAgrees, Agrees
  <2>7. \A h \in GoCache!Goroutines :
           /\ goHeld'[h].surely \subseteq goHeld'[h].maybe
           /\ Agrees(goHeld'[h].version, goHeld'[h].blanket, goHeld'[h].surely,
                     goHeld'[h].maybe)
    BY <2>3, <2>6 DEF HeldAgrees
  <2> QED
    BY <2>2, <2>4, <2>5, <2>7, CacheMoves DEF CacheAgrees, FileAgrees
<1>3. CASE GoCache!Publish(g) \/ GoCache!PersistFails(g)
  <2>1. GoCache!EndPersist(g)
    BY <1>3 DEF GoCache!Publish, GoCache!PersistFails
  <2>2. /\ GoCache!Goto(g, "idle")
        /\ goHeld' = [goHeld EXCEPT ![g] = GoCache!NoSnapshot]
        /\ UNCHANGED <<history, mem, worker, reply, job, GoCache!ghost>>
    BY <2>1 DEF GoCache!EndPersist
  <2>3. /\ goHeld' \in [GoCache!Goroutines -> GoCache!Snapshot]
        /\ \A h \in GoCache!Goroutines : goHeld'[h] = goHeld[h]
             \/ goHeld'[h] = GoCache!NoSnapshot
    BY <2>2, EmptyTypes DEF GoCache!TypeOK
  <2>4. /\ goPath' \in GoCache!File
        /\ goPath'.version # GoCache!NoFile =>
              Agrees(goPath'.version, goPath'.blanket, goPath'.revoked,
                  goPath'.revoked)
    <3>1. CASE UNCHANGED goPath
      BY <3>1 DEF GoCache!TypeOK, FileAgrees
    <3>2. CASE \E h \in GoCache!Goroutines : goPath' = GoCache!Text(goHeld[h])
      <4>1. PICK h \in GoCache!Goroutines : goPath' = GoCache!Text(goHeld[h])
        BY <3>2
      <4>2. /\ goPath' \in GoCache!File /\ goPath'.revoked = goHeld[h].surely
            /\ goPath'.blanket = goHeld[h].blanket
            /\ goPath'.version = goHeld[h].version
        BY <4>1 DEF GoCache!TypeOK, GoCache!Snapshot, GoCache!File,
           GoCache!Text
      <4>3. Agrees(goHeld[h].version, goHeld[h].blanket, goHeld[h].surely,
                  goHeld[h].surely)
        BY DEF HeldAgrees, Agrees
      <4> QED
        BY <4>2, <4>3
    <3> QED
      BY <1>3, <3>1, <3>2 DEF GoCache!Publish, GoCache!PersistFails
  <2>5. Answers' /\ goPc' \in [GoCache!Goroutines -> GoCache!PCs]
    BY <2>2, AnswersStay DEF GoCache!PCs
  <2>6. GoCache!TypeOK'
    BY <2>2, <2>3, <2>4, <2>5 DEF GoCache!TypeOK, GoCache!ghost,
       GoCache!Version
  <2>7. \A h \in GoCache!Goroutines :
           /\ goHeld'[h].surely \subseteq goHeld'[h].maybe
           /\ Agrees(goHeld'[h].version, goHeld'[h].blanket, goHeld'[h].surely,
                     goHeld'[h].maybe)
    BY <2>3, EmptyTypes DEF HeldAgrees, Agrees
  <2> QED
    BY <2>2, <2>4, <2>5, <2>6, <2>7, CacheMoves DEF CacheAgrees
<1> QED
  BY <1>1, <1>2, <1>3 DEF GoCache!PersistStep

LEMMA LoadStepKeeps ==
    ASSUME GoBounds, GoInv, NEW t \in GoCache!Goroutines,
        GoCache!LoadStep(t) PROVE GoInv'
<1> USE DEF GoInv
<1>1. job[t].op \in {"look", "revoke"}
  BY DEF GoCache!TypeOK
<1>2. CASE GoCache!ReadFile(t)
  <2>1. goPath.version \in Nat
    BY <1>2 DEF GoCache!ReadFile, GoCache!TypeOK, GoCache!File
  <2>2. PICK s \in GoCache!Snapshot :
           /\ goHeld' = [goHeld EXCEPT ![t] = s]
           /\ s.surely = goPath.revoked /\ s.maybe = goPath.revoked
           /\ s.blanket = goPath.blanket /\ s.version = goPath.version
    <3>1. [surely |-> goPath.revoked, maybe |-> goPath.revoked,
                shared |-> FALSE,
           blanket |-> goPath.blanket,
               version |-> goPath.version] \in GoCache!Snapshot
      BY <2>1 DEF GoCache!TypeOK, GoCache!File, GoCache!Snapshot
    <3> QED
      BY <1>2, <3>1 DEF GoCache!ReadFile
  <2>3. /\ GoCache!Goto(t, "install") /\ goPath.version # GoCache!NoFile
        /\ UNCHANGED <<history, mem, goPath, worker, reply, job, GoCache!ghost>>
    BY <1>2 DEF GoCache!ReadFile
  <2>4. Answers' /\ goPc' \in [GoCache!Goroutines -> GoCache!PCs]
    BY <2>3, AnswersStay DEF GoCache!PCs
  <2>5. GoCache!TypeOK'
    BY <2>2, <2>3, <2>4 DEF GoCache!TypeOK, GoCache!ghost, GoCache!Version
  <2>6. \A h \in GoCache!Goroutines :
           /\ goHeld'[h].surely \subseteq goHeld'[h].maybe
           /\ Agrees(goHeld'[h].version, goHeld'[h].blanket, goHeld'[h].surely,
                     goHeld'[h].maybe)
    BY <2>2, <2>3 DEF GoCache!TypeOK, HeldAgrees, FileAgrees
  <2> QED
    BY <2>3, <2>4, <2>5, <2>6, CacheMoves DEF CacheAgrees, FileAgrees
<1>3. CASE GoCache!Install(t)
  <2>1. /\ mem' = [revoked |-> goHeld[t].surely, blanket |-> goHeld[t].blanket,
                   loaded |-> TRUE, version |-> goHeld[t].version]
        /\ goHeld' = [GoCache!Unshared EXCEPT ![t] = GoCache!NoSnapshot]
        /\ GoCache!Goto(t, job[t].op)
        /\ UNCHANGED <<history, goPath, worker, reply, job, GoCache!ghost>>
    BY <1>3 DEF GoCache!Install
  <2>2. mem' \in GoCache!Cache
    BY <2>1 DEF GoCache!TypeOK, GoCache!Snapshot, GoCache!Cache
  <2>3. Agrees(mem'.version, mem'.blanket, mem'.revoked, mem'.revoked)
    <3>1. /\ mem'.version = goHeld[t].version
          /\ mem'.blanket = goHeld[t].blanket
          /\ mem'.revoked = goHeld[t].surely
      BY <2>1
    <3> QED
      BY <3>1 DEF HeldAgrees, Agrees
  <2>4. /\ goHeld' \in [GoCache!Goroutines -> GoCache!Snapshot]
        /\ \A h \in GoCache!Goroutines :
              \/ goHeld'[h] = GoCache!NoSnapshot
              \/ /\ goHeld'[h].surely = goHeld[h].surely
                 /\ goHeld'[h].maybe = goHeld[h].maybe
                 /\ goHeld'[h].blanket = goHeld[h].blanket
                 /\ goHeld'[h].version = goHeld[h].version
    BY <2>1, EmptyTypes DEF GoCache!TypeOK, GoCache!Snapshot, GoCache!Unshared
  <2>5. Answers' /\ goPc' \in [GoCache!Goroutines -> GoCache!PCs]
    BY <1>1, <2>1, AnswersStay DEF GoCache!PCs
  <2>6. GoCache!TypeOK'
    BY <2>1, <2>2, <2>4, <2>5 DEF GoCache!TypeOK, GoCache!ghost,
       GoCache!Version
  <2>7. \A h \in GoCache!Goroutines :
           /\ goHeld'[h].surely \subseteq goHeld'[h].maybe
           /\ Agrees(goHeld'[h].version, goHeld'[h].blanket, goHeld'[h].surely,
                     goHeld'[h].maybe)
    BY <2>4, EmptyTypes DEF HeldAgrees, Agrees
  <2> QED
    BY <2>1, <2>3, <2>5, <2>6, <2>7, CacheMoves DEF FileAgrees
<1>4. CASE GoCache!ReadFails(t) \/ GoCache!MarkLoaded(t)
  <2>1. PICK step \in {"mark", "look", "revoke"} : GoCache!Goto(t, step)
    BY <1>1, <1>4 DEF GoCache!ReadFails, GoCache!MarkLoaded
  <2>2. UNCHANGED <<history, goPath, worker, reply, job, goHeld, GoCache!ghost>>
    BY <1>4 DEF GoCache!ReadFails, GoCache!MarkLoaded, GoCache!callVars
  <2>3. /\ mem' \in GoCache!Cache /\ mem'.version = mem.version
        /\ mem'.blanket = mem.blanket
        /\ mem'.revoked = mem.revoked
    BY <1>4 DEF GoCache!ReadFails, GoCache!MarkLoaded, GoCache!TypeOK,
       GoCache!Cache
  <2>4. Answers' /\ goPc' \in [GoCache!Goroutines -> GoCache!PCs]
    BY <2>1, <2>2, AnswersStay DEF GoCache!PCs
  <2>5. GoCache!TypeOK'
    BY <2>2, <2>3, <2>4 DEF GoCache!TypeOK, GoCache!ghost, GoCache!Version
  <2> QED
    BY <2>2, <2>3, <2>4, <2>5, CacheMoves DEF CacheAgrees, FileAgrees,
       HeldAgrees
<1> QED
  BY <1>2, <1>3, <1>4 DEF GoCache!LoadStep

\* The host edits the cache, and whatever is still in its map.
LEMMA EditKeeps ==
    ASSUME GoInv, UNCHANGED <<history, goPath>>, GoCache!TypeOK', Answers',
           hostKills \subseteq hostKills', released \subseteq released',
           hostFlag => hostFlag',
           mem'.version = mem.version,
           mem'.blanket = mem.blanket \/ hostFlag',
           mem'.revoked \subseteq mem.revoked \cup hostKills',
           mem.revoked \subseteq mem'.revoked \cup released',
           \A g \in GoCache!Goroutines :
              /\ goHeld'[g].version = goHeld[g].version
              /\ goHeld'[g].blanket = goHeld[g].blanket
              /\ goHeld'[g].maybe \subseteq goHeld[g].maybe \cup hostKills'
              /\ goHeld[g].surely \subseteq goHeld'[g].surely \cup released'
              /\ goHeld'[g].surely \subseteq goHeld[g].surely
              /\ goHeld[g].maybe \subseteq goHeld'[g].maybe
    PROVE  GoInv'
<1> USE DEF GoInv
<1>1. GoCache!Version' = GoCache!Version
  BY DEF GoCache!Version
<1>2. CacheAgrees'
  BY <1>1 DEF CacheAgrees, Agrees
<1>3. FileAgrees'
  BY <1>1 DEF FileAgrees, Agrees
<1>4. ASSUME NEW g \in GoCache!Goroutines
      PROVE  /\ goHeld'[g].surely \subseteq goHeld'[g].maybe
             /\ Agrees(goHeld[g].version, goHeld[g].blanket, goHeld[g].surely,
                       goHeld[g].maybe)'
  BY <1>1 DEF HeldAgrees, Agrees
<1> QED
  BY <1>2, <1>3, <1>4 DEF HeldAgrees

LEMMA RemovesKeeps ==
    ASSUME GoBounds, GoInv, NEW t \in GoCache!Goroutines, NEW a \in Agents,
        GoCache!RemovesAgent(a),
           NEW step \in {"idle", "snapshot"}, GoCache!Goto(t, step),
           job' = job \/ job' = [job EXCEPT ![t] = GoCache!NoJob],
           UNCHANGED <<history, goPath, worker, reply, hostKills, hostFlag>>
    PROVE  GoInv'
<1> USE DEF GoInv
<1>1. /\ mem' = [mem EXCEPT !.revoked = @ \ {a}] /\ goHeld' = GoCache!Deleted(a)
      /\ released' = released \cup {a}
  BY DEF GoCache!RemovesAgent
<1>2. /\ mem' \in GoCache!Cache /\ mem'.version = mem.version
      /\ mem'.blanket = mem.blanket
      /\ mem'.revoked = mem.revoked \ {a}
  BY <1>1 DEF GoCache!TypeOK, GoCache!Cache
<1>3. \A g \in GoCache!Goroutines :
         /\ goHeld'[g] \in GoCache!Snapshot
         /\ goHeld'[g].version = goHeld[g].version
         /\ goHeld'[g].blanket = goHeld[g].blanket
         /\ goHeld'[g].maybe = goHeld[g].maybe
         /\ goHeld'[g].surely \in {goHeld[g].surely, goHeld[g].surely \ {a}}
  BY <1>1 DEF GoCache!TypeOK, GoCache!Snapshot, GoCache!Deleted
<1>4. goHeld' \in [GoCache!Goroutines -> GoCache!Snapshot]
  BY <1>1, <1>3 DEF GoCache!Deleted
<1>5. Answers' /\ goPc' \in [GoCache!Goroutines -> GoCache!PCs]
  BY AnswersStay DEF GoCache!PCs
<1>6. job' \in [GoCache!Goroutines -> [op : {"look", "revoke"}, agent : Agents]]
  BY EmptyTypes DEF GoCache!TypeOK
<1>7. GoCache!TypeOK'
  BY <1>1, <1>2, <1>4, <1>5, <1>6 DEF GoCache!TypeOK, GoCache!Version
<1>8. hostFlag => hostFlag'
  BY Zenon
<1> QED
  BY <1>1, <1>2, <1>3, <1>5, <1>7, <1>8, EditKeeps

LEMMA HostStepKeeps ==
    ASSUME GoBounds, GoInv, NEW t \in GoCache!Goroutines,
        GoCache!HostStep(t) PROVE GoInv'
<1> USE DEF GoInv
<1>1. job[t] \in [op : {"look", "revoke"}, agent : Agents]
  BY DEF GoCache!TypeOK
<1>2. ASSUME NEW a \in Agents, NEW op \in {"look", "revoke"},
            GoCache!Begin(t, op, a)
      PROVE  GoInv'
  <2>1. PICK step \in {"look", "revoke", "read"} : GoCache!Goto(t, step)
    BY <1>2 DEF GoCache!Begin
  <2>2. /\ job' = [job EXCEPT ![t] = [op |-> op, agent |-> a]]
        /\ UNCHANGED <<history, mem, goPath, worker, reply, goHeld,
             GoCache!ghost>>
    BY <1>2 DEF GoCache!Begin
  <2>3. Answers' /\ goPc' \in [GoCache!Goroutines -> GoCache!PCs]
    BY <2>1, <2>2, AnswersStay DEF GoCache!PCs
  <2>4. job' \in [GoCache!Goroutines -> [op : {"look", "revoke"}, agent :
              Agents]]
    BY <2>2 DEF GoCache!TypeOK
  <2>5. GoCache!TypeOK'
    BY <2>2, <2>3, <2>4 DEF GoCache!TypeOK, GoCache!ghost, GoCache!Version
  <2> QED
    BY <2>2, <2>3, <2>5, PollMoves
<1>3. CASE GoCache!LookUp(t) \/ GoCache!FindsExpired(t)
  <2>1. PICK step \in {"idle", "delete"} : GoCache!Goto(t, step)
    BY <1>3 DEF GoCache!LookUp, GoCache!FindsExpired, GoCache!Done
  <2>2. /\ job' = job \/ job' = [job EXCEPT ![t] = GoCache!NoJob]
        /\ UNCHANGED <<history, mem, goPath, worker, reply, goHeld,
             GoCache!ghost>>
    BY <1>3 DEF GoCache!LookUp, GoCache!FindsExpired, GoCache!Done,
       GoCache!callVars
  <2>3. Answers' /\ goPc' \in [GoCache!Goroutines -> GoCache!PCs]
    BY <2>1, <2>2, AnswersStay DEF GoCache!PCs
  <2>4. job' \in [GoCache!Goroutines -> [op : {"look", "revoke"}, agent :
              Agents]]
    BY <2>2, EmptyTypes DEF GoCache!TypeOK
  <2>5. GoCache!TypeOK'
    BY <2>2, <2>3, <2>4 DEF GoCache!TypeOK, GoCache!ghost, GoCache!Version
  <2> QED
    BY <2>2, <2>3, <2>5, PollMoves
<1>4. CASE GoCache!DeleteExpired(t)
  BY <1>1, <1>4, RemovesKeeps DEF GoCache!DeleteExpired, GoCache!Done
<1>5. ASSUME NEW a \in Agents, GoCache!ClearAgent(t, a) PROVE GoInv'
  BY <1>5, RemovesKeeps DEF GoCache!ClearAgent
<1>6. CASE GoCache!Revoke(t)
  <2> DEFINE a == job[t].agent
  <2>1. /\ mem' = [mem EXCEPT !.revoked = @ \cup {a}]
        /\ goHeld' = GoCache!Inserted(a)
        /\ hostKills' = hostKills \cup {a} /\ GoCache!Goto(t, "snapshot")
        /\ job' = [job EXCEPT ![t] = GoCache!NoJob]
        /\ UNCHANGED <<history, goPath, worker, reply, hostFlag, released>>
    BY <1>6 DEF GoCache!Revoke, GoCache!Done
  <2>2. a \in Agents
    BY <1>1
  <2> HIDE DEF a
  <2>3. /\ mem' \in GoCache!Cache /\ mem'.version = mem.version
        /\ mem'.blanket = mem.blanket
        /\ mem'.revoked = mem.revoked \cup {a}
    BY <2>1, <2>2 DEF GoCache!TypeOK, GoCache!Cache
  <2>4. \A g \in GoCache!Goroutines :
           /\ goHeld'[g] \in GoCache!Snapshot
           /\ goHeld'[g].version = goHeld[g].version
           /\ goHeld'[g].blanket = goHeld[g].blanket
           /\ goHeld'[g].surely = goHeld[g].surely
           /\ goHeld'[g].maybe \in {goHeld[g].maybe, goHeld[g].maybe \cup {a}}
    BY <2>1, <2>2 DEF GoCache!TypeOK, GoCache!Snapshot, GoCache!Inserted
  <2>5. goHeld' \in [GoCache!Goroutines -> GoCache!Snapshot]
    BY <2>1, <2>4 DEF GoCache!Inserted
  <2>6. Answers' /\ goPc' \in [GoCache!Goroutines -> GoCache!PCs]
    BY <2>1, AnswersStay DEF GoCache!PCs
  <2>7. job' \in [GoCache!Goroutines -> [op : {"look", "revoke"}, agent :
              Agents]]
    BY <2>1, EmptyTypes DEF GoCache!TypeOK
  <2>8. GoCache!TypeOK'
    BY <2>1, <2>2, <2>3, <2>5, <2>6, <2>7 DEF GoCache!TypeOK, GoCache!Version
  <2>9. hostFlag => hostFlag'
    BY <2>1, Zenon
  <2> QED
    BY <2>1, <2>3, <2>4, <2>6, <2>8, <2>9, EditKeeps
<1>7. ASSUME NEW flag \in BOOLEAN, GoCache!SetBlanketKill(t, flag) PROVE GoInv'
  <2>1. /\ mem' = [mem EXCEPT !.blanket = flag] /\ hostFlag' = TRUE
        /\ GoCache!Goto(t, "snapshot")
        /\ UNCHANGED <<history, goPath, worker, reply, job, goHeld, hostKills,
             released>>
    BY <1>7 DEF GoCache!SetBlanketKill, GoCache!callVars
  <2>2. /\ mem' \in GoCache!Cache /\ mem'.version = mem.version
        /\ mem'.revoked = mem.revoked
    BY <2>1 DEF GoCache!TypeOK, GoCache!Cache
  <2>3. Answers' /\ goPc' \in [GoCache!Goroutines -> GoCache!PCs]
    BY <2>1, AnswersStay DEF GoCache!PCs
  <2>4. hostFlag' \in BOOLEAN
    BY <2>1, Zenon
  <2>5. GoCache!TypeOK'
    BY <2>1, <2>2, <2>3, <2>4 DEF GoCache!TypeOK, GoCache!Version
  <2> QED
    BY <2>1, <2>2, <2>3, <2>5, EditKeeps DEF HeldAgrees
<1> QED
  BY <1>2, <1>3, <1>4, <1>5, <1>6, <1>7, LoadStepKeeps DEF GoCache!HostStep

LEMMA GoStep == ASSUME GoBounds, GoInv, [GoCache!Next]_(GoCache!vars)
PROVE GoInv'
<1> USE DEF GoInv
<1>1. CASE GoCache!ServerChange
  <2>1. PICK b \in BOOLEAN, K \in SUBSET Agents :
           history' = Append(history, [blanket |-> b, killed |-> K])
    BY <1>1 DEF GoCache!ServerChange
  <2>2. /\ history' \in Seq(GoCache!ServerState)
        /\ GoCache!Version' = GoCache!Version + 1
        /\ \A v \in 1 .. GoCache!Version : history'[v] = history[v]
    BY <2>1 DEF GoCache!TypeOK, GoCache!ServerState, GoCache!Version
  <2>3. /\ GoCache!Version < MaxVersion /\ GoCache!Version \in Nat \ {0}
        /\ UNCHANGED <<mem, goPath, worker, goPc, reply, job, goHeld, hostKills,
             hostFlag,
                       released>>
    BY <1>1 DEF GoCache!ServerChange, GoCache!callVars, GoCache!ghost,
       GoCache!TypeOK, GoBounds
  <2>4. GoCache!Version' \in 1 .. MaxVersion
    BY <2>2, <2>3 DEF GoBounds
  <2>5. GoCache!TypeOK'
    BY <2>2, <2>3, <2>4 DEF GoCache!TypeOK
  <2>6. CacheAgrees' /\ FileAgrees' /\ HeldAgrees'
    BY <2>2, <2>3 DEF CacheAgrees, FileAgrees, HeldAgrees, Agrees
  <2>7. Answers'
    BY <2>2, <2>3 DEF Answers
  <2> QED
    BY <2>5, <2>6, <2>7
<1>2. CASE GoCache!StartWorker \/ GoCache!StopWorker \/ GoCache!WorkerStopped
            \/ UNCHANGED GoCache!vars
  <2>1. /\ UNCHANGED <<history, mem, goPath, goPc, reply, job, goHeld,
             GoCache!ghost>>
        /\ worker' \in {"none", "running", "stopping"}
    BY <1>2 DEF GoCache!StartWorker, GoCache!StopWorker,
       GoCache!WorkerStopped, GoCache!vars, GoCache!callVars, GoCache!TypeOK
  <2>2. GoCache!TypeOK' /\ Answers'
    BY <2>1 DEF GoCache!TypeOK, Answers, GoCache!ghost, GoCache!Version
  <2> QED
    BY <2>1, <2>2, PollMoves
<1>3. CASE GoCache!Restart
  <2>1. /\ mem' = GoCache!EmptyCache /\ worker' = "none"
        /\ goPc' = [g \in GoCache!Goroutines |-> "idle"]
        /\ reply' = [g \in GoCache!Goroutines |-> GoCache!NoVersion]
        /\ job' = [g \in GoCache!Goroutines |-> GoCache!NoJob]
        /\ goHeld' = [g \in GoCache!Goroutines |-> GoCache!NoSnapshot]
        /\ UNCHANGED <<history, goPath, GoCache!ghost>>
    BY <1>3 DEF GoCache!Restart
  <2>2. /\ goPc' \in [GoCache!Goroutines -> GoCache!PCs]
        /\ reply' \in [GoCache!Goroutines -> 0 .. MaxVersion]
        /\ job' \in [GoCache!Goroutines -> [op : {"look", "revoke"}, agent :
             Agents]]
        /\ goHeld' \in [GoCache!Goroutines -> GoCache!Snapshot]
    BY <2>1, EmptyTypes DEF GoCache!PCs, GoCache!NoVersion, GoBounds
  <2>3. GoCache!TypeOK'
    BY <2>1, <2>2, EmptyTypes DEF GoCache!TypeOK, GoCache!ghost,
       GoCache!Version
  <2>4. Answers'
    BY <2>1 DEF Answers
  <2>5. Agrees(mem'.version, mem'.blanket, mem'.revoked, mem'.revoked)
    BY <2>1, EmptyTypes DEF Agrees
  <2>6. \A h \in GoCache!Goroutines :
           /\ goHeld'[h].surely \subseteq goHeld'[h].maybe
           /\ Agrees(goHeld'[h].version, goHeld'[h].blanket, goHeld'[h].surely,
                     goHeld'[h].maybe)
    BY <2>1, EmptyTypes DEF Agrees
  <2> QED
    BY <2>1, <2>3, <2>4, <2>5, <2>6, CacheMoves DEF FileAgrees
<1>4. Threads \subseteq GoCache!Goroutines
            /\ Pollers \subseteq GoCache!Goroutines
  BY DEF GoBounds, GoCache!Goroutines
<1> QED
  BY <1>1, <1>2, <1>3, <1>4, PollStepKeeps, PersistStepKeeps, HostStepKeeps
     DEF GoCache!Next

LEMMA GoImplies == ASSUME GoInv PROVE GoCache!FollowsVersion
  BY DEF GoInv, CacheAgrees, Agrees, GoCache!FollowsVersion
=============================================================================
