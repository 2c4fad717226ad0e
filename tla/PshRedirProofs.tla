--------------------------- MODULE PshRedirProofs ---------------------------
(***************************************************************************)
(* Theorems about PshRedir, for every number of descriptors and every set  *)
(* of command lines.                                                       *)
(*                                                                         *)
(* That the fields own their descriptors is inductive only together with   *)
(* the streams being open: a new descriptor is never a stream because no   *)
(* stream is free, and never one a field holds because those are open.     *)
(* That the streams come back rests on where the loops of                  *)
(* psh_streamRedirect and psh_streamRestore stand: a stream is not saved   *)
(* over an earlier save, and no save is left when the restore is done.     *)
(***************************************************************************)
EXTENDS PshRedir, NatFacts, FiniteSetTheorems

Files == LineWords \cup {tty, closed}

(* The descriptor table t and the fields r (red) and v (save) fit.         *)
Fit(t, r, v) ==
  /\ t \in [FDs -> Files]
  /\ r \in [Streams -> (FDs \ Streams) \cup {NONE}]
  /\ v \in [Streams -> (FDs \ Streams) \cup {NONE}]
  /\ \A s, u \in Streams : r[s] # NONE => r[s] # v[u] /\ (r[s] = r[u] => s = u)
  /\ \A s, u \in Streams : v[s] # NONE => (v[s] = v[u] => s = u)
  /\ \A s \in Streams : /\ t[s] # closed
                        /\ r[s] # NONE => t[r[s]] # closed
                        /\ v[s] # NONE => t[v[s]] # closed

(* Where the terminal is while the stream s may be replaced.               *)
Held(v, s) == IF v[s] = NONE THEN s ELSE v[s]

TtyHeld(t, v, k) == \A s \in Streams \ k : t[Held(v, s)] = tty

(* Which saves there can be at each point.                                 *)
SavesInPhase ==
  /\ pc \in {"prompt", "parse", "redirect", "run", "restore"}
  /\ pc \in {"prompt", "parse"} => save = NoFds
  /\ pc = "redirect" => i \in 0 .. 3 /\ \A s \in Streams : s >= i => save[s] = NONE
  /\ pc = "run" => i = 0
  /\ pc = "restore" => i \in 0 .. 3 /\ \A s \in Streams : s < i => save[s] = NONE

RedirInv ==
  /\ argv \in Seq(LineWords)
  /\ pc = "parse" => i \in Nat \ {0}
  /\ Fit(fdt, red, save)
  /\ TtyHeld(fdt, save, stuck)
  /\ SavesInPhase

(* The numbers behind the names.                                           *)
LEMMA Numbers ==
  /\ Streams = {0, 1, 2} /\ NONE = -1 /\ NONE \notin FDs
  /\ Streams \subseteq FDs /\ FDs \subseteq Nat
  /\ tty # closed
  BY RedirAssumption DEF Streams, FDs, NONE, tty, closed

(* A redirection names standard streams.                                   *)
LEMMA ToStreams ==
  ASSUME NEW w \in LineWords
  PROVE  w.to \subseteq Streams
  BY RedirAssumption DEF Streams

(* A descriptor in a field is no stream and is in no other field.          *)
LEMMA FieldFact ==
  ASSUME NEW t, NEW r, NEW v, Fit(t, r, v), NEW s \in Streams
  PROVE  /\ s \in FDs
         /\ r[s] # NONE => /\ r[s] \in FDs /\ r[s] \notin Streams
                           /\ \A u \in Streams : v[u] # r[s] /\ u # r[s]
                           /\ \A u \in Streams \ {s} : r[u] # r[s]
         /\ v[s] # NONE => /\ v[s] \in FDs /\ v[s] \notin Streams
                           /\ \A u \in Streams : r[u] # v[s] /\ u # v[s]
                           /\ \A u \in Streams \ {s} : v[u] # v[s]
  <1>1. s \in FDs
    BY Numbers
  <1>2. r[s] # NONE => r[s] \in FDs /\ r[s] \notin Streams
    BY DEF Fit
  <1>3. v[s] # NONE => v[s] \in FDs /\ v[s] \notin Streams
    BY DEF Fit
  <1>4. QED
    BY <1>1, <1>2, <1>3 DEF Fit

(* open and dup give a descriptor that is no stream and in no field.       *)
LEMMA FreeFact ==
  ASSUME NEW t, NEW r, NEW v, Fit(t, r, v), Free(t) # {}
  PROVE  /\ Min(Free(t)) \in FDs \ Streams
         /\ t[Min(Free(t))] = closed
         /\ \A s \in Streams : r[s] # Min(Free(t)) /\ v[s] # Min(Free(t))
  <1>1. Free(t) \subseteq Nat
    BY Numbers DEF Free
  <1>2. Min(Free(t)) \in Free(t)
    BY <1>1, MinFact
  <1>3. Min(Free(t)) \in FDs /\ t[Min(Free(t))] = closed
    BY <1>2 DEF Free
  <1>4. QED
    BY <1>3, Numbers DEF Fit

(* Closing all that the fields hold leaves the streams.                    *)
LEMMA CleanupFact ==
  ASSUME NEW t, Fit(t, red, save), redirCleanup(t)
  PROVE  Fit(fdt', red', save') /\ \A s \in Streams : fdt'[s] = t[s]
  <1>1. \A fd \in Range(red) \cup Range(save) : fd \notin Streams
    BY Numbers DEF Fit, Range
  <1>2. \A s \in Streams : fdt'[s] = t[s]
    BY <1>1, Numbers DEF redirCleanup, Close
  <1>3. fdt' \in [FDs -> Files]
    BY DEF redirCleanup, Close, Fit, Files
  <1>4. \A s \in Streams : red'[s] = NONE /\ save'[s] = NONE
    BY DEF redirCleanup, NoFds
  <1>5. red' \in [Streams -> {NONE}] /\ save' \in [Streams -> {NONE}]
    BY DEF redirCleanup, NoFds
  <1>6. QED
    BY <1>2, <1>3, <1>4, <1>5, Numbers DEF Fit

(* What psh_parseRedirections leaves of argv is still a list of words.     *)
LEMMA EatenFact ==
  ASSUME argv \in Seq(LineWords), i \in Nat \ {0}, AtRedir
  PROVE  /\ Eaten \in Seq(LineWords)
         /\ HasPath => Path \in LineWords
         /\ argv[i] \in LineWords
  <1>1. i \in 1 .. Len(argv) /\ Len(argv) \in Nat
    BY DEF AtRedir
  <1>2. argv[i] \in LineWords
    BY <1>1
  <1>3. HasPath => Path \in LineWords
    BY <1>1, <1>2 DEF HasPath, Path
  <1>4. SubSeq(argv, 1, i - 1) \in Seq(LineWords)
    BY <1>1
  <1>5. SubSeq(argv, i + 1 + (IF argv[i].bare THEN 1 ELSE 0), Len(argv)) \in Seq(LineWords)
    <2>1. \A k \in Nat \ {0} : SubSeq(argv, k, Len(argv)) \in Seq(LineWords)
      BY <1>1
    <2>2. i + 1 + (IF argv[i].bare THEN 1 ELSE 0) \in Nat \ {0}
      BY <1>1
    <2>3. QED
      BY <2>1, <2>2
  <1>6. Eaten \in Seq(LineWords)
    BY <1>4, <1>5 DEF Eaten
  <1>7. QED
    BY <1>2, <1>3, <1>6

(* One redirection: its file is opened into the field of its stream.       *)
LEMMA OpenRedirInv ==
  ASSUME RedirInv, OpenRedir
  PROVE  RedirInv'
  <1> DEFINE fd == Min(Free(fdt))
  <1>1. /\ pc = "parse" /\ pc' = "parse" /\ i' = i /\ save' = save /\ stuck' = stuck
        /\ i \in Nat \ {0} /\ argv \in Seq(LineWords) /\ argv' = Eaten
        /\ AtRedir /\ HasPath /\ Free(fdt) # {} /\ Fit(fdt, red, save)
        /\ save = NoFds
    BY DEF RedirInv, OpenRedir, AtRedir, SavesInPhase
  <1>2. /\ Eaten \in Seq(LineWords) /\ Path \in LineWords /\ argv[i].to \subseteq Streams
        /\ Path # closed
    BY <1>1, EatenFact, RedirAssumption, ToStreams
  <1>3. /\ fd \in FDs \ Streams /\ fdt[fd] = closed
        /\ \A s \in Streams : red[s] # fd /\ save[s] # fd
    BY <1>1, FreeFact
  <1>4. PICK s \in Streams : /\ fdt' = Close([fdt EXCEPT ![fd] = Path], {red[s]})
                             /\ red' = [red EXCEPT ![s] = fd]
    BY <1>2 DEF OpenRedir, Put
  <1> HIDE DEF fd
  <1>5. \A x \in FDs : fdt'[x] = IF x = red[s] THEN closed
                                  ELSE IF x = fd THEN Path ELSE fdt[x]
    BY <1>1, <1>4 DEF Close, Fit
  <1>6. fdt' \in [FDs -> Files]
    BY <1>1, <1>2, <1>4 DEF Close, Fit, Files
  <1>7. red' \in [Streams -> (FDs \ Streams) \cup {NONE}]
        /\ \A u \in Streams : red'[u] = IF u = s THEN fd ELSE red[u]
    BY <1>1, <1>3, <1>4 DEF Fit
  <1>8. Fit(fdt', red', save')
    <2>1. \A u, w \in Streams : red'[u] # NONE =>
            red'[u] # save[w] /\ (red'[u] = red'[w] => u = w)
      BY <1>1, <1>3, <1>7 DEF Fit
    <2>2. \A u \in Streams : fdt'[u] = fdt[u]
      BY <1>1, <1>3, <1>5, Numbers DEF Fit
    <2>3. \A u \in Streams : red'[u] # NONE => fdt'[red'[u]] # closed
      BY <1>1, <1>2, <1>3, <1>5, <1>7, Numbers DEF Fit
    <2>4. \A u \in Streams : save'[u] = NONE
      BY <1>1 DEF NoFds
    <2>5. QED
      BY <1>1, <1>6, <1>7, <2>1, <2>2, <2>3, <2>4 DEF Fit
  <1>9. TtyHeld(fdt', save', stuck')
    BY <1>1, <1>3, <1>5, Numbers DEF TtyHeld, Held, RedirInv, Fit, NoFds
  <1>10. QED
    BY <1>1, <1>2, <1>8, <1>9 DEF RedirInv, SavesInPhase

(* "&>": two fields get two descriptors; a failed dup closes what is open. *)
LEMMA OpenBothInv ==
  ASSUME RedirInv, OpenBoth
  PROVE  RedirInv'
  <1> DEFINE fd == Min(Free(fdt))
             t  == Close([fdt EXCEPT ![fd] = Path], {red[1], red[2]})
             fe == Min(Free(t))
             r0 == [red EXCEPT ![1] = NONE, ![2] = NONE]
  <1>1. /\ pc = "parse" /\ stuck' = stuck
        /\ i \in Nat \ {0} /\ argv \in Seq(LineWords)
        /\ AtRedir /\ HasPath /\ Free(fdt) # {} /\ Fit(fdt, red, save)
        /\ save = NoFds
    BY DEF RedirInv, OpenBoth, AtRedir, SavesInPhase
  <1>2. Eaten \in Seq(LineWords) /\ Path \in LineWords /\ Path # closed
    BY <1>1, EatenFact, RedirAssumption
  <1>3. /\ fd \in FDs \ Streams /\ fdt[fd] = closed
        /\ \A s \in Streams : red[s] # fd /\ save[s] # fd
    BY <1>1, FreeFact
  <1>4. \/ /\ Free(t) # {} /\ fdt' = [t EXCEPT ![fe] = Path]
           /\ red' = [red EXCEPT ![1] = fd, ![2] = fe]
           /\ argv' = Eaten
           /\ UNCHANGED <<save, i, err, pc, line>>
        \/ /\ fdt' = Close(t, {fd, red[0]})
           /\ red' = NoFds /\ save' = NoFds
           /\ EndCmd
    BY DEF OpenBoth, Put
  <1> HIDE DEF fd
  <1>5. \A x \in FDs : t[x] = IF x \in {red[1], red[2]} THEN closed
                              ELSE IF x = fd THEN Path ELSE fdt[x]
    BY <1>1 DEF Close, Fit
  <1>6. t \in [FDs -> Files]
    BY <1>1, <1>2 DEF Close, Fit, Files
  <1> HIDE DEF t
  <1>7. /\ r0 \in [Streams -> (FDs \ Streams) \cup {NONE}]
        /\ r0[0] = red[0] /\ r0[1] = NONE /\ r0[2] = NONE
    BY <1>1, Numbers DEF Fit
  <1> HIDE DEF r0
  <1>8. Fit(t, r0, save) /\ t[fd] = Path /\ \A s \in Streams : t[s] = fdt[s]
    <2>1. \A s \in Streams : t[s] = fdt[s]
      BY <1>1, <1>3, <1>5, Numbers DEF Fit
    <2>2. t[fd] = Path
      BY <1>3, <1>5, Numbers
    <2>3. red[0] # NONE => t[red[0]] # closed
      BY <1>1, <1>2, <1>5, Numbers DEF Fit
    <2>4. \A s \in Streams : save[s] = NONE /\ fdt[s] # closed
      BY <1>1 DEF NoFds, Fit
    <2>5. \A s \in Streams : r0[s] # NONE => s = 0
      BY <1>7, Numbers
    <2>6. QED
      BY <1>1, <1>6, <1>7, <2>1, <2>2, <2>3, <2>4, <2>5 DEF Fit
  <1>9. CASE /\ Free(t) # {} /\ fdt' = [t EXCEPT ![fe] = Path]
             /\ red' = [red EXCEPT ![1] = fd, ![2] = fe]
             /\ argv' = Eaten
             /\ UNCHANGED <<save, i, err, pc, line>>
    <2>1. /\ fe \in FDs \ Streams /\ t[fe] = closed
          /\ \A s \in Streams : r0[s] # fe /\ save[s] # fe
      BY <1>8, <1>9, FreeFact
    <2>2. fe # fd
      BY <2>1, <1>2, <1>8
    <2> HIDE DEF fe
    <2>3. /\ fdt' \in [FDs -> Files]
          /\ \A x \in FDs : fdt'[x] = IF x = fe THEN Path ELSE t[x]
      BY <1>2, <1>6, <1>9, <2>1 DEF Files
    <2>4. /\ red' \in [Streams -> (FDs \ Streams) \cup {NONE}]
          /\ red'[0] = red[0] /\ red'[1] = fd /\ red'[2] = fe
      BY <1>1, <1>3, <1>9, <2>1, Numbers DEF Fit
    <2>5. Fit(fdt', red', save')
      BY <1>1, <1>2, <1>3, <1>7, <1>8, <1>9, <2>1, <2>2, <2>3, <2>4, Numbers DEF Fit
    <2>6. TtyHeld(fdt', save', stuck')
      BY <1>1, <1>8, <1>9, <2>1, <2>3, Numbers DEF TtyHeld, Held, RedirInv, NoFds
    <2>7. QED
      BY <1>1, <1>2, <1>9, <2>5, <2>6 DEF RedirInv, SavesInPhase
  <1>10. CASE /\ fdt' = Close(t, {fd, red[0]})
              /\ red' = NoFds /\ save' = NoFds
              /\ EndCmd
    <2>1. /\ fdt' \in [FDs -> Files]
          /\ \A x \in FDs : fdt'[x] = IF x \in {fd, red[0]} THEN closed ELSE t[x]
      BY <1>6, <1>10 DEF Close, Files
    <2>2. /\ \A s \in Streams : fdt'[s] = fdt[s]
          /\ red' \in [Streams -> {NONE}] /\ save' \in [Streams -> {NONE}]
      <3>1. \A s \in Streams : s # fd /\ s # red[0]
        BY <1>1, <1>3, Numbers DEF Fit
      <3>2. QED
        BY <3>1, <2>1, <1>8, <1>10, Numbers DEF NoFds
    <2>3. Fit(fdt', red', save')
      BY <2>1, <2>2, <1>1, Numbers DEF Fit
    <2>4. TtyHeld(fdt', save', stuck')
      BY <2>2, <1>1, <1>10, Numbers DEF TtyHeld, Held, RedirInv, NoFds
    <2>5. QED
      BY <1>10, <2>3, <2>4 DEF RedirInv, SavesInPhase, EndCmd
  <1>11. QED
    BY <1>4, <1>9, <1>10

(* psh_streamRedirect at one stream: skipped, redirected, or failed.       *)
LEMMA RedirectOneInv ==
  ASSUME RedirInv, RedirectOne
  PROVE  RedirInv'
  <1> DEFINE fd == Min(Free(fdt))
  <1>1. /\ pc = "redirect" /\ pc' = pc /\ argv' = argv /\ stuck' = stuck
        /\ argv \in Seq(LineWords) /\ i \in Streams /\ Fit(fdt, red, save)
        /\ TtyHeld(fdt, save, stuck)
        /\ \A s \in Streams : s >= i => save[s] = NONE
    BY DEF RedirInv, RedirectOne, SavesInPhase
  <1>2. i \in Int /\ i + 1 \in 0 .. 3 /\ \A s \in Streams : s >= i + 1 => s >= i
    BY <1>1, Numbers
  <1>3. \A s \in Streams : ~(s >= 3)
    BY Numbers
  <1>4. red[i] # NONE => /\ \A u \in Streams : save[u] # red[i] /\ u # red[i]
                         /\ \A u \in Streams : u # i => red[u] # red[i]
    BY <1>1, FieldFact
  <1>5. \A s \in Streams : /\ s \in FDs
                           /\ red[s] # NONE => red[s] \in FDs /\ red[s] # i
                           /\ save[s] # NONE => save[s] \in FDs /\ save[s] # i
    BY <1>1, FieldFact
  <1>6. CASE red[i] = NONE /\ i' = i + 1 /\ UNCHANGED <<fdt, red, save, err>>
    <2>1. SavesInPhase'
      BY <1>1, <1>2, <1>6 DEF SavesInPhase
    <2>2. QED
      BY <1>1, <1>6, <2>1 DEF RedirInv
  <1>7. CASE /\ red[i] # NONE
             /\ fdt' = Close(fdt, {red[i]}) /\ red' = [red EXCEPT ![i] = NONE]
             /\ i' \in {i + 1, 3}
             /\ UNCHANGED save
    <2>1. /\ fdt' \in [FDs -> Files]
          /\ \A x \in FDs : fdt'[x] = IF x = red[i] THEN closed ELSE fdt[x]
      BY <1>1, <1>7 DEF Close, Files, Fit
    <2>2. /\ red' \in [Streams -> (FDs \ Streams) \cup {NONE}]
          /\ \A s \in Streams : red'[s] = IF s = i THEN NONE ELSE red[s]
      BY <1>1, <1>7 DEF Fit
    <2>3. \A s \in Streams : fdt'[s] = fdt[s] /\ (save[s] # NONE => fdt'[save[s]] = fdt[save[s]])
      BY <1>7, <1>4, <1>5, <2>1
    <2>4. Fit(fdt', red', save')
      <3>1. \A s \in Streams : red'[s] # NONE => fdt'[red'[s]] # closed
        <4>1. \A s \in Streams : red[s] # NONE /\ s # i => fdt'[red[s]] = fdt[red[s]]
          BY <1>7, <1>4, <1>5, <2>1
        <4>2. QED
          BY <4>1, <1>1, <2>2 DEF Fit
      <3>2. \A s, u \in Streams : red'[s] # NONE =>
              red'[s] # save[u] /\ (red'[s] = red'[u] => s = u)
        BY <1>1, <2>2 DEF Fit
      <3>3. \A s \in Streams : fdt'[s] # closed /\ (save[s] # NONE => fdt'[save[s]] # closed)
        BY <1>1, <2>3 DEF Fit
      <3>4. Fit(fdt', red', save)
        BY <1>1, <2>1, <2>2, <3>1, <3>2, <3>3 DEF Fit
      <3>5. QED
        BY <1>7, <3>4
    <2>5. TtyHeld(fdt', save', stuck')
      BY <1>1, <1>7, <2>3 DEF TtyHeld, Held
    <2>6. SavesInPhase'
      BY <1>1, <1>2, <1>3, <1>7 DEF SavesInPhase
    <2>7. QED
      BY <1>1, <2>4, <2>5, <2>6 DEF RedirInv
  <1>8. CASE /\ red[i] # NONE /\ Free(fdt) # {}
             /\ red' = [red EXCEPT ![i] = NONE]
             /\ i' = i + 1
             /\ save' = [save EXCEPT ![i] = fd]
             /\ fdt' = Close([[fdt EXCEPT ![fd] = fdt[i]] EXCEPT ![i] = fdt[red[i]]], {red[i]})
    <2>1. /\ fd \in FDs \ Streams /\ fdt[fd] = closed
          /\ \A s \in Streams : red[s] # fd /\ save[s] # fd
      BY <1>1, <1>8, FreeFact
    <2> HIDE DEF fd
    <2>2. /\ red[i] \in FDs \ Streams /\ i \in FDs /\ fdt[red[i]] # closed /\ fdt[i] # closed
          /\ save[i] = NONE
      BY <1>1, <1>2, <1>8, Numbers DEF Fit
    <2>3. fdt' \in [FDs -> Files]
      BY <1>1, <1>8, <2>1, <2>2 DEF Close, Files, Fit
    <2>4. \A x \in FDs : fdt'[x] = IF x = red[i] THEN closed ELSE IF x = i THEN fdt[red[i]]
                                   ELSE IF x = fd THEN fdt[i] ELSE fdt[x]
      BY <1>1, <1>8, <2>1, <2>2 DEF Close, Fit
    <2>5. /\ red' \in [Streams -> (FDs \ Streams) \cup {NONE}]
          /\ save' \in [Streams -> (FDs \ Streams) \cup {NONE}]
          /\ \A s \in Streams : /\ red'[s] = IF s = i THEN NONE ELSE red[s]
                                /\ save'[s] = IF s = i THEN fd ELSE save[s]
      BY <1>1, <1>8, <2>1 DEF Fit
    <2>6. \A s \in Streams : /\ fdt'[s] = IF s = i THEN fdt[red[i]] ELSE fdt[s]
                             /\ save[s] # NONE => fdt'[save[s]] = fdt[save[s]]
                             /\ red[s] # NONE /\ s # i => fdt'[red[s]] = fdt[red[s]]
      <3>1. fd \notin Streams /\ i \in Streams
        BY <1>1, <2>1
      <3>2. QED
        BY <3>1, <1>8, <1>4, <1>5, <2>1, <2>4
    <2>7. fdt'[fd] = fdt[i]
      BY <1>1, <2>1, <2>2, <2>4, Numbers
    <2>8. Fit(fdt', red', save')
      <3>1. \A s \in Streams : red'[s] # NONE => fdt'[red'[s]] # closed
        BY <1>1, <2>5, <2>6 DEF Fit
      <3>2. \A s \in Streams : save'[s] # NONE => fdt'[save'[s]] # closed
        BY <1>1, <2>2, <2>5, <2>6, <2>7 DEF Fit
      <3>3. \A s, u \in Streams : red'[s] # NONE =>
              red'[s] # save'[u] /\ (red'[s] = red'[u] => s = u)
        BY <1>1, <2>1, <2>5 DEF Fit
      <3>4. \A s, u \in Streams : save'[s] # NONE => (save'[s] = save'[u] => s = u)
        BY <1>1, <2>1, <2>5 DEF Fit
      <3>5. \A s \in Streams : fdt'[s] # closed
        BY <1>1, <2>2, <2>6 DEF Fit
      <3>6. QED
        BY <2>3, <2>5, <3>1, <3>2, <3>3, <3>4, <3>5 DEF Fit
    <2>9. TtyHeld(fdt', save', stuck')
      <3> SUFFICES ASSUME NEW s \in Streams \ stuck PROVE fdt'[Held(save', s)] = tty
        BY <1>1 DEF TtyHeld
      <3>1. fdt[Held(save, s)] = tty
        BY <1>1 DEF TtyHeld
      <3>2. CASE s = i
        <4>1. Held(save, s) = s /\ Held(save', s) = fd
          BY <3>2, <2>1, <2>2, <2>5, Numbers DEF Held
        <4>2. QED
          BY <4>1, <3>1, <3>2, <2>7
      <3>3. CASE s # i
        <4>1. Held(save', s) = Held(save, s)
          BY <3>3, <2>5 DEF Held
        <4>2. QED
          BY <4>1, <3>1, <3>3, <2>6 DEF Held
      <3>4. QED
        BY <3>2, <3>3
    <2>10. SavesInPhase'
      <3>1. \A s \in Streams : s >= i + 1 => s # i
        BY <1>2, Numbers
      <3>2. QED
        BY <1>1, <1>2, <1>8, <2>5, <3>1 DEF SavesInPhase
    <2>11. QED
      BY <1>1, <2>8, <2>9, <2>10 DEF RedirInv
  <1>9. QED
    BY <1>6, <1>7, <1>8 DEF RedirectOne, Put

(* psh_streamRestore at one stream: what was saved goes back, or is stuck. *)
LEMMA RestoreOneInv ==
  ASSUME RedirInv, RestoreOne
  PROVE  RedirInv'
  <1>1. /\ pc = "restore" /\ pc' = pc /\ argv' = argv /\ red' = red /\ i' = i + 1
        /\ argv \in Seq(LineWords) /\ i \in Streams /\ Fit(fdt, red, save)
        /\ TtyHeld(fdt, save, stuck)
        /\ \A s \in Streams : s < i => save[s] = NONE
    BY DEF RedirInv, RestoreOne, SavesInPhase
  <1>2. i + 1 \in 0 .. 3 /\ \A s \in Streams : s < i + 1 => s < i \/ s = i
    BY <1>1, Numbers
  <1>3. CASE save[i] = NONE
    <2>1. UNCHANGED <<fdt, save, stuck>>
      BY <1>3 DEF RestoreOne
    <2>2. SavesInPhase'
      BY <1>1, <1>2, <1>3, <2>1 DEF SavesInPhase
    <2>3. QED
      BY <1>1, <2>1, <2>2 DEF RedirInv
  <1>4. CASE save[i] # NONE
    <2>1. /\ save' = [save EXCEPT ![i] = NONE]
          /\ \/ fdt' = Close([fdt EXCEPT ![i] = fdt[save[i]]], {save[i]}) /\ stuck' = stuck
             \/ fdt' = Close(fdt, {save[i]}) /\ stuck' = stuck \cup {i}
      BY <1>4 DEF RestoreOne
    <2>2. /\ save[i] \in FDs \ Streams /\ i \in FDs /\ fdt[save[i]] # closed
          /\ fdt[i] # closed
      BY <1>1, <1>4, Numbers DEF Fit
    <2>3. PICK f \in {fdt[i], fdt[save[i]]} :
            /\ fdt' \in [FDs -> Files]
            /\ \A x \in FDs : fdt'[x] = IF x = save[i] THEN closed ELSE IF x = i THEN f
                                         ELSE fdt[x]
            /\ i \notin stuck' => f = fdt[save[i]]
            /\ stuck \subseteq stuck'
      <3>1. CASE fdt' = Close([fdt EXCEPT ![i] = fdt[save[i]]], {save[i]}) /\ stuck' = stuck
        <4>1. fdt' \in [FDs -> Files]
          BY <1>1, <2>2, <3>1 DEF Close, Files, Fit
        <4>2. \A x \in FDs : fdt'[x] = IF x = save[i] THEN closed ELSE IF x = i
                                       THEN fdt[save[i]] ELSE fdt[x]
          BY <1>1, <2>2, <3>1 DEF Close, Fit
        <4>3. QED
          BY <4>1, <4>2, <3>1
      <3>2. CASE fdt' = Close(fdt, {save[i]}) /\ stuck' = stuck \cup {i}
        <4>1. fdt' \in [FDs -> Files]
          BY <1>1, <2>2, <3>2 DEF Close, Files, Fit
        <4>2. \A x \in FDs : fdt'[x] = IF x = save[i] THEN closed ELSE IF x = i
                                       THEN fdt[i] ELSE fdt[x]
          BY <1>1, <2>2, <3>2 DEF Close, Fit
        <4>3. QED
          BY <4>1, <4>2, <3>2
      <3>3. QED
        BY <2>1, <3>1, <3>2
    <2>4. /\ save' \in [Streams -> (FDs \ Streams) \cup {NONE}]
          /\ \A s \in Streams : save'[s] = IF s = i THEN NONE ELSE save[s]
      BY <1>1, <2>1 DEF Fit
    <2>5. \A s \in Streams : /\ fdt'[s] = IF s = i THEN f ELSE fdt[s]
                             /\ save'[s] # NONE => fdt'[save'[s]] = fdt[save'[s]]
                             /\ red[s] # NONE => fdt'[red[s]] = fdt[red[s]]
      BY <1>1, <1>4, <2>3, <2>4, FieldFact
    <2>6. Fit(fdt', red', save')
      <3>1. \A s \in Streams : /\ fdt'[s] # closed
                               /\ save'[s] # NONE => fdt'[save'[s]] # closed
                               /\ red[s] # NONE => fdt'[red[s]] # closed
        BY <1>1, <2>2, <2>3, <2>4, <2>5 DEF Fit
      <3>2. QED
        BY <1>1, <2>3, <2>4, <3>1 DEF Fit
    <2>7. TtyHeld(fdt', save', stuck')
      <3> SUFFICES ASSUME NEW s \in Streams, s \notin stuck' PROVE fdt'[Held(save', s)] = tty
        BY DEF TtyHeld
      <3>1. fdt[Held(save, s)] = tty
        BY <1>1, <2>3 DEF TtyHeld
      <3>2. CASE s = i
        BY <3>1, <3>2, <1>4, <2>3, <2>4, <2>5 DEF Held
      <3>3. CASE s # i
        BY <3>1, <3>3, <2>4, <2>5 DEF Held
      <3>4. QED
        BY <3>2, <3>3
    <2>8. SavesInPhase'
      BY <1>1, <1>2, <2>4 DEF SavesInPhase
    <2>9. QED
      BY <1>1, <2>6, <2>7, <2>8 DEF RedirInv
  <1>5. QED
    BY <1>3, <1>4

(* The end of a command: no save is open, and the fields are let go.       *)
LEMMA CleanupInv ==
  ASSUME RedirInv, save = NoFds, redirCleanup(fdt), EndCmd, UNCHANGED stuck
  PROVE  RedirInv'
  <1>1. Fit(fdt', red', save') /\ \A s \in Streams : fdt'[s] = fdt[s]
    BY CleanupFact DEF RedirInv
  <1>2. save' = NoFds /\ argv' = <<>> /\ pc' = "prompt" /\ stuck' = stuck
    BY DEF redirCleanup, EndCmd
  <1>3. TtyHeld(fdt', save', stuck')
    BY <1>1, <1>2 DEF RedirInv, TtyHeld, Held, NoFds
  <1>4. QED
    BY <1>1, <1>2, <1>3 DEF RedirInv, SavesInPhase

(* The shell starts with the terminal on its streams and nothing else.     *)
LEMMA RedirInitInv == Init => RedirInv
  <1> SUFFICES ASSUME Init PROVE RedirInv
    OBVIOUS
  <1>1. fdt \in [FDs -> Files] /\ \A s \in Streams : fdt[s] = tty
    BY Numbers DEF Init, Files
  <1>2. red \in [Streams -> {NONE}] /\ save \in [Streams -> {NONE}]
    BY DEF Init, NoFds
  <1>3. Fit(fdt, red, save)
    BY <1>1, <1>2, Numbers DEF Fit
  <1>4. TtyHeld(fdt, save, stuck)
    BY <1>1, <1>2 DEF TtyHeld, Held
  <1>5. QED
    BY <1>3, <1>4 DEF Init, RedirInv, SavesInPhase

(* Every step of the parser and of the stream loops keeps the invariant.   *)
LEMMA RedirStepInv == RedirInv /\ [Next]_vars => RedirInv'
  <1> SUFFICES ASSUME RedirInv, [Next]_vars PROVE RedirInv'
    OBVIOUS
  <1>1. CASE NextCmd
    <2>1. argv' \in Seq(LineWords)
      BY <1>1, RedirAssumption DEF NextCmd
    <2>2. /\ pc = "prompt" /\ pc' = "parse" /\ i' = 1 /\ save = NoFds /\ save' = NoFds
          /\ fdt' = fdt /\ stuck' = stuck /\ red' = NoFds
      BY <1>1 DEF NextCmd, RedirInv, SavesInPhase
    <2>3. red' \in [Streams -> {NONE}]
      BY <2>2 DEF NoFds
    <2>4. Fit(fdt', red', save')
      BY <2>2, <2>3 DEF RedirInv, Fit
    <2>5. QED
      BY <2>1, <2>2, <2>4 DEF RedirInv, SavesInPhase
  <1>2. CASE SkipWord
    BY <1>2 DEF SkipWord, RedirInv, SavesInPhase
  <1>3. CASE ParseFails
    <2>1. save = NoFds
      BY <1>3 DEF ParseFails, AtRedir, RedirInv, SavesInPhase
    <2>2. QED
      BY <1>3, <2>1, CleanupInv DEF ParseFails
  <1>4. CASE OpenRedir
    BY <1>4, OpenRedirInv
  <1>5. CASE OpenBoth
    BY <1>5, OpenBothInv
  <1>6. CASE ParseDone
    <2>1. /\ pc = "parse" /\ save = NoFds /\ argv' \in Seq(LineWords)
          /\ pc' = "prompt" \/ (pc' = "redirect" /\ i' = 0)
          /\ UNCHANGED <<fdt, red, save, stuck>>
      <3>1. <<>> \in Seq(LineWords)
        OBVIOUS
      <3>2. \/ pc' = "prompt" /\ argv' = <<>>
            \/ pc' = "redirect" /\ i' = 0 /\ argv' = argv
        BY <1>6 DEF ParseDone, EndCmd
      <3>3. QED
        BY <1>6, <3>1, <3>2 DEF ParseDone, RedirInv, SavesInPhase
    <2>2. \A s \in Streams : save[s] = NONE
      BY <2>1 DEF NoFds
    <2>3. QED
      BY <2>1, <2>2 DEF RedirInv, SavesInPhase
  <1>7. CASE RedirectOne
    BY <1>7, RedirectOneInv
  <1>8. CASE RedirectDone
    <2>1. \A s \in Streams : ~(s < 0)
      BY Numbers
    <2>2. QED
      BY <1>8, <2>1 DEF RedirectDone, RedirInv, SavesInPhase
  <1>9. CASE Run
    <2>1. \A s \in Streams : ~(s < 0)
      BY Numbers
    <2>2. QED
      BY <1>9, <2>1 DEF Run, RedirInv, SavesInPhase
  <1>10. CASE RestoreOne
    BY <1>10, RestoreOneInv
  <1>11. CASE RestoreDone
    <2>1. \A s \in Streams : s < 3
      BY Numbers
    <2>2. \A s \in Streams : save[s] = NONE
      BY <1>11, <2>1 DEF RestoreDone, RedirInv, SavesInPhase
    <2>3. save = NoFds
      BY <2>2 DEF NoFds, RedirInv, Fit
    <2>4. QED
      BY <1>11, <2>3, CleanupInv DEF RestoreDone
  <1>12. CASE UNCHANGED vars
    BY <1>12 DEF vars, RedirInv, SavesInPhase
  <1>13. QED
    BY <1>1, <1>2, <1>3, <1>4, <1>5, <1>6, <1>7, <1>8, <1>9, <1>10, <1>11, <1>12 DEF Next

(* RedirInv holds in every reachable state, for every set of lines.        *)
THEOREM RedirInvariant == Spec => []RedirInv
  BY RedirInitInv, RedirStepInv, PTL DEF Spec

(* Whatever open, dup and dup2 do, the fields of redir hold distinct open  *)
(* descriptors and never a standard stream.                                *)
THEOREM FieldsOwn == Spec => []FieldsOwnTheirFds
  <1>1. RedirInv => FieldsOwnTheirFds
    <2> SUFFICES ASSUME RedirInv PROVE FieldsOwnTheirFds
      OBVIOUS
    <2>1. Fit(fdt, red, save)
      BY DEF RedirInv
    <2>2. Fds \subseteq Open \ Streams
      BY <2>1, FieldFact DEF Fit, Fds, Open, Range
    <2>3. QED
      BY <2>1, <2>2 DEF Fit, FieldsOwnTheirFds
  <1>2. QED
    BY <1>1, RedirInvariant, PTL

(* At the prompt the streams are the terminal, but for those on which the  *)
(* restore itself failed: no sequence of failed calls loses another one.   *)
THEOREM StreamsComeBack == Spec => []StreamsAreTty
  <1>1. RedirInv => StreamsAreTty
    BY DEF RedirInv, SavesInPhase, TtyHeld, Held, NoFds, StreamsAreTty
  <1>2. QED
    BY <1>1, RedirInvariant, PTL

-----------------------------------------------------------------------------
(* Nothing is left open.  That is so only for lines that leave a command   *)
(* to run, or redirect nothing: a line that redirects and runs nothing     *)
(* returns to the prompt with its files open.                              *)
NoRedirs(l) == \A k \in 1 .. Len(l) : l[k].to = {}
BeginsWithCommand(l) == Len(l) >= 1 /\ l[1].to = {} /\ l[1] \notin Unknown

LinesRun == \A l \in Lines : NoRedirs(l) \/ BeginsWithCommand(l)

(* Every open descriptor is a stream or in a field of r or v.              *)
AllHeld(t, r, v) ==
  \A fd \in FDs : t[fd] # closed =>
    fd \in Streams \/ \E s \in Streams : fd = r[s] \/ fd = v[s]

NoFdLost ==
  /\ AllHeld(fdt, red, save)
  /\ pc = "prompt" => red = NoFds
  /\ pc = "parse" => (NoRedirs(argv) /\ red = NoFds) \/ BeginsWithCommand(argv)

(* The redirection at i is not the first word of a line that begins with a *)
(* command, so that command is still first once the redirection is gone.   *)
LEMMA CommandStays ==
  ASSUME RedirInv, pc = "parse", BeginsWithCommand(argv), AtRedir
  PROVE  BeginsWithCommand(Eaten)
  <1> DEFINE rest == SubSeq(argv, i + 1 + (IF argv[i].bare THEN 1 ELSE 0), Len(argv))
             head == SubSeq(argv, 1, i - 1)
  <1>1. argv \in Seq(LineWords) /\ i \in Nat \ {0} /\ i <= Len(argv) /\ i # 1
    BY DEF RedirInv, AtRedir, BeginsWithCommand
  <1>2. head \in Seq(LineWords) /\ Len(head) = i - 1 /\ head[1] = argv[1]
    BY <1>1
  <1>3. rest \in Seq(LineWords)
    <2>1. \A k \in Nat \ {0} : SubSeq(argv, k, Len(argv)) \in Seq(LineWords)
      BY <1>1
    <2>2. i + 1 + (IF argv[i].bare THEN 1 ELSE 0) \in Nat \ {0}
      BY <1>1
    <2>3. QED
      BY <2>1, <2>2
  <1> HIDE DEF rest, head
  <1>4. Len(head \o rest) = Len(head) + Len(rest) /\ (head \o rest)[1] = head[1]
        /\ Len(rest) \in Nat
    BY <1>1, <1>2, <1>3
  <1>5. Len(head \o rest) >= 1 /\ (head \o rest)[1] = argv[1]
    BY <1>1, <1>2, <1>4
  <1>6. Eaten = head \o rest
    BY DEF Eaten, head, rest
  <1>7. QED
    BY <1>5, <1>6 DEF BeginsWithCommand

(* Closing all that the fields hold leaves nothing but the streams.        *)
LEMMA CleanupLosesNothing ==
  ASSUME RedirInv, AllHeld(fdt, red, save), redirCleanup(fdt), EndCmd
  PROVE  NoFdLost'
  <1>1. \A fd \in FDs : fdt'[fd] # closed =>
          fdt[fd] # closed /\ fd \notin Range(red) /\ fd \notin Range(save)
    BY DEF redirCleanup, Close
  <1>2. \A s \in Streams : red[s] \in Range(red) /\ save[s] \in Range(save)
    BY DEF RedirInv, Fit, Range
  <1>3. AllHeld(fdt', red', save')
    BY <1>1, <1>2 DEF AllHeld
  <1>4. QED
    BY <1>3 DEF NoFdLost, redirCleanup, EndCmd

(* Each step keeps hold of what is open.                                   *)
LEMMA LostStep ==
  ASSUME LinesRun, RedirInv, NoFdLost, [Next]_vars
  PROVE  NoFdLost'
  <1>0. /\ Fit(fdt, red, save) /\ fdt \in [FDs -> Files] /\ AllHeld(fdt, red, save)
        /\ red \in [Streams -> (FDs \ Streams) \cup {NONE}]
        /\ save \in [Streams -> (FDs \ Streams) \cup {NONE}]
    BY DEF RedirInv, NoFdLost, Fit
  <1>1. CASE NextCmd
    BY <1>1 DEF NextCmd, NoFdLost, LinesRun, AllHeld, RedirInv, SavesInPhase
  <1>2. CASE SkipWord
    BY <1>2 DEF SkipWord, NoFdLost
  <1>3. CASE ParseFails
    BY <1>0, <1>3, CleanupLosesNothing DEF ParseFails
  <1>4. CASE OpenRedir
    <2> DEFINE fd == Min(Free(fdt))
    <2>1. /\ AtRedir /\ pc = "parse" /\ pc' = "parse" /\ argv' = Eaten /\ save' = save
          /\ argv \in Seq(LineWords) /\ i \in Nat \ {0} /\ Free(fdt) # {}
      BY <1>4 DEF OpenRedir, AtRedir, RedirInv
    <2>2. BeginsWithCommand(argv)
      BY <2>1 DEF NoFdLost, NoRedirs, AtRedir
    <2>3. BeginsWithCommand(argv')
      BY <2>1, <2>2, CommandStays
    <2>4. argv[i].to \subseteq Streams
      BY <2>1, EatenFact, ToStreams
    <2>5. PICK s \in Streams : /\ fdt' = Close([fdt EXCEPT ![fd] = Path], {red[s]})
                               /\ red' = [red EXCEPT ![s] = fd]
      BY <1>4, <2>4 DEF OpenRedir, Put
    <2>6. fd \in FDs
      BY <1>0, <2>1, FreeFact
    <2> HIDE DEF fd
    <2>7. \A x \in FDs : fdt'[x] = IF x = red[s] THEN closed
                                    ELSE IF x = fd THEN Path ELSE fdt[x]
      BY <1>0, <2>5, <2>6 DEF Close
    <2>8. \A u \in Streams : red'[u] = IF u = s THEN fd ELSE red[u]
      BY <1>0, <2>5
    <2>9. AllHeld(fdt', red', save')
      BY <1>0, <2>1, <2>7, <2>8 DEF AllHeld
    <2>10. QED
      BY <2>1, <2>3, <2>9 DEF NoFdLost
  <1>5. CASE OpenBoth
    <2> DEFINE fd == Min(Free(fdt))
               t  == Close([fdt EXCEPT ![fd] = Path], {red[1], red[2]})
               fe == Min(Free(t))
    <2>1. /\ AtRedir /\ pc = "parse" /\ argv \in Seq(LineWords) /\ i \in Nat \ {0}
          /\ Free(fdt) # {} /\ \A s \in Streams : save[s] = NONE
      BY <1>5 DEF OpenBoth, AtRedir, RedirInv, SavesInPhase, NoFds
    <2>2. BeginsWithCommand(argv)
      BY <2>1 DEF NoFdLost, NoRedirs, AtRedir
    <2>3. BeginsWithCommand(Eaten)
      BY <2>1, <2>2, CommandStays
    <2>4. fd \in FDs
      BY <1>0, <2>1, FreeFact
    <2>5. \/ /\ fdt' = [t EXCEPT ![fe] = Path]
             /\ red' = [red EXCEPT ![1] = fd, ![2] = fe]
             /\ argv' = Eaten /\ pc' = pc /\ save' = save
          \/ /\ fdt' = Close(t, {fd, red[0]})
             /\ red' = NoFds /\ save' = NoFds
             /\ EndCmd
      BY <1>5 DEF OpenBoth, Put
    <2> HIDE DEF fd
    <2>6. t \in [FDs -> {Path} \cup Files]
      BY <1>0, <2>4 DEF Close, Files
    <2>7. \A x \in FDs : t[x] = IF x \in {red[1], red[2]} THEN closed
                                ELSE IF x = fd THEN Path ELSE fdt[x]
      BY <1>0, <2>4 DEF Close
    <2>8. \A x \in FDs : fdt[x] # closed => x \in Streams \/ x \in {red[0], red[1], red[2]}
      BY <1>0, <2>1, Numbers DEF AllHeld
    <2> HIDE DEF t, fe
    <2>9. CASE /\ fdt' = [t EXCEPT ![fe] = Path]
               /\ red' = [red EXCEPT ![1] = fd, ![2] = fe]
               /\ argv' = Eaten /\ pc' = pc /\ save' = save
      <3>1. red'[0] = red[0] /\ red'[1] = fd /\ red'[2] = fe
        BY <1>0, <2>9, Numbers
      <3>2. \A x \in FDs : x # fe => fdt'[x] = t[x]
        BY <2>6, <2>9
      <3>3. \A x \in FDs : fdt'[x] # closed => x \in Streams \/ x \in {red[0], fd, fe}
        BY <2>7, <2>8, <3>2
      <3>4. 0 \in Streams /\ 1 \in Streams /\ 2 \in Streams
        BY Numbers
      <3>5. AllHeld(fdt', red', save')
        BY <3>1, <3>3, <3>4 DEF AllHeld
      <3>6. QED
        BY <2>1, <2>3, <2>9, <3>5 DEF NoFdLost
    <2>10. CASE /\ fdt' = Close(t, {fd, red[0]})
                /\ red' = NoFds /\ save' = NoFds
                /\ EndCmd
      <3>1. \A x \in FDs : fdt'[x] = IF x \in {fd, red[0]} THEN closed ELSE t[x]
        BY <2>10 DEF Close
      <3>2. \A x \in FDs : fdt'[x] # closed => x \in Streams
        BY <3>1, <2>7, <2>8
      <3>3. QED
        BY <2>10, <3>2 DEF NoFdLost, AllHeld, EndCmd
    <2>11. QED
      BY <2>5, <2>9, <2>10
  <1>6. CASE ParseDone
    <2>1. /\ pc = "parse" /\ pc' \in {"prompt", "redirect"} /\ UNCHANGED <<fdt, red, save>>
          /\ pc' = "prompt" => argv = <<>> \/ argv[1] \in Unknown
      BY <1>6 DEF ParseDone, EndCmd
    <2>2. pc' = "prompt" => ~BeginsWithCommand(argv)
      BY <2>1 DEF BeginsWithCommand
    <2>3. QED
      BY <2>1, <2>2 DEF NoFdLost
  <1>7. CASE RedirectOne
    <2> DEFINE fd == Min(Free(fdt))
    <2>1. pc = "redirect" /\ pc' = "redirect" /\ i \in Streams
      BY <1>7 DEF RedirectOne
    <2>2. CASE red[i] = NONE /\ UNCHANGED <<fdt, red, save>>
      BY <2>1, <2>2 DEF NoFdLost
    <2>3. CASE fdt' = Close(fdt, {red[i]}) /\ red' = [red EXCEPT ![i] = NONE] /\ save' = save
      <3>1. \A x \in FDs : fdt'[x] = IF x = red[i] THEN closed ELSE fdt[x]
        BY <2>3 DEF Close
      <3>2. \A u \in Streams : red'[u] = IF u = i THEN NONE ELSE red[u]
        BY <1>0, <2>3
      <3>3. AllHeld(fdt', red', save')
        BY <1>0, <2>3, <3>1, <3>2 DEF AllHeld
      <3>4. QED
        BY <2>1, <3>3 DEF NoFdLost
    <2>4. CASE /\ red[i] # NONE /\ Free(fdt) # {}
               /\ red' = [red EXCEPT ![i] = NONE]
               /\ save' = [save EXCEPT ![i] = fd]
               /\ fdt' = Close([[fdt EXCEPT ![fd] = fdt[i]] EXCEPT ![i] = fdt[red[i]]], {red[i]})
      <3>1. fd \in FDs
        BY <1>0, <2>4, FreeFact
      <3> HIDE DEF fd
      <3>2. \A x \in FDs : x # fd /\ x \notin Streams =>
                             fdt'[x] = IF x = red[i] THEN closed ELSE fdt[x]
        BY <1>0, <2>1, <2>4 DEF Close
      <3>3. \A u \in Streams : /\ red'[u] = IF u = i THEN NONE ELSE red[u]
                               /\ save'[u] = IF u = i THEN fd ELSE save[u]
        BY <1>0, <2>4
      <3>4. save[i] = NONE /\ NONE \notin FDs
        <4>1. i >= i
          BY <2>1, Numbers
        <4>2. QED
          BY <4>1, <2>1, Numbers DEF RedirInv, SavesInPhase
      <3>5. AllHeld(fdt', red', save')
        <4> SUFFICES ASSUME NEW x \in FDs, fdt'[x] # closed, x \notin Streams, x # fd
            PROVE  \E s \in Streams : x = red'[s] \/ x = save'[s]
          BY <2>1, <3>3 DEF AllHeld
        <4>1. x # red[i] /\ fdt[x] # closed
          BY <3>2
        <4>2. PICK s \in Streams : x = red[s] \/ x = save[s]
          BY <4>1, <1>0 DEF AllHeld
        <4>3. s # i
          BY <4>1, <4>2, <3>4
        <4>4. QED
          BY <4>2, <4>3, <3>3
      <3>6. QED
        BY <2>1, <3>5 DEF NoFdLost
    <2>5. QED
      BY <1>7, <2>2, <2>3, <2>4 DEF RedirectOne, Put
  <1>8. CASE RedirectDone
    BY <1>8 DEF RedirectDone, NoFdLost
  <1>9. CASE Run
    BY <1>9 DEF Run, NoFdLost
  <1>10. CASE RestoreOne
    <2>1. pc = "restore" /\ pc' = "restore" /\ i \in Streams /\ red' = red
      BY <1>10 DEF RestoreOne
    <2>2. CASE save[i] = NONE
      BY <1>10, <2>1, <2>2 DEF RestoreOne, NoFdLost
    <2>3. CASE save[i] # NONE
      <3>1. /\ save' = [save EXCEPT ![i] = NONE]
            /\ \/ fdt' = Close([fdt EXCEPT ![i] = fdt[save[i]]], {save[i]})
               \/ fdt' = Close(fdt, {save[i]})
        BY <1>10, <2>3 DEF RestoreOne
      <3>2. \A x \in FDs : x \notin Streams =>
                             fdt'[x] = IF x = save[i] THEN closed ELSE fdt[x]
        BY <1>0, <2>1, <3>1 DEF Close
      <3>3. \A u \in Streams : save'[u] = IF u = i THEN NONE ELSE save[u]
        BY <1>0, <3>1
      <3>4. AllHeld(fdt', red', save')
        BY <1>0, <2>1, <3>2, <3>3 DEF AllHeld
      <3>5. QED
        BY <2>1, <3>4 DEF NoFdLost
    <2>4. QED
      BY <2>2, <2>3
  <1>11. CASE RestoreDone
    BY <1>0, <1>11, CleanupLosesNothing DEF RestoreDone
  <1>12. CASE UNCHANGED vars
    BY <1>12 DEF vars, NoFdLost
  <1>13. QED
    BY <1>1, <1>2, <1>3, <1>4, <1>5, <1>6, <1>7, <1>8, <1>9, <1>10, <1>11, <1>12 DEF Next

(* If every line leaves a command to run or redirects nothing, the shell   *)
(* is back at its three streams after each one, with the terminal on them: *)
(* the lines of the known leak are the only ones that lose a descriptor.   *)
THEOREM NoDescriptorLost == LinesRun => (Spec => []StreamsRestored)
  <1> SUFFICES ASSUME LinesRun PROVE Spec => []StreamsRestored
    OBVIOUS
  <1>1. Init => NoFdLost
    BY DEF Init, NoFdLost, AllHeld
  <1>2. RedirInv /\ NoFdLost /\ [Next]_vars => NoFdLost'
    BY LostStep
  <1>3. RedirInv /\ NoFdLost => NoFdLeft
    <2> SUFFICES ASSUME RedirInv, NoFdLost, pc = "prompt" PROVE Open = Streams
      BY DEF NoFdLeft
    <2>1. \A s \in Streams : red[s] = NONE /\ save[s] = NONE
      BY DEF RedirInv, SavesInPhase, NoFdLost, NoFds
    <2>2. Open \subseteq Streams
      <3>1. AllHeld(fdt, red, save) /\ NONE \notin FDs
        BY Numbers DEF NoFdLost
      <3>2. QED
        BY ONLY <2>1, <3>1 DEF AllHeld, Open
    <2>3. Streams \subseteq Open
      BY Numbers DEF RedirInv, Fit, Open
    <2>4. QED
      BY <2>2, <2>3
  <1>4. NoFdLeft /\ StreamsAreTty => StreamsRestored
    BY DEF StreamsRestored
  <1>5. QED
    BY <1>1, <1>2, <1>3, <1>4, RedirInvariant, StreamsComeBack, PTL DEF Spec

-----------------------------------------------------------------------------
(* What a command sees.  While psh_parseRedirections scans, the words at i *)
(* and after are a tail of the line; what they leave of the line is a      *)
(* first part that no operator reaches out of, its plain words are the     *)
(* words before i, and the fields have the files of its operators.         *)
Boundary(l, c) == ~(c \in Operators(l) /\ l[c].bare)

OpsTo(l, c, s) == {p \in Operators(l) : p <= c /\ s \in l[p].to}

PlainTo(l, c) == {p \in Plain(l) : p <= c}

(* Only f is the file of the last redirection of s in the first c words.   *)
LastFile(l, c, s, f) ==
  \A p \in OpsTo(l, c, s) : (\A q \in OpsTo(l, c, s) : q <= p) => f = Target(l, p)

Scanned == Len(line) - Len(argv) + i - 1

ParseInv ==
  pc = "parse" =>
    /\ line \in Seq(LineWords)
    /\ i \in 1 .. Len(argv) + 1
    /\ Scanned \in 0 .. Len(line)
    /\ \A k \in i .. Len(argv) : argv[k] = line[Scanned + k - i + 1]
    /\ Boundary(line, Scanned)
    /\ WordsAt(argv, i - 1, line, PlainTo(line, Scanned))
    /\ \A s \in Streams :
         /\ red[s] = NONE <=> OpsTo(line, Scanned, s) = {}
         /\ red[s] # NONE => LastFile(line, Scanned, s, fdt[red[s]])

SeenInv ==
  pc \in {"redirect", "run"} =>
    /\ line \in Seq(LineWords)
    /\ WordsAt(argv, Len(argv), line, Plain(line))
    /\ pc = "run" => err = 0
    /\ err = 0 =>
         \A s \in Streams :
           IF OpsTo(line, Len(line), s) = {} THEN red[s] = NONE /\ save[s] = NONE
           ELSE IF pc = "redirect" /\ s >= i
                THEN red[s] # NONE /\ LastFile(line, Len(line), s, fdt[red[s]])
                ELSE LastFile(line, Len(line), s, fdt[s])

(* A word is an operator unless the operator before it took it for a path. *)
LEMMA OperatorFact ==
  ASSUME NEW l \in Seq(LineWords), NEW p \in 1 .. Len(l)
  PROVE  /\ p \in Operators(l) <=> /\ l[p].to # {}
                                   /\ ~(p - 1 \in Operators(l) /\ l[p - 1].bare)
         /\ Operators(l) \subseteq 1 .. Len(l)
  <1> DEFINE n == Len(l)
             Is(f) == f = [q \in 0 .. n |-> q > 0 /\ l[q].to # {} /\ ~(f[q - 1] /\ l[q - 1].bare)]
             op == CHOOSE f : Is(f)
             g == [x \in (1 .. n) \X BOOLEAN |-> l[x[1]].to # {} /\ ~(x[2] /\ l[x[1] - 1].bare)]
             X == BOOLEAN
             a == FALSE
  <1>1. n \in Nat /\ DOMAIN l = 1 .. n
    OBVIOUS
  <1>2. \A q \in 1 .. n : \A x \in X : /\ g[<<q, x>>] = (l[q].to # {} /\ ~(x /\ l[q - 1].bare))
                                       /\ g[<<q, x>>] \in X
    OBVIOUS
  <1>3. a \in X
    OBVIOUS
  <1>4. Operators(l) = {q \in 1 .. n : op[q]}
    BY <1>1 DEF Operators
  <1> HIDE DEF n, g, X, a, op
  <1>5. PICK f \in [0 .. n -> X] : Recursive(f, g, n, a)
    <2>1. StepsIn(g, n, X)
      BY <1>2 DEF StepsIn
    <2>2. QED
      BY <1>1, <1>3, <2>1, Recursion
  <1>6. Is(f)
    <2>1. f = [q \in 0 .. n |-> f[q]]
      BY <1>5
    <2>2. ASSUME NEW q \in 0 .. n
          PROVE  f[q] = (q > 0 /\ l[q].to # {} /\ ~(f[q - 1] /\ l[q - 1].bare))
      <3>1. CASE q = 0
        <4>1. f[q] = FALSE /\ ~(q > 0)
          BY <3>1, <1>5 DEF Recursive, a
        <4>2. QED
          BY <4>1
      <3>2. CASE q # 0
        <4>1. q \in 1 .. n /\ q > 0 /\ q - 1 \in 0 .. n
          BY <3>2, <1>1
        <4>2. f[q - 1] \in X /\ f[q] = g[<<q, f[q - 1]>>]
          BY <1>5, <4>1 DEF Recursive
        <4>3. QED
          BY <1>2, <4>1, <4>2
      <3>3. QED
        BY <3>1, <3>2
    <2>3. QED
      BY <2>1, <2>2
  <1>7. Is(op)
    BY <1>6 DEF op
  <1> HIDE DEF Is
  <1>8. \A q \in 0 .. n : op[q] = (q > 0 /\ l[q].to # {} /\ ~(op[q - 1] /\ l[q - 1].bare))
    BY <1>7 DEF Is
  <1>9. p \in 0 .. n /\ p > 0 /\ p \in 1 .. n /\ p \in Int
    BY <1>1 DEF n
  <1>10. p - 1 \in Operators(l) <=> op[p - 1]
    <2>1. CASE p = 1
      <3>1. 0 \in 0 .. n /\ ~(0 > 0) /\ p - 1 = 0 /\ 0 \notin 1 .. n
        BY <1>1, <2>1
      <3>2. ~op[0]
        BY <1>8, <3>1
      <3>3. QED
        BY <1>4, <3>1, <3>2
    <2>2. CASE p # 1
      <3>1. p - 1 \in 1 .. n
        BY <1>1, <1>9, <2>2
      <3>2. QED
        BY <1>4, <3>1
    <2>3. QED
      BY <2>1, <2>2
  <1>11. p \in Operators(l) <=> op[p]
    BY <1>4, <1>9
  <1>12. op[p] <=> l[p].to # {} /\ ~(op[p - 1] /\ l[p - 1].bare)
    BY <1>8, <1>9
  <1>13. QED
    BY <1>4, <1>10, <1>11, <1>12 DEF n

(* A plain word after a boundary.                                          *)
LEMMA PlainNext ==
  ASSUME NEW l \in Seq(LineWords), NEW c \in Nat, c < Len(l), Boundary(l, c), l[c + 1].to = {}
  PROVE  /\ PlainTo(l, c + 1) = PlainTo(l, c) \cup {c + 1}
         /\ \A s \in Streams : OpsTo(l, c + 1, s) = OpsTo(l, c, s)
         /\ Boundary(l, c + 1)
  <1>1. c + 1 \in 1 .. Len(l) /\ (c + 1) - 1 = c /\ DOMAIN l = 1 .. Len(l) /\ Len(l) \in Nat
    OBVIOUS
  <1>2. c + 1 \notin Operators(l) /\ Operators(l) \subseteq 1 .. Len(l)
    BY <1>1, OperatorFact
  <1>3. c + 1 \in Plain(l)
    BY <1>1, <1>2 DEF Plain, Boundary
  <1>4. \A p \in 1 .. Len(l) : p <= c + 1 <=> p <= c \/ p = c + 1
    BY <1>1
  <1>5. Plain(l) \subseteq 1 .. Len(l)
    BY <1>1 DEF Plain
  <1>6. PlainTo(l, c + 1) = PlainTo(l, c) \cup {c + 1}
    BY <1>3, <1>4, <1>5 DEF PlainTo
  <1>7. \A s \in Streams : OpsTo(l, c + 1, s) = OpsTo(l, c, s)
    BY <1>2, <1>4 DEF OpsTo
  <1>8. QED
    BY <1>2, <1>6, <1>7 DEF Boundary

AfterOp(l, c) == c + 1 + (IF l[c + 1].bare THEN 1 ELSE 0)

(* An operator after a boundary, with its path.                            *)
LEMMA OpNext ==
  ASSUME NEW l \in Seq(LineWords), NEW c \in Nat, c < Len(l), Boundary(l, c), l[c + 1].to # {},
         AfterOp(l, c) <= Len(l)
  PROVE  /\ PlainTo(l, AfterOp(l, c)) = PlainTo(l, c)
         /\ \A s \in Streams : OpsTo(l, AfterOp(l, c), s) =
              IF s \in l[c + 1].to THEN OpsTo(l, c, s) \cup {c + 1} ELSE OpsTo(l, c, s)
         /\ Boundary(l, AfterOp(l, c))
  <1> DEFINE d == AfterOp(l, c)
  <1>1. /\ c + 1 \in 1 .. Len(l) /\ (c + 1) - 1 = c /\ DOMAIN l = 1 .. Len(l) /\ Len(l) \in Nat
        /\ (c + 2) - 1 = c + 1
    OBVIOUS
  <1>2. \/ d = c + 1 /\ ~l[c + 1].bare
        \/ d = c + 2 /\ l[c + 1].bare /\ c + 2 \in 1 .. Len(l)
    BY <1>1 DEF AfterOp
  <1>3. c + 1 \in Operators(l) /\ Operators(l) \subseteq 1 .. Len(l)
    BY <1>1, OperatorFact DEF Boundary
  <1>4. d = c + 2 => c + 2 \notin Operators(l) /\ c + 2 \notin Plain(l)
    BY <1>1, <1>2, <1>3, OperatorFact DEF Plain
  <1>5. c + 1 \notin Plain(l) /\ Plain(l) \subseteq 1 .. Len(l)
    BY <1>1, <1>3 DEF Plain
  <1>6. \A p \in 1 .. Len(l) : p <= d <=> p <= c \/ p = c + 1 \/ (d = c + 2 /\ p = c + 2)
    BY <1>1, <1>2
  <1> HIDE DEF d
  <1>7. PlainTo(l, d) = PlainTo(l, c)
    BY <1>4, <1>5, <1>6 DEF PlainTo
  <1>8. ASSUME NEW s \in Streams
        PROVE  OpsTo(l, d, s) = IF s \in l[c + 1].to THEN OpsTo(l, c, s) \cup {c + 1} ELSE OpsTo(l, c, s)
    <2>1. \A p \in Operators(l) : p <= d <=> p <= c \/ p = c + 1
      BY <1>3, <1>4, <1>6
    <2>2. CASE s \in l[c + 1].to
      BY <2>1, <2>2, <1>3 DEF OpsTo
    <2>3. CASE s \notin l[c + 1].to
      BY <2>1, <2>3 DEF OpsTo
    <2>4. QED
      BY <2>2, <2>3
  <1>9. Boundary(l, d)
    BY <1>2, <1>4 DEF Boundary
  <1>10. QED
    BY <1>7, <1>8, <1>9 DEF d

(* A word is left where it is.                                             *)
LEMMA SkipWordSeen ==
  ASSUME RedirInv, ParseInv, SkipWord
  PROVE  ParseInv'
  <1> DEFINE c == Scanned
             n == i - 1
  <1>1. /\ pc = "parse" /\ pc' = "parse" /\ i <= Len(argv) /\ argv[i].to = {} /\ i' = i + 1
        /\ UNCHANGED <<fdt, red, argv, line>>
    BY DEF SkipWord
  <1>2. /\ line \in Seq(LineWords) /\ argv \in Seq(LineWords) /\ i \in 1 .. Len(argv) + 1
        /\ c \in 0 .. Len(line) /\ Boundary(line, c)
        /\ \A k \in i .. Len(argv) : argv[k] = line[c + k - i + 1]
        /\ WordsAt(argv, n, line, PlainTo(line, c))
        /\ \A s \in Streams : /\ red[s] = NONE <=> OpsTo(line, c, s) = {}
                              /\ red[s] # NONE => LastFile(line, c, s, fdt[red[s]])
    BY <1>1 DEF ParseInv, RedirInv
  <1>3. Len(line) \in Nat /\ Len(argv) \in Nat /\ i \in Nat /\ i >= 1 /\ c \in Nat
    BY <1>2
  <1>4. c = Len(line) - Len(argv) + i - 1 /\ Scanned' = Len(line) - Len(argv) + (i + 1) - 1
    BY <1>1 DEF Scanned
  <1> HIDE DEF c, n
  <1>5. Scanned' = c + 1 /\ c < Len(line) /\ i \in i .. Len(argv) /\ c + i - i + 1 = c + 1
    BY <1>1, <1>3, <1>4
  <1>6. argv[i] = line[c + 1] /\ line[c + 1].to = {}
    BY <1>1, <1>2, <1>5
  <1>7. /\ PlainTo(line, c + 1) = PlainTo(line, c) \cup {c + 1}
        /\ \A s \in Streams : OpsTo(line, c + 1, s) = OpsTo(line, c, s)
        /\ Boundary(line, c + 1)
    BY <1>2, <1>3, <1>5, <1>6, PlainNext
  <1>8. \A k \in i + 1 .. Len(argv) : argv[k] = line[(c + 1) + k - (i + 1) + 1]
    <2>1. ASSUME NEW k \in i + 1 .. Len(argv) PROVE k \in i .. Len(argv) /\ (c + 1) + k - (i + 1) + 1 = c + k - i + 1
      BY <1>3
    <2>2. QED
      BY <1>2, <2>1
  <1>9. WordsAt(argv, i, line, PlainTo(line, c + 1))
    <2> DEFINE S == PlainTo(line, c)
    <2>1. PICK at \in [1 .. n -> S] :
            /\ \A k \in 1 .. n : argv[k] = line[at[k]]
            /\ \A j, k \in 1 .. n : j < k => at[j] < at[k]
            /\ \A p \in S : \E k \in 1 .. n : at[k] = p
      BY <1>2 DEF WordsAt
    <2> DEFINE bt == [k \in 1 .. i |-> IF k = i THEN c + 1 ELSE at[k]]
    <2>2. \A k \in 1 .. i : k = i \/ k \in 1 .. n
      BY <1>3 DEF n
    <2>3. \A k \in 1 .. n : k \in 1 .. i /\ k # i /\ k < i
      BY <1>3 DEF n
    <2>4. \A p \in S : p \in Int /\ p < c + 1
      <3>1. \A p \in S : p \in DOMAIN line /\ p <= c
        BY DEF PlainTo, Plain
      <3>2. DOMAIN line = 1 .. Len(line)
        BY <1>2
      <3>3. QED
        BY <3>1, <3>2, <1>3
    <2> HIDE DEF S
    <2>5. bt \in [1 .. i -> S \cup {c + 1}]
      BY <2>1, <2>2
    <2>6. bt[i] = c + 1 /\ \A k \in 1 .. n : bt[k] = at[k] /\ at[k] \in S
      BY <2>1, <2>3, <1>3
    <2> HIDE DEF bt
    <2>7. \A k \in 1 .. i : argv[k] = line[bt[k]]
      BY <2>1, <2>2, <2>6, <1>6
    <2>8. ASSUME NEW j \in 1 .. i, NEW k \in 1 .. i, j < k PROVE bt[j] < bt[k]
      <3>1. j \in 1 .. n
        <4>1. j # i
          BY <2>8, <1>3
        <4>2. QED
          BY <2>2, <4>1
      <3>2. CASE k = i
        BY <3>1, <3>2, <2>4, <2>6
      <3>3. CASE k \in 1 .. n
        BY <3>1, <3>3, <2>1, <2>6, <2>8
      <3>4. QED
        BY <2>2, <3>2, <3>3
    <2>9. \A p \in S \cup {c + 1} : \E k \in 1 .. i : bt[k] = p
      <3>1. i \in 1 .. i
        BY <1>3
      <3>2. QED
        BY <2>1, <2>3, <2>6, <3>1
    <2>10. PlainTo(line, c + 1) = S \cup {c + 1}
      BY <1>7 DEF S
    <2>11. QED
      BY <2>5, <2>7, <2>8, <2>9, <2>10 DEF WordsAt
  <1>10. \A s \in Streams : /\ red[s] = NONE <=> OpsTo(line, c + 1, s) = {}
                            /\ red[s] # NONE => LastFile(line, c + 1, s, fdt[red[s]])
    BY <1>2, <1>7 DEF LastFile
  <1>11. i + 1 \in 1 .. Len(argv) + 1 /\ c + 1 \in 0 .. Len(line) /\ (i + 1) - 1 = i
    BY <1>1, <1>3, <1>5
  <1>12. QED
    BY <1>1, <1>2, <1>5, <1>7, <1>8, <1>9, <1>10, <1>11 DEF ParseInv

(* A redirection is eaten: the scan is past it and its path.               *)
LEMMA EatenSeen ==
  ASSUME RedirInv, ParseInv, AtRedir, HasPath, argv' = Eaten, i' = i, line' = line, pc' = "parse"
  PROVE  /\ line \in Seq(LineWords) /\ i' \in 1 .. Len(argv') + 1
         /\ Scanned' \in 0 .. Len(line) /\ Scanned < Scanned'
         /\ \A k \in i .. Len(argv') : argv'[k] = line[Scanned' + k - i + 1]
         /\ Boundary(line, Scanned')
         /\ WordsAt(argv', i - 1, line, PlainTo(line, Scanned'))
         /\ Path = Target(line, Scanned + 1)
         /\ Scanned \in Nat /\ argv[i] = line[Scanned + 1]
         /\ \A s \in Streams : OpsTo(line, Scanned', s) =
              IF s \in argv[i].to THEN OpsTo(line, Scanned, s) \cup {Scanned + 1}
              ELSE OpsTo(line, Scanned, s)
  <1> DEFINE c == Scanned
             b == IF argv[i].bare THEN 1 ELSE 0
             d == AfterOp(line, c)
  <1>1. pc = "parse" /\ i <= Len(argv) /\ argv[i].to # {}
    BY DEF AtRedir
  <1>2. /\ line \in Seq(LineWords) /\ argv \in Seq(LineWords) /\ i \in 1 .. Len(argv) + 1
        /\ c \in 0 .. Len(line) /\ Boundary(line, c)
        /\ \A k \in i .. Len(argv) : argv[k] = line[c + k - i + 1]
        /\ WordsAt(argv, i - 1, line, PlainTo(line, c))
    BY <1>1 DEF ParseInv, RedirInv
  <1>3. /\ Len(line) \in Nat /\ Len(argv) \in Nat /\ i \in Nat /\ i >= 1 /\ c \in Nat /\ b \in {0, 1}
        /\ i + b <= Len(argv)
    BY <1>1, <1>2 DEF HasPath
  <1>4. c = Len(line) - Len(argv) + i - 1 /\ Scanned' = Len(line) - Len(argv') + i - 1
    BY <1>1 DEF Scanned
  <1>5. /\ Eaten \in Seq(LineWords)
        /\ Len(Eaten) = Len(argv) - 1 - b
        /\ \A k \in 1 .. i - 1 : Eaten[k] = argv[k]
        /\ \A k \in i .. Len(Eaten) : Eaten[k] = argv[k + 1 + b]
    <2> DEFINE u == SubSeq(argv, 1, i - 1)
               v == SubSeq(argv, i + 1 + b, Len(argv))
    <2>1. /\ u \in Seq(LineWords) /\ Len(u) = i - 1
          /\ \A k \in 1 .. i - 1 : u[k] = argv[k]
      BY <1>1, <1>2, <1>3
    <2> HIDE DEF b
    <2>2. /\ v \in Seq(LineWords) /\ Len(v) = Len(argv) - i - b
          /\ \A k \in 1 .. Len(v) : v[k] = argv[i + b + k]
      <3> DEFINE e == i + 1 + b
      <3>1. e \in Nat /\ e >= 1 /\ e <= Len(argv) + 1
        BY <1>3
      <3>2. \A x \in Nat : x >= 1 /\ x <= Len(argv) + 1 =>
              /\ SubSeq(argv, x, Len(argv)) \in Seq(LineWords)
              /\ Len(SubSeq(argv, x, Len(argv))) = Len(argv) - x + 1
              /\ \A k \in 1 .. Len(argv) - x + 1 : SubSeq(argv, x, Len(argv))[k] = argv[x + k - 1]
        BY <1>2, <1>3
      <3> HIDE DEF e
      <3>3. v = SubSeq(argv, e, Len(argv))
        BY DEF e
      <3> HIDE DEF v
      <3>4. /\ v \in Seq(LineWords) /\ Len(v) = Len(argv) - e + 1
            /\ \A k \in 1 .. Len(argv) - e + 1 : v[k] = argv[e + k - 1]
        BY <3>1, <3>2, <3>3
      <3>5. Len(v) = Len(argv) - i - b
        BY <3>4, <1>3 DEF e
      <3>6. ASSUME NEW k \in 1 .. Len(v) PROVE v[k] = argv[i + b + k]
        <4>1. e + k - 1 = i + b + k /\ k \in 1 .. Len(argv) - e + 1
          BY <3>4, <1>3 DEF e
        <4>2. QED
          BY <3>4, <4>1
      <3>7. QED
        BY <3>4, <3>5, <3>6
    <2>3. Eaten = u \o v
      BY DEF Eaten, b
    <2> HIDE DEF u, v
    <2>4. /\ u \o v \in Seq(LineWords) /\ Len(u \o v) = Len(u) + Len(v)
          /\ \A k \in 1 .. Len(u) : (u \o v)[k] = u[k]
          /\ \A k \in Len(u) + 1 .. Len(u) + Len(v) : (u \o v)[k] = v[k - Len(u)]
      <3>1. u \in Seq(LineWords) /\ v \in Seq(LineWords)
        BY <2>1, <2>2
      <3>2. QED
        BY ONLY <3>1
    <2>5. Len(Eaten) = Len(argv) - 1 - b
      BY <2>1, <2>2, <2>3, <2>4, <1>3
    <2>6. ASSUME NEW k \in i .. Len(Eaten) PROVE Eaten[k] = argv[k + 1 + b]
      <3>1. /\ k \in Len(u) + 1 .. Len(u) + Len(v) /\ k - Len(u) \in 1 .. Len(v)
            /\ i + b + (k - Len(u)) = k + 1 + b
        BY <2>1, <2>2, <2>5, <1>3
      <3>2. QED
        BY <2>2, <2>3, <2>4, <3>1
    <2>7. \A k \in 1 .. i - 1 : Eaten[k] = argv[k]
      BY <2>1, <2>3, <2>4
    <2>8. QED
      BY <2>3, <2>4, <2>5, <2>6, <2>7
  <1>6. argv[i] = line[c + 1] /\ c < Len(line)
    <2>1. i \in i .. Len(argv) /\ c + i - i + 1 = c + 1 /\ c < Len(line)
      BY <1>1, <1>3, <1>4
    <2>2. QED
      BY <1>2, <2>1
  <1>7. d = c + 1 + b
    BY <1>6 DEF AfterOp
  <1>8. Path = Target(line, c + 1)
    <2>1. CASE argv[i].bare
      <3>1. i + 1 \in i .. Len(argv) /\ c + (i + 1) - i + 1 = (c + 1) + 1
        BY <2>1, <1>3
      <3>2. argv[i + 1] = line[(c + 1) + 1]
        BY <1>2, <3>1
      <3>3. QED
        BY <2>1, <3>2, <1>6 DEF Path, Target
    <2>2. CASE ~argv[i].bare
      BY <2>2, <1>6 DEF Path, Target
    <2>3. QED
      BY <2>1, <2>2
  <1> HIDE DEF c, b, d
  <1>9. /\ Scanned' = d /\ d \in 0 .. Len(line) /\ d <= Len(line) /\ c < d
        /\ i \in 1 .. Len(Eaten) + 1 /\ Len(Eaten) \in Nat
    BY <1>3, <1>4, <1>5, <1>7
  <1>10. /\ PlainTo(line, d) = PlainTo(line, c)
         /\ \A s \in Streams : OpsTo(line, d, s) =
              IF s \in line[c + 1].to THEN OpsTo(line, c, s) \cup {c + 1} ELSE OpsTo(line, c, s)
         /\ Boundary(line, d)
    BY <1>1, <1>2, <1>3, <1>6, <1>9, OpNext DEF d
  <1>11. ASSUME NEW k \in i .. Len(Eaten) PROVE Eaten[k] = line[d + k - i + 1]
    <2>1. k + 1 + b \in i .. Len(argv) /\ c + (k + 1 + b) - i + 1 = d + k - i + 1
      <3>1. Len(Eaten) = Len(argv) - 1 - b
        BY <1>5
      <3>2. QED
        BY ONLY <1>3, <1>7, <1>9, <3>1, k \in i .. Len(Eaten)
    <2>2. QED
      BY <1>2, <1>5, <2>1
  <1>12. WordsAt(Eaten, i - 1, line, PlainTo(line, d))
    <2> DEFINE S == PlainTo(line, c)
    <2>1. WordsAt(argv, i - 1, line, S) /\ PlainTo(line, d) = S
      BY <1>2, <1>10
    <2> HIDE DEF S
    <2>2. \A k \in 1 .. i - 1 : Eaten[k] = argv[k]
      BY <1>5
    <2>3. WordsAt(Eaten, i - 1, line, S)
      <3>1. PICK at \in [1 .. i - 1 -> S] :
              /\ \A k \in 1 .. i - 1 : argv[k] = line[at[k]]
              /\ \A j, k \in 1 .. i - 1 : j < k => at[j] < at[k]
              /\ \A p \in S : \E k \in 1 .. i - 1 : at[k] = p
        BY <2>1 DEF WordsAt
      <3>2. \A k \in 1 .. i - 1 : Eaten[k] = line[at[k]]
        BY <2>2, <3>1
      <3>3. QED
        BY <3>1, <3>2 DEF WordsAt
    <2>4. QED
      BY <2>1, <2>3
  <1>13. QED
    BY <1>2, <1>3, <1>6, <1>8, <1>9, <1>10, <1>11, <1>12 DEF c

(* The file of the operator just scanned is the last one of its streams.   *)
LEMMA LastIsNew ==
  ASSUME NEW l \in Seq(LineWords), NEW c \in Nat, NEW d, NEW s \in Streams, NEW f,
         OpsTo(l, d, s) = OpsTo(l, c, s) \cup {c + 1}, f = Target(l, c + 1)
  PROVE  LastFile(l, d, s, f) /\ OpsTo(l, d, s) # {}
  <1>1. \A p \in OpsTo(l, c, s) : p \in 1 .. Len(l) /\ ~(c + 1 <= p)
    BY DEF OpsTo, Operators
  <1>2. ASSUME NEW p \in OpsTo(l, d, s), \A q \in OpsTo(l, d, s) : q <= p
        PROVE  p = c + 1
    <2>1. c + 1 <= p
      BY <1>2
    <2>2. QED
      BY <1>1, <1>2, <2>1
  <1>3. QED
    BY <1>2 DEF LastFile

(* psh_parseRedirections opens the file of a redirection.                  *)
LEMMA OpenRedirSeen ==
  ASSUME RedirInv, ParseInv, OpenRedir
  PROVE  ParseInv'
  <1> DEFINE fd == Min(Free(fdt))
             c  == Scanned
  <1>1. /\ pc = "parse" /\ pc' = "parse" /\ i' = i /\ line' = line
        /\ i \in Nat \ {0} /\ argv \in Seq(LineWords) /\ argv' = Eaten
        /\ AtRedir /\ HasPath /\ Free(fdt) # {} /\ Fit(fdt, red, save)
        /\ \A s \in Streams : /\ red[s] = NONE <=> OpsTo(line, c, s) = {}
                              /\ red[s] # NONE => LastFile(line, c, s, fdt[red[s]])
    BY DEF RedirInv, OpenRedir, AtRedir, ParseInv
  <1>2. argv[i] \in LineWords /\ Path \in LineWords
    BY <1>1, EatenFact
  <1>3. PICK s : argv[i].to = {s}
    <2>1. IsFiniteSet({0}) /\ IsFiniteSet({1}) /\ IsFiniteSet({2}) /\ IsFiniteSet({1, 2}) /\ IsFiniteSet({})
      BY FS_EmptySet, FS_AddElement, FS_Singleton
    <2>2. IsFiniteSet(argv[i].to)
      BY <1>2, <2>1, RedirAssumption
    <2>3. QED
      BY <2>2, FS_Singleton DEF OpenRedir
  <1>4. s \in Streams
    BY <1>2, <1>3, ToStreams
  <1>5. /\ fdt' = Close([fdt EXCEPT ![fd] = Path], {red[s]})
        /\ red' = [red EXCEPT ![s] = fd]
    BY <1>3 DEF OpenRedir, Put
  <1>6. /\ fd \in FDs \ Streams /\ fdt[fd] = closed /\ fd # NONE
        /\ \A u \in Streams : red[u] # fd
    BY <1>1, FreeFact, Numbers
  <1>7. /\ line \in Seq(LineWords) /\ i' \in 1 .. Len(argv') + 1
        /\ Scanned' \in 0 .. Len(line)
        /\ \A k \in i .. Len(argv') : argv'[k] = line[Scanned' + k - i + 1]
        /\ Boundary(line, Scanned')
        /\ WordsAt(argv', i - 1, line, PlainTo(line, Scanned'))
        /\ Path = Target(line, c + 1) /\ c \in Nat
        /\ \A u \in Streams : OpsTo(line, Scanned', u) =
             IF u \in argv[i].to THEN OpsTo(line, c, u) \cup {c + 1} ELSE OpsTo(line, c, u)
    BY <1>1, EatenSeen
  <1> HIDE DEF fd, c
  <1>8. \A x \in FDs : fdt'[x] = IF x = red[s] THEN closed ELSE IF x = fd THEN Path ELSE fdt[x]
    BY <1>1, <1>5 DEF Close, Fit
  <1>9. \A u \in Streams : red'[u] = IF u = s THEN fd ELSE red[u]
    BY <1>1, <1>5 DEF Fit
  <1>10. fdt'[fd] = Path
    BY <1>4, <1>6, <1>8
  <1>11. ASSUME NEW u \in Streams
         PROVE  /\ red'[u] = NONE <=> OpsTo(line, Scanned', u) = {}
                /\ red'[u] # NONE => LastFile(line, Scanned', u, fdt'[red'[u]])
    <2>1. CASE u = s
      <3>1. OpsTo(line, Scanned', u) = OpsTo(line, c, u) \cup {c + 1}
        BY <1>3, <1>7, <2>1
      <3>2. LastFile(line, Scanned', u, Path) /\ OpsTo(line, Scanned', u) # {}
        BY <1>7, <3>1, LastIsNew
      <3>3. QED
        BY <1>6, <1>9, <1>10, <2>1, <3>2
    <2>2. CASE u # s
      <3>1. OpsTo(line, Scanned', u) = OpsTo(line, c, u) /\ red'[u] = red[u]
        BY <1>3, <1>7, <1>9, <2>2
      <3>2. red[u] # NONE => red[u] \in FDs /\ red[u] # red[s]
        BY <1>1, <1>4, <2>2, FieldFact
      <3>3. red[u] # NONE => fdt'[red[u]] = fdt[red[u]]
        BY <3>2, <1>6, <1>8
      <3>4. QED
        BY <1>1, <3>1, <3>3 DEF LastFile
    <2>3. QED
      BY <2>1, <2>2
  <1>12. QED
    BY <1>1, <1>7, <1>11 DEF ParseInv

(* "&>", for both streams.                                                 *)
LEMMA OpenBothSeen ==
  ASSUME RedirInv, ParseInv, OpenBoth
  PROVE  ParseInv'
  <1> DEFINE fd == Min(Free(fdt))
             t  == Close([fdt EXCEPT ![fd] = Path], {red[1], red[2]})
             fe == Min(Free(t))
             c  == Scanned
  <1>0. SUFFICES ASSUME pc' = "parse" PROVE ParseInv'
    BY DEF ParseInv
  <1>1. /\ pc = "parse" /\ i \in Nat \ {0} /\ argv \in Seq(LineWords)
        /\ AtRedir /\ HasPath /\ Free(fdt) # {} /\ Fit(fdt, red, save)
        /\ \A s \in Streams : /\ red[s] = NONE <=> OpsTo(line, c, s) = {}
                              /\ red[s] # NONE => LastFile(line, c, s, fdt[red[s]])
    BY DEF RedirInv, OpenBoth, AtRedir, ParseInv
  <1>2. argv[i] \in LineWords /\ Path \in LineWords /\ Path # closed
    BY <1>1, EatenFact, RedirAssumption
  <1>3. argv[i].to = {1, 2}
    <2>1. Cardinality({}) = 0 /\ Cardinality({0}) = 1 /\ Cardinality({1}) = 1 /\ Cardinality({2}) = 1
      BY FS_EmptySet, FS_Singleton
    <2>2. argv[i].to \in {{}, {0}, {1}, {2}, {1, 2}} /\ Cardinality(argv[i].to) = 2
      BY <1>2, RedirAssumption DEF OpenBoth
    <2>3. argv[i].to \notin {{}, {0}, {1}, {2}}
      BY <2>1, <2>2
    <2>4. QED
      BY <2>2, <2>3
  <1>4. /\ Free(t) # {} /\ fdt' = [t EXCEPT ![fe] = Path]
        /\ red' = [red EXCEPT ![1] = fd, ![2] = fe]
        /\ argv' = Eaten /\ i' = i /\ line' = line
    BY <1>0 DEF OpenBoth, Put, EndCmd
  <1>5. /\ fd \in FDs \ Streams /\ fdt[fd] = closed /\ fd # NONE
        /\ \A u \in Streams : red[u] # fd
    BY <1>1, FreeFact, Numbers
  <1>6. /\ line \in Seq(LineWords) /\ i' \in 1 .. Len(argv') + 1
        /\ Scanned' \in 0 .. Len(line)
        /\ \A k \in i .. Len(argv') : argv'[k] = line[Scanned' + k - i + 1]
        /\ Boundary(line, Scanned')
        /\ WordsAt(argv', i - 1, line, PlainTo(line, Scanned'))
        /\ Path = Target(line, c + 1) /\ c \in Nat
        /\ \A u \in Streams : OpsTo(line, Scanned', u) =
             IF u \in argv[i].to THEN OpsTo(line, c, u) \cup {c + 1} ELSE OpsTo(line, c, u)
    BY <1>0, <1>1, <1>4, EatenSeen
  <1> HIDE DEF fd, c
  <1>7. /\ t \in [FDs -> Files]
        /\ \A x \in FDs : t[x] = IF x \in {red[1], red[2]} THEN closed
                                 ELSE IF x = fd THEN Path ELSE fdt[x]
    BY <1>1, <1>2 DEF Close, Fit, Files
  <1> HIDE DEF t
  <1>8. fe \in FDs /\ t[fe] = closed
    <2>1. Free(t) \subseteq Nat
      BY Numbers DEF Free
    <2>2. fe \in Free(t)
      BY <1>4, <2>1, MinFact
    <2>3. QED
      BY <2>2 DEF Free
  <1> HIDE DEF fe
  <1>9. t[fd] = Path /\ fe # fd /\ fe # NONE
    <2>1. t[fd] = Path
      BY <1>5, <1>7, Numbers
    <2>2. QED
      BY <2>1, <1>2, <1>8, Numbers
  <1>10. \A x \in FDs : fdt'[x] = IF x = fe THEN Path ELSE t[x]
    BY <1>4, <1>7
  <1>11. red'[0] = red[0] /\ red'[1] = fd /\ red'[2] = fe
    BY <1>1, <1>4, Numbers DEF Fit
  <1>12. fdt'[fd] = Path /\ fdt'[fe] = Path
    BY <1>5, <1>8, <1>9, <1>10
  <1>13. ASSUME NEW u \in Streams
         PROVE  /\ red'[u] = NONE <=> OpsTo(line, Scanned', u) = {}
                /\ red'[u] # NONE => LastFile(line, Scanned', u, fdt'[red'[u]])
    <2>1. CASE u \in {1, 2}
      <3>1. OpsTo(line, Scanned', u) = OpsTo(line, c, u) \cup {c + 1}
        BY <1>3, <1>6, <2>1
      <3>2. LastFile(line, Scanned', u, Path) /\ OpsTo(line, Scanned', u) # {}
        BY <1>6, <3>1, LastIsNew
      <3>3. red'[u] \in {fd, fe}
        BY <2>1, <1>11
      <3>4. QED
        BY <1>5, <1>9, <1>12, <3>2, <3>3
    <2>2. CASE u = 0
      <3>1. OpsTo(line, Scanned', u) = OpsTo(line, c, u) /\ red'[u] = red[u]
        BY <1>3, <1>6, <1>11, <2>2
      <3>2. red[u] # NONE => red[u] \in FDs /\ red[u] \notin {red[1], red[2]} /\ red[u] # fd
        BY <1>1, <1>5, <2>2, FieldFact, Numbers
      <3>3. red[u] # NONE => t[red[u]] = fdt[red[u]] /\ t[red[u]] # closed
        BY <3>2, <1>1, <1>7 DEF Fit
      <3>4. red[u] # NONE => fdt'[red[u]] = fdt[red[u]]
        BY <3>2, <3>3, <1>8, <1>10
      <3>5. QED
        BY <1>1, <3>1, <3>4 DEF LastFile
    <2>3. QED
      BY <2>1, <2>2, Numbers
  <1>14. QED
    BY <1>4, <1>6, <1>13 DEF ParseInv

(* All words are scanned: the fields have what the whole line asks for.    *)
LEMMA ParseDoneSeen ==
  ASSUME RedirInv, ParseInv, ParseDone
  PROVE  ParseInv' /\ SeenInv'
  <1>1. CASE pc' # "redirect"
    BY <1>1 DEF ParseDone, EndCmd, ParseInv, SeenInv
  <1>2. CASE pc' = "redirect"
    <2>1. /\ pc = "parse" /\ i > Len(argv) /\ i' = 0 /\ UNCHANGED <<fdt, red, save, argv, line>>
          /\ argv \in Seq(LineWords)
      BY <1>2 DEF ParseDone, EndCmd, RedirInv
    <2>2. /\ line \in Seq(LineWords) /\ i \in 1 .. Len(argv) + 1
          /\ WordsAt(argv, i - 1, line, PlainTo(line, Scanned))
          /\ \A s \in Streams : /\ red[s] = NONE <=> OpsTo(line, Scanned, s) = {}
                                /\ red[s] # NONE => LastFile(line, Scanned, s, fdt[red[s]])
      BY <2>1 DEF ParseInv
    <2>3. i = Len(argv) + 1 /\ i - 1 = Len(argv) /\ Scanned = Len(line) /\ Len(line) \in Nat
      BY <2>1, <2>2 DEF Scanned
    <2>4. PlainTo(line, Len(line)) = Plain(line)
      <3>1. DOMAIN line = 1 .. Len(line)
        BY <2>2
      <3>2. \A p \in Plain(line) : p <= Len(line)
        BY <3>1, <2>3 DEF Plain
      <3>3. QED
        BY <3>2 DEF PlainTo
    <2>5. WordsAt(argv, Len(argv), line, Plain(line))
      BY <2>2, <2>3, <2>4
    <2>6. \A s \in Streams : save[s] = NONE /\ s >= 0
      BY <2>1, Numbers DEF RedirInv, SavesInPhase, NoFds
    <2>7. \A s \in Streams :
            IF OpsTo(line, Len(line), s) = {} THEN red[s] = NONE /\ save[s] = NONE
            ELSE red[s] # NONE /\ LastFile(line, Len(line), s, fdt[red[s]])
      BY <2>2, <2>3, <2>6
    <2>8. QED
      BY <1>2, <2>1, <2>2, <2>5, <2>6, <2>7 DEF ParseInv, SeenInv
  <1>3. QED
    BY <1>1, <1>2

(* psh_streamRedirect gives each stream the file of its field.             *)
LEMMA RedirectOneSeen ==
  ASSUME RedirInv, SeenInv, RedirectOne
  PROVE  SeenInv'
  <1> DEFINE fd == Min(Free(fdt))
             n == Len(line)
             Ops(s) == OpsTo(line, n, s)
  <1>1. /\ pc = "redirect" /\ pc' = pc /\ argv' = argv /\ line' = line
        /\ i \in Streams /\ Fit(fdt, red, save)
        /\ line \in Seq(LineWords) /\ WordsAt(argv, Len(argv), line, Plain(line))
    BY DEF RedirectOne, RedirInv, SeenInv
  <1>2. SUFFICES ASSUME err' = 0
        PROVE  \A s \in Streams :
                 IF Ops(s) = {} THEN red'[s] = NONE /\ save'[s] = NONE
                 ELSE IF s >= i' THEN red'[s] # NONE /\ LastFile(line, n, s, fdt'[red'[s]])
                      ELSE LastFile(line, n, s, fdt'[s])
    BY <1>1 DEF SeenInv
  <1>3. /\ err = 0 /\ i' = i + 1
        /\ \/ red[i] = NONE /\ UNCHANGED <<fdt, red, save>>
           \/ /\ red[i] # NONE /\ Free(fdt) # {}
              /\ red' = [red EXCEPT ![i] = NONE]
              /\ save' = [save EXCEPT ![i] = fd]
              /\ fdt' = Close([[fdt EXCEPT ![fd] = fdt[i]] EXCEPT ![i] = fdt[red[i]]], {red[i]})
    BY <1>2 DEF RedirectOne, Put
  <1>4. \A s \in Streams : /\ s >= i + 1 <=> s >= i /\ s # i
                           /\ i >= i
    BY <1>1, Numbers
  <1>5. \A s \in Streams :
          IF Ops(s) = {} THEN red[s] = NONE /\ save[s] = NONE
          ELSE IF s >= i THEN red[s] # NONE /\ LastFile(line, n, s, fdt[red[s]])
               ELSE LastFile(line, n, s, fdt[s])
    BY <1>1, <1>3 DEF SeenInv
  <1> HIDE DEF n, Ops
  <1>6. CASE red[i] = NONE /\ UNCHANGED <<fdt, red, save>>
    <2>1. Ops(i) = {}
      BY <1>1, <1>4, <1>5, <1>6
    <2>2. QED
      BY <1>1, <1>3, <1>4, <1>5, <1>6, <2>1
  <1>7. CASE /\ red[i] # NONE /\ Free(fdt) # {}
             /\ red' = [red EXCEPT ![i] = NONE]
             /\ save' = [save EXCEPT ![i] = fd]
             /\ fdt' = Close([[fdt EXCEPT ![fd] = fdt[i]] EXCEPT ![i] = fdt[red[i]]], {red[i]})
    <2>1. /\ fd \in FDs \ Streams
          /\ \A s \in Streams : red[s] # fd
      BY <1>1, <1>7, FreeFact
    <2> HIDE DEF fd
    <2>2. /\ red[i] \in FDs /\ i \in FDs /\ \A u \in Streams : u # red[i] /\ u \in FDs /\ u # fd
          /\ \A u \in Streams \ {i} : red[u] # red[i]
      BY <1>1, <1>7, <2>1, FieldFact
    <2>3. \A x \in FDs : fdt'[x] = IF x = red[i] THEN closed ELSE IF x = i THEN fdt[red[i]]
                                   ELSE IF x = fd THEN fdt[i] ELSE fdt[x]
      BY <1>1, <1>7, <2>1, <2>2 DEF Close, Fit
    <2>4. \A s \in Streams : /\ red'[s] = IF s = i THEN NONE ELSE red[s]
                             /\ s # i => save'[s] = save[s]
      BY <1>1, <1>7 DEF Fit
    <2>5. \A s \in Streams : fdt'[s] = IF s = i THEN fdt[red[i]] ELSE fdt[s]
      BY <2>2, <2>3
    <2>6. \A s \in Streams : red[s] # NONE /\ s # i => red[s] \in FDs /\ red[s] # i
      BY <1>1, FieldFact
    <2>7. \A s \in Streams : red[s] # NONE /\ s # i => fdt'[red[s]] = fdt[red[s]]
      BY <2>1, <2>2, <2>3, <2>6
    <2>8. Ops(i) # {} /\ LastFile(line, n, i, fdt'[i])
      BY <1>1, <1>4, <1>5, <1>7, <2>5
    <2>9. ASSUME NEW s \in Streams, s # i
          PROVE  IF Ops(s) = {} THEN red'[s] = NONE /\ save'[s] = NONE
                 ELSE IF s >= i' THEN red'[s] # NONE /\ LastFile(line, n, s, fdt'[red'[s]])
                      ELSE LastFile(line, n, s, fdt'[s])
      BY <1>3, <1>4, <1>5, <2>4, <2>5, <2>7, <2>9
    <2>10. ~(i >= i')
      BY <1>1, <1>3, <1>4
    <2>11. QED
      BY <2>8, <2>9, <2>10
  <1>8. QED
    BY <1>3, <1>6, <1>7

(* ParseInv and SeenInv hold step by step.                                 *)
LEMMA SeenStep ==
  ASSUME RedirInv, ParseInv, SeenInv, [Next]_vars
  PROVE  ParseInv' /\ SeenInv'
  <1>1. CASE NextCmd
    <2>1. /\ pc' = "parse" /\ i' = 1 /\ argv' = line' /\ line' \in Seq(LineWords)
          /\ \A s \in Streams : red'[s] = NONE
      BY <1>1, RedirAssumption DEF NextCmd, NoFds
    <2>2. Len(line') \in Nat /\ Scanned' = 0
      BY <2>1 DEF Scanned
    <2>3. 0 \notin Operators(line') /\ \A p \in Operators(line') \cup Plain(line') : ~(p <= 0)
      <3>1. DOMAIN line' = 1 .. Len(line')
        BY <2>1
      <3>2. QED
        BY <3>1, <2>2 DEF Operators, Plain
    <2>4. Boundary(line', 0) /\ PlainTo(line', 0) = {} /\ \A s \in Streams : OpsTo(line', 0, s) = {}
      BY <2>3 DEF Boundary, PlainTo, OpsTo
    <2>5. WordsAt(argv', 0, line', {})
      <3> DEFINE at == [k \in 1 .. 0 |-> 0]
      <3>1. at \in [1 .. 0 -> {}]
        OBVIOUS
      <3>2. QED
        BY <3>1 DEF WordsAt
    <2>6. i' \in 1 .. Len(argv') + 1 /\ Scanned' \in 0 .. Len(line') /\ i' - 1 = 0
      BY <2>1, <2>2
    <2>7. \A k \in i' .. Len(argv') : argv'[k] = line'[Scanned' + k - i' + 1]
      <3>1. \A k \in 1 .. Len(argv') : 0 + k - 1 + 1 = k
        OBVIOUS
      <3>2. QED
        BY <2>1, <2>2, <3>1
    <2>8. QED
      BY <2>1, <2>2, <2>4, <2>5, <2>6, <2>7 DEF ParseInv, SeenInv
  <1>2. CASE SkipWord
    BY <1>2, SkipWordSeen DEF SkipWord, SeenInv
  <1>3. CASE ParseFails
    BY <1>3 DEF ParseFails, EndCmd, ParseInv, SeenInv
  <1>4. CASE OpenRedir
    BY <1>4, OpenRedirSeen DEF OpenRedir, AtRedir, SeenInv
  <1>5. CASE OpenBoth
    BY <1>5, OpenBothSeen DEF OpenBoth, AtRedir, EndCmd, SeenInv
  <1>6. CASE ParseDone
    BY <1>6, ParseDoneSeen
  <1>7. CASE RedirectOne
    BY <1>7, RedirectOneSeen DEF RedirectOne, ParseInv
  <1>8. CASE RedirectDone
    <2>1. /\ pc = "redirect" /\ i = 3 /\ pc' \in {"run", "restore"} /\ (pc' = "run" => err = 0)
          /\ UNCHANGED <<fdt, red, save, argv, err, line>>
      BY <1>8 DEF RedirectDone
    <2>2. \A s \in Streams : ~(s >= 3)
      BY Numbers
    <2>3. QED
      BY <2>1, <2>2 DEF ParseInv, SeenInv
  <1>9. CASE Run
    BY <1>9 DEF Run, ParseInv, SeenInv
  <1>10. CASE RestoreOne
    BY <1>10 DEF RestoreOne, ParseInv, SeenInv
  <1>11. CASE RestoreDone
    BY <1>11 DEF RestoreDone, EndCmd, ParseInv, SeenInv
  <1>12. CASE UNCHANGED vars
    <2>1. UNCHANGED <<fdt, red, save, argv, i, err, pc, line>>
      BY <1>12 DEF vars
    <2>2. Scanned' = Scanned
      BY <2>1 DEF Scanned
    <2>3. QED
      BY <2>1, <2>2 DEF ParseInv, SeenInv
  <1>13. QED
    BY <1>1, <1>2, <1>3, <1>4, <1>5, <1>6, <1>7, <1>8, <1>9, <1>10, <1>11, <1>12 DEF Next

(* A command runs with each stream on the file of the last redirection     *)
(* that names it, on the terminal if none does, and with the words that    *)
(* are neither redirections nor their paths, in their order: whatever the  *)
(* line, and however many redirections it has for one stream.              *)
THEOREM CommandSees == Spec => []CommandSeesItsStreams
  <1>1. Init => ParseInv /\ SeenInv
    BY DEF Init, ParseInv, SeenInv
  <1>2. RedirInv /\ ParseInv /\ SeenInv /\ [Next]_vars => ParseInv' /\ SeenInv'
    BY SeenStep
  <1>3. RedirInv /\ SeenInv => CommandSeesItsStreams
    <2> SUFFICES ASSUME RedirInv, SeenInv, pc = "run" PROVE CommandSeesItsStreams
      BY DEF CommandSeesItsStreams
    <2> DEFINE n == Len(line)
               Ops(s) == {p \in Operators(line) : s \in line[p].to}
    <2>1. /\ line \in Seq(LineWords) /\ WordsAt(argv, Len(argv), line, Plain(line))
          /\ \A s \in Streams : IF OpsTo(line, n, s) = {} THEN red[s] = NONE /\ save[s] = NONE
                                ELSE LastFile(line, n, s, fdt[s])
      BY DEF SeenInv
    <2>2. n \in Nat /\ DOMAIN line = 1 .. n
      BY <2>1
    <2>3. \A p \in Operators(line) : p \in Nat /\ p <= n
      BY <2>2 DEF Operators
    <2>4. \A s \in Streams : OpsTo(line, n, s) = Ops(s)
      BY <2>3 DEF OpsTo
    <2>5. ASSUME NEW s \in Streams
          PROVE  IF Ops(s) = {} THEN s \in stuck \/ fdt[s] = tty
                                ELSE fdt[s] = Target(line, Max(Ops(s)))
      <3>1. CASE Ops(s) = {}
        <4>1. save[s] = NONE
          BY <2>1, <2>4, <3>1
        <4>2. QED
          BY <3>1, <4>1 DEF RedirInv, TtyHeld, Held
      <3>2. CASE Ops(s) # {}
        <4>1. Ops(s) \subseteq Nat /\ \A x \in Ops(s) : x <= n
          BY <2>3
        <4>2. LastFile(line, n, s, fdt[s]) /\ OpsTo(line, n, s) = Ops(s)
          BY <2>1, <2>4, <3>2
        <4> HIDE DEF Ops, n
        <4>3. Max(Ops(s)) \in Ops(s) /\ \A y \in Ops(s) : y <= Max(Ops(s))
          BY <2>2, <3>2, <4>1, MaxFact
        <4>4. QED
          BY <3>2, <4>2, <4>3 DEF LastFile
      <3>3. QED
        BY <3>1, <3>2
    <2>6. QED
      BY <2>1, <2>5 DEF CommandSeesItsStreams
  <1>4. QED
    BY <1>1, <1>2, <1>3, RedirInvariant, PTL DEF Spec
=============================================================================
