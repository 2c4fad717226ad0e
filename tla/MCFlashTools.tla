---------------------------- MODULE MCFlashTools ----------------------------
(* The two tools that rearrange a flash in place, one run of one of them.  *)
EXTENDS MeterfsMigrate, NandPart

VARIABLE tool

F(cnt, records, size, wrote, kept) ==
  [sectorcnt |-> cnt, records |-> records, recordsz |-> size, wrote |-> wrote, kept |-> kept]

Small == {F(2, 2, 1, w, 3) : w \in {0, 1, 2, 5, 6}} \cup {F(2, 1, 2, w, 1) : w \in {1, 2}}
Growing == {F(2, 2, 2, w, 2) : w \in 1 .. 3} \cup {F(3, 3, 2, w, 3) : w \in {3, 4}}

MCLayouts ==
  {[newer |-> h, no |-> 2, other |-> n, files |-> <<a, b>>] :
     h \in 0 .. 1, n \in {1, NVALID}, a \in Small \cup Growing, b \in Small \cup Growing}
  \cup {[newer |-> 0, no |-> n, other |-> NVALID, files |-> <<>>] : n \in {2, NVALID}}

(* A file of three records that fit without growing, with up to four       *)
(* written to it.                                                          *)
MCThreeRecords == {[newer |-> 0, no |-> 2, other |-> 1, files |-> <<F(4, 3, 1, w, 3)>>] : w \in 0 .. 4}

P(n, o, s) == [name |-> n, offset |-> o, size |-> s]

(* Tables of a, b and c in this order; the names are interchangeable.      *)
MCTables ==
  {t \in {<<P("a", i, k), P("b", j, l), P("c", h, m)>> :
            i \in 0 .. 1, j \in 1 .. 2, h \in 2 .. 3, k \in 1 .. 2, l \in 1 .. 2, m \in 1 .. 2} : Valid(t)}

To(n) == {P(n, o, s) : o \in 0 .. NBLOCKS - 1, s \in 1 .. 2}

Ask(t, rem, mod, add, u) == [table |-> t, rem |-> rem, mod |-> mod, add |-> add, update |-> u]

Mods ==
  UNION {{<<a>>, <<b, a>>, <<a, c, b>>} : a \in To("a"), b \in To("b"), c \in To("c")}
  \cup {<<a1, a2, b>> : a1 \in To("a"), a2 \in To("a"), b \in {P("b", 0, 0), P("b", 0, 1), P("d", 3, 1)}}
  \cup {<<a, P("d", 3, 1)>> : a \in To("a")}

Adds == {<<p>> : p \in To("d")} \cup {<<P("d", 0, 1), P("e", 3, 1)>>, <<P("d", 0, 1), P("e", 3, 1), P("f", 1, 1)>>}

MCRequests ==
  {Ask(t, <<>>, m, <<>>, NoUpdate) : t \in MCTables, m \in Mods}
  \cup {Ask(t, <<P(n, 0, 0)>>, <<>>, <<>>, NoUpdate) : t \in MCTables, n \in {"a", "b", "c", "d"}}
  \cup {Ask(t, <<P("c", 0, 0)>>, <<m>>, a, NoUpdate) : t \in MCTables, m \in To("a"), a \in Adds}
  \cup {Ask(t, <<>>, <<>>, a, NoUpdate) : t \in MCTables, a \in Adds \cup {<<>>}}
  \cup {Ask(t, <<>>, <<>>, <<>>, u) : t \in MCTables, u \in MCTables \cup {<<P("b", 0, 2), P("d", 2, 1)>>, <<P("b", 2, 2), P("a", 0, 2)>>}}

MCRemovals == {Ask(t, <<P(n, 0, 0)>>, <<>>, <<>>, NoUpdate) : t \in MCTables, n \in {"a", "b", "c"}}

(* The tool that does not run.                                             *)
MigIdle ==
  /\ layout = <<>> /\ part = <<>> /\ files = <<>> /\ todo = <<>>
  /\ hdr = [h \in 0 .. 1 |-> [no |-> NVALID, magic |-> "old", files |-> <<>>]]
  /\ oldno = 0 /\ freeSector = 0 /\ id = 0 /\ phase = "idle"

NandPartIdle ==
  /\ npReq = <<>> /\ npFile = FALSE /\ npDevice = <<>> /\ npTable = <<>> /\ npPlace = <<>>
  /\ npRem = <<>> /\ npMod = <<>> /\ npAdd = <<>> /\ npAddSize = 0 /\ npPending = FALSE /\ npPhase = "idle"

MCInit ==
  \/ tool = "migrate" /\ MigInit /\ NandPartIdle
  \/ tool = "nandpart" /\ NandPartInit /\ MigIdle

MCNext ==
  \/ tool = "migrate" /\ MigNext /\ UNCHANGED <<npVars, tool>>
  \/ tool = "nandpart" /\ NandPartNext /\ UNCHANGED <<migVars, tool>>

MCSpec == MCInit /\ [][MCNext]_<<migVars, npVars, tool>>
=============================================================================
