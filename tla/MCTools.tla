------------------------------ MODULE MCTools ------------------------------
(* The one-shot tools and the parts of psh that keep no state between      *)
(* commands, one run of one of them.  They share nothing, so each is       *)
(* explored with the others waiting in one of their initial states.        *)
EXTENDS NandTool, Psd, PsdRt, PfRecord, PfReport, PshEdit, PshSession, PshFormat,
        PshCopy, PshWget, PshPing, PshNtp, PshTop

VARIABLE tool

(* nandtool: flashing with and without bad blocks, erase and dump ranges,  *)
(* and the boot control blocks.                                            *)
NtBase ==
  [check |-> FALSE, erase |-> <<>>, cleanmarkers |-> FALSE, image |-> 0, raw |-> FALSE, start |-> 0, digest |-> -1,
   fcb |-> FALSE, dbbt |-> FALSE, scan |-> FALSE, dump |-> <<>>, bad |-> {}, before |-> [b \in 0 .. NTBLOCKS - 1 |-> Erased]]
NtOld == [b \in 0 .. NTBLOCKS - 1 |-> <<OldWord, OldWord>>]
NtScanOnly == [NtBase EXCEPT !.before = NtOld, !.scan = TRUE]
MCNtRequests ==
  {[NtBase EXCEPT !.image = i, !.digest = d, !.start = s, !.bad = b, !.raw = r, !.check = (i = 3)] :
     i \in {3, 8, 9}, d \in {-1, 8, 9}, s \in 0 .. 1, b \in {c \in SUBSET (0 .. 4) : Cardinality(c) <= 2}, r \in BOOLEAN}
  \cup {[NtBase EXCEPT !.image = i, !.digest = i, !.bad = b, !.before = NtOld, !.erase = e, !.cleanmarkers = c, !.dump = d] :
          i \in {0, 5}, b \in SUBSET (0 .. 1), e \in {<<0, 0>>, <<0>>, <<0, 2>>}, c \in BOOLEAN, d \in {<<>>, <<0>>, <<4, 0>>, <<5, 2>>}}
  \cup {[NtBase EXCEPT !.bad = b, !.before = NtOld, !.fcb = f, !.dbbt = ~f \/ s, !.scan = s] :
          b \in SUBSET {6}, f \in BOOLEAN, s \in BOOLEAN}
  \cup {NtScanOnly, [NtBase EXCEPT !.digest = 30],
        [NtBase EXCEPT !.fcb = TRUE, !.before = [b \in 0 .. NTBLOCKS - 1 |-> <<FcbWord, FcbWord>>]]}

(* psd: every register, files that fill, overrun and share blocks.         *)
Reg(a, d, f) == [type |-> "register", address |-> a, data |-> d, format |-> f]
File(p, n, f) == [type |-> "file", address |-> p, data |-> n, format |-> f]
MCPdCommands ==
  {Reg("partition", n, 0) : n \in {1, 3, 9}} \cup {Reg("control", d, 0) : d \in 1 .. 4}
  \cup {Reg("erase", 2, 0), Reg("erase", PDBLOCKS, 16)}
  \cup {Reg(a, 0, 0) : a \in {"fuses", "close", "other"}}
  \cup {File(p, n, 0) : p \in {0, 1, 2}, n \in {4, 7}} \cup {File(0, 7, 1), File(2, 4, 1)} \cup {[NoCmd EXCEPT !.type = "ignore"]}
MCPdBads == {{}, {0}, {1, 2}}

PrFile(a, n) == [type |-> "file", address |-> a, data |-> n]
MCPrCommands ==
  {PrFile(a, n) : a \in {0, 2, 4}, n \in {1, 4, 5}} \cup {[PrNoCmd EXCEPT !.type = t] : t \in {"close", "other"}}
  \cup {[PrNoCmd EXCEPT !.type = "flash", !.data = n] : n \in 0 .. 2}

(* prof: short and long events; two processes that share one library.      *)
MCPfShapes == {<<1>>, <<3, 1, 2>>}
MCPfMaps == [p \in 1 .. 2 |-> {10, 10 + p}]

(* edit: a screen smaller than the file, and a tab that is wider than 1.   *)
MCEdSizes == {[rows |-> 4, cols |-> 3]}
MCEdFiles == {<<>>, <<<<97>>, <<9, 97>>, <<97>>>>}

(* Scripts with comments, waits for a mount and lines of every kind.       *)
L(k) == [kind |-> k, word |-> "", blank |-> FALSE, name |-> ""]
C(w, b, n) == [kind |-> "cmd", word |-> w, blank |-> b, name |-> n]
MCSsScripts ==
  {<<>>, <<L("comment"), C("export", TRUE, "A"), L("W"), L("T")>>, <<L("T"), L("X")>>,
   <<C("export", TRUE, ""), C("unset", TRUE, "HOME"), C("ls", TRUE, ""), C("ls", FALSE, "")>>}

(* Numbers around the powers of both bases and around what rounds up.      *)
MCFmNumbers == (-20 .. 40) \cup (94 .. 106) \cup (994 .. 1060) \cup (2040 .. 2052) \cup (9940 .. 10000) \cup (15869 .. 15912)
Name(l, f) == [len |-> l, fits |-> f]
MCFmNames ==
  UNION {[1 .. n -> {Name(1, TRUE), Name(3, TRUE), Name(7, TRUE), Name(2, FALSE)}] : n \in 1 .. 4}
  \cup {[i \in 1 .. 7 |-> Name(k, TRUE)] : k \in 1 .. 4}
MCFmMoves == -20 .. 20
MCFmExponents == {-4, -1, 0, 3, 10}

(* Copies: inputs and targets of several lengths; dd with every operand at *)
(* its limits.                                                             *)
Num(v, k) == [value |-> v, mult |-> k]
CpBase ==
  [tool |-> "cp", files |-> <<5>>, old |-> 3, pipe |-> FALSE, rename |-> FALSE, preserve |-> FALSE, follow |-> FALSE,
   bs |-> Num(2, 1), count |-> Num(-1, 1), skip |-> Num(0, 1), seek |-> Num(0, 1), conv |-> {}]
DdBase == [CpBase EXCEPT !.tool = "dd"]
MCCpRequests ==
  {[DdBase EXCEPT !.old = o, !.conv = v, !.seek = Num(k, 1), !.skip = Num(s, 1), !.count = Num(c, 1)] :
     o \in {-1, 7}, v \in SUBSET {"nocreat", "notrunc"}, k \in 0 .. 1, s \in {0, 1, 4}, c \in {-1, 2}}
  \cup {[DdBase EXCEPT !.pipe = TRUE, !.skip = Num(s, 1), !.count = Num(c, k), !.bs = Num(1, b)] :
          s \in 0 .. 1, c \in (0 .. 8) \cup {15, 17}, k \in {1, 2}, b \in {2, 3}}
  \cup {[DdBase EXCEPT !.bs = Num(b, 1), !.skip = Num(s, 1), !.count = Num(1, 1)] : b \in {6, 10, 18}, s \in 0 .. 1}
  \cup {[CpBase EXCEPT !.files = <<n>>, !.old = o, !.preserve = p] : n \in {-1, 0, 2, 5}, o \in {-1, 3, 7}, p \in BOOLEAN}
  \cup {[CpBase EXCEPT !.tool = "mv", !.files = <<n>>, !.old = o, !.rename = p] : n \in {-1, 0, 5}, o \in {-1, 7}, p \in BOOLEAN}
  \cup {[CpBase EXCEPT !.tool = "cat", !.files = f, !.old = -1] : f \in {<<>>, <<3>>, <<3, -1, 2>>, <<2, 3>>}}
  \cup {[CpBase EXCEPT !.tool = "logread", !.files = <<3>>, !.old = -1, !.follow = f] : f \in BOOLEAN}

(* Answers with headers before and after the length, cut short, and with   *)
(* more behind the body than it promises.                                  *)
Body(n) == [i \in 1 .. n |-> i]
Headers(n) ==
  {<<StatusOk, OtherHeader, NL>> \o h : h \in
     {<<ContentLength, Number(n), NL, OtherHeader, OtherHeader, NL, NL>>, <<OtherHeader, NL, ContentLength, Number(n), NL, NL>>,
      <<LengthX, Number(n), NL, OtherHeader, NL, NL>>, <<ContentLength, NL, NL>>, <<OtherHeader, OtherHeader, OtherHeader, OtherHeader, NL, NL>>}}
MCWgAnswers == UNION {{h \o Body(m) : h \in Headers(n), m \in {n - 1, n, n + 4}} : n \in {2, 5}} \cup {<<OtherHeader, NL, NL>>}

(* ping: even and odd sizes, and more requests than a sequence number has  *)
(* values.                                                                 *)
MCPgRequests == [v6 : BOOLEAN, cnt : {1, 5}, size : {2}] \cup [v6 : BOOLEAN, cnt : {2}, size : {2, 3}]

(* ntpclient: pools of servers, windows with and without room for all of   *)
(* them, fractions where the conversion steps, and the end of the era.     *)
Pools(s) == [h \in {"arg", "conf", "pool.ntp.org"} |-> IF h = "arg" THEN s ELSE IF h = "conf" THEN <<"good">> ELSE <<"bad", "good">>]
SnBase ==
  [arg |-> TRUE, conf |-> <<>>, servers |-> Pools(<<"good">>), timeout |-> 1, window |-> 0, base |-> 100, frac |-> 0]
MCSnRequests ==
  {[SnBase EXCEPT !.servers = Pools(s), !.timeout = w[1], !.window = w[2]] :
     s \in {<<"good">>, <<"bad", "good">>}, w \in {<<0, 6>>, <<1, 4>>, <<1, 10>>, <<2, 0>>}}
  \cup {SnBase}
  \cup {[SnBase EXCEPT !.frac = f, !.base = b] :
          f \in {0, 1, 32767, 32768, 98303, 98304, 2097152, 4161535, 4161536, 4194303}, b \in {0, 192, 193, 250}}
  \cup {[SnBase EXCEPT !.arg = FALSE, !.conf = c, !.window = 4] :
          c \in {<<>>, <<"comment", "blank", "host">>, <<"empty", "host">>, <<"comment">>, <<"long">>}}

(* top: an empty system, and one with a process; the idle thread has used  *)
(* nearly what an int can hold.                                            *)
MCTpOptions == {[threads |-> FALSE, ncpu |-> 0], [threads |-> TRUE, ncpu |-> 1]}
TpEmpty == {[Thread(1, 0, 0, 0) EXCEPT !.time = 30]}
MCTpSystems == {TpEmpty, TpEmpty \cup {[Thread(3, 2, 1, 0) EXCEPT !.time = 1]}}

(* A tool that does not run is in one of its initial states.               *)
NtIdle == ntReq = NtScanOnly /\ NtInit
PdIdle == pdBad = [p \in PdParts |-> {}] /\ PsdInit
PrIdle == PsdRtInit
PfIdle == pfRolling = FALSE /\ pfAlive = PFPROCS /\ PfInit
RpIdle == rpMode = [deferred |-> TRUE, sched |-> TRUE, syscalls |-> TRUE] /\ rpK = [t \in RPCLIENT |-> Running] /\ RpInit
EdIdle == edDisk = <<>> /\ EdInit
SsIdle == ssTcpid = "none" /\ ssLogin = FALSE /\ ssPath = FALSE /\ ssThere = TRUE /\ SsInit
FmIdle == fmCall = [what |-> "move", col |-> 0, n |-> 0] /\ FmInit
CpIdle == cpReq = CpBase /\ CpInit
WgIdle == wgAnswer = <<OtherHeader, NL, NL>> /\ WgInit
PgIdle == pgReq = [v6 |-> FALSE, cnt |-> 1, size |-> 2] /\ PgInit
SnIdle == snReq = SnBase /\ SnInit
TpIdle == tpSys = TpEmpty /\ TpInit

MCInit ==
  \/ tool = "nandtool" /\ NtInit /\ PdIdle /\ PrIdle /\ PfIdle /\ RpIdle /\ EdIdle /\ SsIdle /\ FmIdle /\ CpIdle /\ WgIdle /\ PgIdle /\ SnIdle /\ TpIdle
  \/ tool = "psd" /\ NtIdle /\ PsdInit /\ PrIdle /\ PfIdle /\ RpIdle /\ EdIdle /\ SsIdle /\ FmIdle /\ CpIdle /\ WgIdle /\ PgIdle /\ SnIdle /\ TpIdle
  \/ tool = "psd imxrt" /\ NtIdle /\ PdIdle /\ PsdRtInit /\ PfIdle /\ RpIdle /\ EdIdle /\ SsIdle /\ FmIdle /\ CpIdle /\ WgIdle /\ PgIdle /\ SnIdle /\ TpIdle
  \/ tool = "record" /\ NtIdle /\ PdIdle /\ PrIdle /\ PfInit /\ RpIdle /\ EdIdle /\ SsIdle /\ FmIdle /\ CpIdle /\ WgIdle /\ PgIdle /\ SnIdle /\ TpIdle
  \/ tool = "report" /\ NtIdle /\ PdIdle /\ PrIdle /\ PfIdle /\ RpInit /\ EdIdle /\ SsIdle /\ FmIdle /\ CpIdle /\ WgIdle /\ PgIdle /\ SnIdle /\ TpIdle
  \/ tool = "edit" /\ NtIdle /\ PdIdle /\ PrIdle /\ PfIdle /\ RpIdle /\ EdInit /\ SsIdle /\ FmIdle /\ CpIdle /\ WgIdle /\ PgIdle /\ SnIdle /\ TpIdle
  \/ tool = "session" /\ NtIdle /\ PdIdle /\ PrIdle /\ PfIdle /\ RpIdle /\ EdIdle /\ SsInit /\ FmIdle /\ CpIdle /\ WgIdle /\ PgIdle /\ SnIdle /\ TpIdle
  \/ tool = "format" /\ NtIdle /\ PdIdle /\ PrIdle /\ PfIdle /\ RpIdle /\ EdIdle /\ SsIdle /\ FmInit /\ CpIdle /\ WgIdle /\ PgIdle /\ SnIdle /\ TpIdle
  \/ tool = "copy" /\ NtIdle /\ PdIdle /\ PrIdle /\ PfIdle /\ RpIdle /\ EdIdle /\ SsIdle /\ FmIdle /\ CpInit /\ WgIdle /\ PgIdle /\ SnIdle /\ TpIdle
  \/ tool = "wget" /\ NtIdle /\ PdIdle /\ PrIdle /\ PfIdle /\ RpIdle /\ EdIdle /\ SsIdle /\ FmIdle /\ CpIdle /\ WgInit /\ PgIdle /\ SnIdle /\ TpIdle
  \/ tool = "ping" /\ NtIdle /\ PdIdle /\ PrIdle /\ PfIdle /\ RpIdle /\ EdIdle /\ SsIdle /\ FmIdle /\ CpIdle /\ WgIdle /\ PgInit /\ SnIdle /\ TpIdle
  \/ tool = "ntpclient" /\ NtIdle /\ PdIdle /\ PrIdle /\ PfIdle /\ RpIdle /\ EdIdle /\ SsIdle /\ FmIdle /\ CpIdle /\ WgIdle /\ PgIdle /\ SnInit /\ TpIdle
  \/ tool = "top" /\ NtIdle /\ PdIdle /\ PrIdle /\ PfIdle /\ RpIdle /\ EdIdle /\ SsIdle /\ FmIdle /\ CpIdle /\ WgIdle /\ PgIdle /\ SnIdle /\ TpInit

MCNext ==
  \/ tool = "nandtool" /\ NtNext /\ UNCHANGED <<tool, pdVars, prVars, pfVars, rpVars, edVars, ssVars, fmVars, cpVars, wgVars, pgVars, snVars, tpVars>>
  \/ tool = "psd" /\ PsdNext /\ UNCHANGED <<tool, ntVars, prVars, pfVars, rpVars, edVars, ssVars, fmVars, cpVars, wgVars, pgVars, snVars, tpVars>>
  \/ tool = "psd imxrt" /\ PsdRtNext /\ UNCHANGED <<tool, ntVars, pdVars, pfVars, rpVars, edVars, ssVars, fmVars, cpVars, wgVars, pgVars, snVars, tpVars>>
  \/ tool = "record" /\ PfNext /\ UNCHANGED <<tool, ntVars, pdVars, prVars, rpVars, edVars, ssVars, fmVars, cpVars, wgVars, pgVars, snVars, tpVars>>
  \/ tool = "report" /\ RpNext /\ UNCHANGED <<tool, ntVars, pdVars, prVars, pfVars, edVars, ssVars, fmVars, cpVars, wgVars, pgVars, snVars, tpVars>>
  \/ tool = "edit" /\ EdNext /\ UNCHANGED <<tool, ntVars, pdVars, prVars, pfVars, rpVars, ssVars, fmVars, cpVars, wgVars, pgVars, snVars, tpVars>>
  \/ tool = "session" /\ SsNext /\ UNCHANGED <<tool, ntVars, pdVars, prVars, pfVars, rpVars, edVars, fmVars, cpVars, wgVars, pgVars, snVars, tpVars>>
  \/ tool = "format" /\ FmNext /\ UNCHANGED <<tool, ntVars, pdVars, prVars, pfVars, rpVars, edVars, ssVars, cpVars, wgVars, pgVars, snVars, tpVars>>
  \/ tool = "copy" /\ CpNext /\ UNCHANGED <<tool, ntVars, pdVars, prVars, pfVars, rpVars, edVars, ssVars, fmVars, wgVars, pgVars, snVars, tpVars>>
  \/ tool = "ping" /\ PgNext /\ UNCHANGED <<tool, ntVars, pdVars, prVars, pfVars, rpVars, edVars, ssVars, fmVars, cpVars, wgVars, snVars, tpVars>>
  \/ tool = "ntpclient" /\ SnNext /\ UNCHANGED <<tool, ntVars, pdVars, prVars, pfVars, rpVars, edVars, ssVars, fmVars, cpVars, wgVars, pgVars, tpVars>>
  \/ tool = "top" /\ TpNext /\ UNCHANGED <<tool, ntVars, pdVars, prVars, pfVars, rpVars, edVars, ssVars, fmVars, cpVars, wgVars, pgVars, snVars>>
  \/ tool = "wget" /\ WgNext /\ UNCHANGED <<tool, ntVars, pdVars, prVars, pfVars, rpVars, edVars, ssVars, fmVars, cpVars, pgVars, snVars, tpVars>>

MCSpec == MCInit /\ [][MCNext]_<<tool, ntVars, pdVars, prVars, pfVars, rpVars, edVars, ssVars, fmVars, cpVars, wgVars, pgVars, snVars, tpVars>>
=============================================================================
