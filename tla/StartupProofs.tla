--------------------------- MODULE StartupProofs ---------------------------
(***************************************************************************)
(* Start-up, for configuration files of any length, any environment and    *)
(* flags, and any number of signals and restarts.                          *)
(***************************************************************************)
EXTENDS Startup, DataLemmas

-----------------------------------------------------------------------------
(* Configuration.                                                          *)

\* The defaults are named because no prover knows that a literal is a STRING.
Text == STRING \cup {"", "sqlite", "sql-resp.db"}
Config == [port : Int, password : Text, cert : Text, key : Text, databases : Int,
           hz : Int, memory : BOOLEAN, backend : Text, dsn : Text]

\* i is the last of the first n lines of f that has one of the keys ks; 0: none has.
LastRead(f, n, ks, i) ==
    /\ i \in 0 .. n
    /\ i # 0 => f[i].key \in ks
    /\ \A j \in i + 1 .. n : f[j].key \notin ks

\* x is what the first n lines of f make of the setting of k.
Says(k, v) == IF k \in NumberKeys THEN Atoi[v] ELSE v
FromLines(f, n, k, default, x) ==
    \E i \in 0 .. n :
        LastRead(f, n, {k}, i) /\ x = IF i = 0 THEN default ELSE Says(k, f[i].val)
AsksMemory(d) == d.key = "no-persist" \/ NoSave(d.val)
MemoryKeys == {"save", "no-persist"}
MemoryFromLines(f, n, x) ==
    \E i \in 0 .. n : LastRead(f, n, MemoryKeys, i) /\ (x <=> i # 0 /\ AsksMemory(f[i]))

\* What Load has made of the settings when main is at l.
PortSet     == FromLines(file, line, "port", Default.port, cfg.port)
PasswordSet == FromLines(file, line, "requirepass", Default.password, cfg.password)
DSNSet      == FromLines(file, line, "dsn", Default.dsn, cfg.dsn)
BackendSet  == FromLines(file, line, "backend", Default.backend, cfg.backend)
MemorySet   == MemoryFromLines(file, line, cfg.memory)

EnvApplied ==
    /\ IF env.password # "" THEN cfg.password = env.password ELSE PasswordSet
    /\ IF env.dsn # "" THEN cfg.dsn = env.dsn ELSE DSNSet
FlagsApplied ==
    /\ IF flags.port # "" THEN cfg.port = Atoi[flags.port] ELSE PortSet
    /\ IF flags.noPersist THEN cfg.memory ELSE MemorySet
Loaded == line = Len(file) /\ EnvApplied /\ FlagsApplied /\ BackendSet

InputsOK == /\ file \in Files /\ env \in Envs /\ flags \in [port : PortFlags, noPersist : BOOLEAN]
            /\ line \in 0 .. Len(file) /\ cfg \in Config

ConfigInv ==
    /\ InputsOK
    /\ \A i \in 1 .. line : ~Refused(file[i].key, file[i].val)
    /\ main = "file" => /\ opened = NOTHING
                        /\ PortSet /\ PasswordSet /\ DSNSet /\ BackendSet /\ MemorySet
    /\ main = "flags" => /\ opened = NOTHING /\ line = Len(file)
                         /\ EnvApplied /\ PortSet /\ BackendSet /\ MemorySet
    /\ main \notin {"file", "flags", "exited"} => Loaded
    /\ opened # NOTHING =>
         /\ Loaded
         /\ opened = [driver |-> cfg.backend, dsn |-> IF cfg.memory THEN MEMORY ELSE cfg.dsn]

\* One line more: it is the last with its key, or the last one stays.
LEMMA ReadAnother ==
    ASSUME NEW n \in Nat, NEW f, NEW ks, NEW i, LastRead(f, n, ks, i)
    PROVE  /\ f[n + 1].key \in ks => LastRead(f, n + 1, ks, n + 1)
           /\ f[n + 1].key \notin ks => LastRead(f, n + 1, ks, i)
<1>1. i \in 0 .. n /\ (i # 0 => f[i].key \in ks) /\ \A j \in i + 1 .. n : f[j].key \notin ks
  BY DEF LastRead
<1>2. ASSUME f[n + 1].key \in ks PROVE LastRead(f, n + 1, ks, n + 1)
  BY <1>2 DEF LastRead
<1>3. ASSUME f[n + 1].key \notin ks PROVE LastRead(f, n + 1, ks, i)
  <2>1. ASSUME NEW j \in i + 1 .. n + 1 PROVE f[j].key \notin ks
    <3>1. j \in i + 1 .. n \/ j = n + 1
      BY <1>1
    <3>. QED
      BY <1>1, <1>3, <3>1
  <2>2. i \in 0 .. n + 1
    BY <1>1
  <2>. QED
    BY <1>1, <2>1, <2>2 DEF LastRead
<1>. QED
  BY <1>2, <1>3

LEMMA ReadSetting ==
    ASSUME NEW n \in Nat, NEW f, NEW k, NEW default, NEW x, NEW y,
           FromLines(f, n, k, default, x),
           y = IF f[n + 1].key = k THEN Says(k, f[n + 1].val) ELSE x
    PROVE  FromLines(f, n + 1, k, default, y)
<1>1. PICK i \in 0 .. n :
        LastRead(f, n, {k}, i) /\ x = IF i = 0 THEN default ELSE Says(k, f[i].val)
  BY DEF FromLines
<1>2. CASE f[n + 1].key = k
  <2>1. LastRead(f, n + 1, {k}, n + 1)
    BY <1>1, <1>2, ReadAnother
  <2>2. n + 1 \in 0 .. n + 1 /\ n + 1 # 0
    OBVIOUS
  <2>. QED
    BY <1>2, <2>1, <2>2 DEF FromLines
<1>3. CASE f[n + 1].key # k
  <2>1. LastRead(f, n + 1, {k}, i)
    BY <1>1, <1>3, ReadAnother
  <2>2. i \in 0 .. n + 1
    BY <1>1
  <2>. QED
    BY <1>1, <1>3, <2>1, <2>2 DEF FromLines
<1>. QED
  BY <1>2, <1>3

LEMMA ReadMemory ==
    ASSUME NEW n \in Nat, NEW f, NEW x, NEW y,
           MemoryFromLines(f, n, x),
           y <=> IF f[n + 1].key \in MemoryKeys THEN AsksMemory(f[n + 1]) ELSE x
    PROVE  MemoryFromLines(f, n + 1, y)
<1>1. PICK i \in 0 .. n :
        LastRead(f, n, MemoryKeys, i) /\ (x <=> i # 0 /\ AsksMemory(f[i]))
  BY DEF MemoryFromLines
<1>2. CASE f[n + 1].key \in MemoryKeys
  <2>1. LastRead(f, n + 1, MemoryKeys, n + 1)
    BY <1>1, <1>2, ReadAnother
  <2>2. n + 1 \in 0 .. n + 1 /\ n + 1 # 0
    OBVIOUS
  <2>3. y <=> n + 1 # 0 /\ AsksMemory(f[n + 1])
    BY <1>2, <2>2, Zenon
  <2>. QED
    BY <2>1, <2>2, <2>3, Zenon DEF MemoryFromLines
<1>3. CASE f[n + 1].key \notin MemoryKeys
  <2>1. LastRead(f, n + 1, MemoryKeys, i)
    BY <1>1, <1>3, ReadAnother
  <2>2. i \in 0 .. n + 1
    BY <1>1
  <2>3. y <=> i # 0 /\ AsksMemory(f[i])
    BY <1>1, <1>3, Zenon
  <2>. QED
    BY <2>1, <2>2, <2>3, Zenon DEF MemoryFromLines
<1>. QED
  BY <1>2, <1>3

\* c becomes e: the setting of k, and no other one, is made v.
Sets(c, k, v, e) ==
    /\ e \in Config
    /\ e.port = IF k = "port" THEN Says("port", v) ELSE c.port
    /\ e.password = IF k = "requirepass" THEN Says("requirepass", v) ELSE c.password
    /\ e.dsn = IF k = "dsn" THEN Says("dsn", v) ELSE c.dsn
    /\ e.backend = IF k = "backend" THEN Says("backend", v) ELSE c.backend
    /\ e.memory = IF k \in MemoryKeys THEN k = "no-persist" \/ NoSave(v) ELSE c.memory

LEMMA SetFacts ==
    ASSUME NEW c \in Config, NEW k, NEW v \in Text, ~Refused(k, v)
    PROVE  Sets(c, k, v, set(c, k, v))
<1> USE DEF Sets, set, setField, Config, Says, NumberKeys, MemoryKeys
<1>1. k \in NumberKeys => Atoi[v] \in Int
  BY StartupAssumption DEF Refused
<1>2. CASE k = "save"
  <2>1. CASE v \in {"", "''"}
    <3>1. NoSave(v) = TRUE /\ (k = "no-persist" \/ NoSave(v)) = TRUE
      BY <1>2, <2>1 DEF NoSave
    <3>2. set(c, k, v) = [c EXCEPT !.memory = TRUE]
      BY <1>2, <3>1, Zenon
    <3>. QED
      BY <1>2, <3>1, <3>2
  <2>2. CASE v \notin {"", "''"}
    <3>1. NoSave(v) = FALSE /\ (k = "no-persist" \/ NoSave(v)) = FALSE
      <4>1. ~NoSave(v) /\ k # "no-persist"
        BY <1>2, <2>2 DEF NoSave
      <4>2. NoSave(v) = FALSE
        <5>1. NoSave(v) \in BOOLEAN
          BY DEF NoSave
        <5>. QED
          BY <4>1, <5>1
      <4>. QED
        BY <4>1, <4>2, Zenon
    <3>2. set(c, k, v) = [c EXCEPT !.memory = FALSE]
      BY <1>2, <3>1, Zenon
    <3>. QED
      BY <1>2, <3>1, <3>2
  <2>. QED
    BY <2>1, <2>2
<1>3. CASE k = "no-persist"
  BY <1>3
<1>4. CASE k = "port" 
  BY <1>1, <1>4
<1>5. CASE k = "databases"
  BY <1>1, <1>5
<1>6. CASE k = "hz"
  BY <1>1, <1>6
<1>7. CASE k = "requirepass"
  BY <1>7
<1>8. CASE k = "tls-cert-file"
  BY <1>8
<1>9. CASE k = "tls-key-file"
  BY <1>9
<1>10. CASE k = "backend"
  BY <1>10
<1>11. CASE k = "dsn"
  BY <1>11
<1>12. CASE k \notin {"save", "no-persist", "port", "databases", "hz", "requirepass",
                      "tls-cert-file", "tls-key-file", "backend", "dsn"}
  BY <1>12
<1>. QED
  BY <1>2, <1>3, <1>4, <1>5, <1>6, <1>7, <1>8, <1>9, <1>10, <1>11, <1>12

LEMMA ElementTyped ==
    ASSUME NEW S, NEW s \in Seq(S), NEW i \in 1 .. Len(s)
    PROVE  s[i] \in S
OBVIOUS

LEMMA DefaultConfig == Default \in Config
BY DEF Config, Default, Text

LEMMA NothingRead ==
    /\ \A f, k, default : FromLines(f, 0, k, default, default)
    /\ \A f : MemoryFromLines(f, 0, FALSE)
<1>1. \A f, ks : LastRead(f, 0, ks, 0)
  BY DEF LastRead
<1>2. 0 \in 0 .. 0
  OBVIOUS
<1>. QED
  BY <1>1, <1>2 DEF FromLines, MemoryFromLines

\* A new process: the first one, or the one after a restart.
NewProcess ==
    /\ file \in Files /\ env \in Envs /\ flags \in [port : PortFlags, noPersist : BOOLEAN]
    /\ line = 0 /\ cfg = Default /\ main = "file" /\ opened = NOTHING

LEMMA ConfigFirst == NewProcess => ConfigInv
<1> SUFFICES ASSUME NewProcess PROVE ConfigInv
  OBVIOUS
<1> USE DEF NewProcess
<1>1. cfg \in Config
  BY DefaultConfig
<1>2. Len(file) \in Nat
  BY StartupAssumption
<1>3. PortSet /\ PasswordSet /\ DSNSet /\ BackendSet
  BY NothingRead, Zenon DEF PortSet, PasswordSet, DSNSet, BackendSet
<1>4. MemorySet
  <2>1. cfg.memory = FALSE
    BY DEF Default
  <2>. QED
    BY <2>1, NothingRead, Zenon DEF MemorySet
<1>5. InputsOK /\ \A i \in 1 .. line : ~Refused(file[i].key, file[i].val)
  BY <1>1, <1>2 DEF InputsOK
<1>. QED
  BY <1>3, <1>4, <1>5 DEF ConfigInv

\* loadFile's next line.
LEMMA ConfigLine ==
    ASSUME ConfigInv, LoadLine
    PROVE  ConfigInv'
<1> DEFINE d == file[line + 1]
<1>1. /\ main = "file" /\ line < Len(file) /\ ~Refused(d.key, d.val)
      /\ cfg' = set(cfg, d.key, d.val) /\ line' = line + 1
      /\ UNCHANGED <<file, env, flags, main, opened>>
  BY DEF LoadLine, inputs
<1>2. /\ opened = NOTHING /\ InputsOK
      /\ PortSet /\ PasswordSet /\ DSNSet /\ BackendSet /\ MemorySet
      /\ \A i \in 1 .. line : ~Refused(file[i].key, file[i].val)
  BY <1>1 DEF ConfigInv
<1>3. line \in Nat /\ Len(file) \in Nat /\ line + 1 \in 1 .. Len(file)
      /\ d \in [key : STRING, val : STRING]
  <2>1. file \in Seq([key : STRING, val : STRING]) /\ line \in 0 .. Len(file)
    BY <1>2, StartupAssumption DEF InputsOK
  <2>2. line \in Nat /\ Len(file) \in Nat /\ line + 1 \in 1 .. Len(file)
    BY <1>1, <2>1
  <2>. QED
    BY <2>1, <2>2, ElementTyped
<1>4. d.val \in Text /\ cfg \in Config
  BY <1>2, <1>3 DEF InputsOK, Text
<1> DEFINE c == set(cfg, d.key, d.val)
<1>5. Sets(cfg, d.key, d.val, c)
  BY <1>1, <1>4, SetFacts
<1>6. cfg' = c
  BY <1>1
<1> HIDE DEF c
<1>7. FromLines(file, line + 1, "port", Default.port, c.port)
  BY <1>2, <1>3, <1>5, ReadSetting DEF PortSet, Sets
<1>8. FromLines(file, line + 1, "requirepass", Default.password, c.password)
  BY <1>2, <1>3, <1>5, ReadSetting DEF PasswordSet, Sets
<1>9. FromLines(file, line + 1, "dsn", Default.dsn, c.dsn)
  BY <1>2, <1>3, <1>5, ReadSetting DEF DSNSet, Sets
<1>10. FromLines(file, line + 1, "backend", Default.backend, c.backend)
  BY <1>2, <1>3, <1>5, ReadSetting DEF BackendSet, Sets
<1>11. MemoryFromLines(file, line + 1, c.memory)
  <2>1. c.memory <=> IF d.key \in MemoryKeys THEN AsksMemory(d) ELSE cfg.memory
    BY <1>5, Zenon DEF Sets, AsksMemory
  <2>. QED
    BY <1>2, <1>3, <2>1, ReadMemory DEF MemorySet
<1>12. PortSet' /\ PasswordSet' /\ DSNSet' /\ BackendSet' /\ MemorySet'
  BY <1>1, <1>6, <1>7, <1>8, <1>9, <1>10, <1>11
  DEF PortSet, PasswordSet, DSNSet, BackendSet, MemorySet
<1>13. InputsOK'
  BY <1>1, <1>2, <1>3, <1>5, <1>6 DEF InputsOK, Sets
<1>14. \A i \in 1 .. line + 1 : ~Refused(file[i].key, file[i].val)
  <2>1. \A i \in 1 .. line + 1 : i \in 1 .. line \/ i = line + 1
    BY <1>3
  <2>. QED
    BY <1>1, <1>2, <2>1
<1>. QED
  BY <1>1, <1>2, <1>12, <1>13, <1>14 DEF ConfigInv, Refused

LEMMA ConfigEnv ==
    ASSUME ConfigInv, LoadEnv
    PROVE  ConfigInv'
<1> DEFINE p == IF env.password # "" THEN env.password ELSE cfg.password
           d == IF env.dsn # "" THEN env.dsn ELSE cfg.dsn
           c == [cfg EXCEPT !.password = p, !.dsn = d]
<1>1. /\ main = "file" /\ main' = "flags" /\ line = Len(file) /\ cfg' = c
      /\ UNCHANGED <<file, env, flags, line, opened>>
  BY DEF LoadEnv, Goes, inputs
<1>2. /\ opened = NOTHING /\ InputsOK
      /\ PortSet /\ PasswordSet /\ DSNSet /\ BackendSet /\ MemorySet
      /\ \A i \in 1 .. line : ~Refused(file[i].key, file[i].val)
  BY <1>1 DEF ConfigInv
<1>3. cfg \in Config /\ p \in Text /\ d \in Text
  BY <1>2, StartupAssumption DEF InputsOK, Config, Text
<1> HIDE DEF p, d
<1>4. c \in Config /\ c.password = p /\ c.dsn = d /\ c.port = cfg.port
      /\ c.backend = cfg.backend /\ c.memory = cfg.memory
  BY <1>3 DEF Config
<1> HIDE DEF c
<1>5. PortSet' /\ BackendSet' /\ MemorySet'
  BY <1>1, <1>2, <1>4 DEF PortSet, BackendSet, MemorySet
<1>6. EnvApplied'
  <2>1. IF env.password # "" THEN p = env.password
        ELSE FromLines(file, line, "requirepass", Default.password, p)
    BY <1>2 DEF p, PasswordSet
  <2>2. IF env.dsn # "" THEN d = env.dsn ELSE FromLines(file, line, "dsn", Default.dsn, d)
    BY <1>2 DEF d, DSNSet
  <2>. QED
    BY <1>1, <1>4, <2>1, <2>2 DEF EnvApplied, PasswordSet, DSNSet
<1>7. InputsOK'
  BY <1>1, <1>2, <1>4 DEF InputsOK
<1>. QED
  BY <1>1, <1>2, <1>5, <1>6, <1>7 DEF ConfigInv, Refused

\* The settings Load returns after the flags: c has memory and port from them.
LEMMA ConfigFlags ==
    ASSUME ConfigInv, LoadFlags
    PROVE  ConfigInv'
<1> DEFINE c == IF flags.noPersist THEN set(cfg, "no-persist", "") ELSE cfg
           e == IF flags.port = "" THEN c ELSE set(c, "port", flags.port)
<1>1. main = "flags" /\ UNCHANGED <<file, env, flags, line, opened>>
  BY DEF LoadFlags, Goes, Exit, inputs
<1>2. /\ opened = NOTHING /\ InputsOK /\ line = Len(file)
      /\ EnvApplied /\ PortSet /\ BackendSet /\ MemorySet
      /\ \A i \in 1 .. line : ~Refused(file[i].key, file[i].val)
  BY <1>1 DEF ConfigInv
<1>3. \/ main' = "exited" /\ UNCHANGED cfg
      \/ /\ main' = "open" /\ cfg' = e
         /\ flags.port # "" => ~Refused("port", flags.port)
  BY Zenon DEF LoadFlags, Goes, Exit
<1>4. CASE main' = "exited" /\ UNCHANGED cfg
  <2>1. InputsOK'
    BY <1>1, <1>2, <1>4 DEF InputsOK
  <2>. QED
    BY <1>1, <1>2, <1>4, <2>1 DEF ConfigInv, Refused
<1>5. CASE main' = "open" /\ cfg' = e /\ (flags.port # "" => ~Refused("port", flags.port))
  <2>1. cfg \in Config /\ flags.port \in Text /\ flags.noPersist \in BOOLEAN /\ "" \in Text
    BY <1>2, StartupAssumption DEF InputsOK, Text
  <2>2. /\ c \in Config /\ c.port = cfg.port /\ c.password = cfg.password
        /\ c.dsn = cfg.dsn /\ c.backend = cfg.backend
        /\ IF flags.noPersist THEN c.memory ELSE c.memory = cfg.memory
    <3>1. CASE flags.noPersist
      <4>1. ~Refused("no-persist", "")
        BY DEF Refused, NumberKeys
      <4>2. c = set(cfg, "no-persist", "")
        BY <3>1
      <4> HIDE DEF c
      <4>3. Sets(cfg, "no-persist", "", c)
        BY <2>1, <4>1, <4>2, SetFacts
      <4>. QED
        BY <3>1, <4>3 DEF Sets, MemoryKeys
    <3>2. CASE ~flags.noPersist
      BY <2>1, <3>2
    <3>. QED
      BY <3>1, <3>2
  <2> HIDE DEF c
  <2>3. /\ e \in Config /\ e.password = c.password /\ e.dsn = c.dsn
        /\ e.backend = c.backend /\ e.memory = c.memory
        /\ e.port = IF flags.port # "" THEN Atoi[flags.port] ELSE c.port
    <3>1. CASE flags.port = ""
      BY <2>2, <3>1
    <3>2. CASE flags.port # ""
      <4>1. e = set(c, "port", flags.port) /\ ~Refused("port", flags.port)
        BY <1>5, <3>2
      <4> HIDE DEF e
      <4>2. Sets(c, "port", flags.port, e)
        BY <2>1, <2>2, <4>1, SetFacts
      <4>. QED
        BY <3>2, <4>2 DEF Sets, MemoryKeys, Says, NumberKeys
    <3>. QED
      BY <3>1, <3>2
  <2> HIDE DEF e
  <2>4. /\ cfg'.password = cfg.password /\ cfg'.dsn = cfg.dsn /\ cfg'.backend = cfg.backend
        /\ cfg'.port = IF flags.port # "" THEN Atoi[flags.port] ELSE cfg.port
        /\ IF flags.noPersist THEN cfg'.memory ELSE cfg'.memory = cfg.memory
        /\ cfg' \in Config
    BY <1>5, <2>2, <2>3
  <2>5. EnvApplied' /\ BackendSet'
    BY <1>1, <1>2, <2>4 DEF EnvApplied, BackendSet, PasswordSet, DSNSet
  <2>6. FlagsApplied'
    BY <1>1, <1>2, <2>4 DEF FlagsApplied, PortSet, MemorySet
  <2>7. InputsOK'
    BY <1>1, <1>2, <2>4 DEF InputsOK
  <2>. QED
    BY <1>1, <1>2, <1>5, <2>5, <2>6, <2>7 DEF ConfigInv, Loaded, Refused
<1>. QED
  BY <1>3, <1>4, <1>5

LEMMA ConfigNext ==
    ASSUME ConfigInv, [Next]_vars
    PROVE  ConfigInv'
<1> DEFINE settings == <<file, env, flags, line, cfg>>
<1>1. ASSUME UNCHANGED settings
      PROVE  /\ Loaded' <=> Loaded
             /\ InputsOK' <=> InputsOK
             /\ PortSet' <=> PortSet
             /\ PasswordSet' <=> PasswordSet
             /\ DSNSet' <=> DSNSet
             /\ BackendSet' <=> BackendSet
             /\ MemorySet' <=> MemorySet
             /\ EnvApplied' <=> EnvApplied
  BY <1>1 DEF Loaded, InputsOK, PortSet, PasswordSet, DSNSet, BackendSet, MemorySet,
              EnvApplied, FlagsApplied
<1>2. ASSUME UNCHANGED settings, UNCHANGED opened,
             \/ main' = main \/ main' = "exited"
             \/ main' \notin {"file", "flags"} /\ main \notin {"file", "flags", "exited"}
      PROVE  ConfigInv'
  BY <1>1, <1>2 DEF ConfigInv, Refused
<1>3. CASE UNCHANGED vars
  BY <1>2, <1>3 DEF vars, inputs
<1>4. CASE LoadFails
  BY <1>2, <1>4 DEF LoadFails, Exit, inputs
<1>5. CASE LoadLine \/ LoadEnv \/ LoadFlags
  BY <1>5, ConfigLine, ConfigEnv, ConfigFlags
<1>6. CASE Open
  <2>1. /\ UNCHANGED settings /\ main = "open" /\ main' \in {"exited", "migrate"}
        /\ opened' = [driver |-> cfg.backend, dsn |-> IF cfg.memory THEN MEMORY ELSE cfg.dsn]
    BY <1>6 DEF Open, inputs
  <2>2. Loaded
    BY <2>1 DEF ConfigInv
  <2>. QED
    BY <1>1, <2>1, <2>2 DEF ConfigInv, Refused
<1>7. CASE Migrate
  BY <1>2, <1>7 DEF Migrate, Goes, Exit, inputs
<1>8. CASE StartSweep \/ StartWatcher \/ Serve \/ AcceptFails \/ AcceptError
  BY <1>2, <1>8 DEF StartSweep, StartWatcher, Serve, AcceptFails, AcceptError, Exit, inputs
<1>9. CASE WatcherStep \/ NewTicker \/ Signal
  BY <1>2, <1>9 DEF WatcherStep, Notify, Receive, Close, NewTicker, Signal, inputs
<1>10. CASE Restart
  <2>1. file \in Files /\ env \in Envs /\ flags \in [port : PortFlags, noPersist : BOOLEAN]
    BY DEF ConfigInv, InputsOK
  <2>2. NewProcess'
    BY <1>10, <2>1 DEF Restart, inputs, NewProcess
  <2>. QED
    BY <2>2, ConfigFirst, PTL
<1>. QED
  BY <1>3, <1>4, <1>5, <1>6, <1>7, <1>8, <1>9, <1>10 DEF Next, MainStep

\* Once every line is read, the last one read is the last one of the file.
LEMMA LastLineIs ==
    ASSUME InputsOK, line = Len(file), NEW ks, NEW i, LastRead(file, line, ks, i)
    PROVE  LastLine(ks) = i
<1> DEFINE at == {n \in DOMAIN file : file[n].key \in ks}
<1>1. DOMAIN file = 1 .. line /\ line \in Nat
  BY StartupAssumption DEF InputsOK
<1>2. /\ i \in 0 .. line /\ (i # 0 => file[i].key \in ks)
      /\ \A j \in i + 1 .. line : file[j].key \notin ks
  BY DEF LastRead
<1>3. ASSUME NEW j \in at PROVE j \in 1 .. line /\ j <= i
  <2>1. j \in 1 .. line /\ file[j].key \in ks
    BY <1>1
  <2>2. j \notin i + 1 .. line
    BY <1>2, <2>1
  <2>. QED
    BY <1>1, <1>2, <2>1, <2>2
<1>4. CASE i = 0
  <2>1. at = {}
    BY <1>3, <1>4
  <2>. QED
    BY <1>4, <2>1 DEF LastLine
<1>5. CASE i # 0
  <2>1. i \in at
    BY <1>1, <1>2, <1>5
  <2> HIDE DEF at
  <2>2. \A m \in at : (\A j \in at : j <= m) => m = i
    <3>1. ASSUME NEW m \in at, \A j \in at : j <= m PROVE m = i
      <4>1. i <= m /\ m <= i /\ m \in Int /\ i \in Int
        BY <1>3, <2>1, <3>1, <1>2
      <4>. QED
        BY <4>1
    <3>. QED
      BY <3>1
  <2>3. i = CHOOSE m \in at : \A j \in at : j <= m
    BY <1>3, <2>1, <2>2
  <2>. QED
    BY <2>1, <2>3 DEF LastLine, at
<1>. QED
  BY <1>4, <1>5

LEMMA FromLinesIsFromFile ==
    ASSUME InputsOK, line = Len(file), NEW k, NEW default, NEW x,
           FromLines(file, line, k, default, x)
    PROVE  x = FromFile(k, default)
<1>1. PICK i \in 0 .. line :
        LastRead(file, line, {k}, i) /\ x = IF i = 0 THEN default ELSE Says(k, file[i].val)
  BY DEF FromLines
<1>2. LastLine({k}) = i
  BY <1>1, LastLineIs
<1>. QED
  BY <1>1, <1>2, Zenon DEF FromFile, ValueAt, Says

\* Whatever is opened is opened with what the file's last lines, the environment
\* and the flags say, in that order of rank, for configuration files of any length
\* and every process of any number (config.go Load, loadFile, set).
THEOREM LayersAddUp == Spec => []SettingsAddUp
<1>1. Init => ConfigInv
  BY ConfigFirst DEF Init, NewProcess
<1>2. ConfigInv /\ [Next]_vars => ConfigInv'
  BY ConfigNext
<1>3. ConfigInv => SettingsAddUp
  <2> SUFFICES ASSUME ConfigInv, opened # NOTHING PROVE SettingsAddUp
    BY DEF SettingsAddUp
  <2>1. /\ Loaded /\ InputsOK
        /\ opened = [driver |-> cfg.backend, dsn |-> IF cfg.memory THEN MEMORY ELSE cfg.dsn]
        /\ \A i \in 1 .. line : ~Refused(file[i].key, file[i].val)
    BY DEF ConfigInv
  <2>2. line = Len(file) /\ DOMAIN file = 1 .. line
    BY <2>1, StartupAssumption DEF Loaded, InputsOK
  <2>3. \A i \in DOMAIN file : ~Refused(file[i].key, file[i].val)
    BY <2>1, <2>2
  <2>4. cfg.port = IF flags.port # "" THEN Atoi[flags.port] ELSE FromFile("port", Default.port)
    BY <2>1, <2>2, FromLinesIsFromFile DEF Loaded, FlagsApplied, PortSet
  <2>5. cfg.password = IF env.password # "" THEN env.password
                       ELSE FromFile("requirepass", Default.password)
    BY <2>1, <2>2, FromLinesIsFromFile DEF Loaded, EnvApplied, PasswordSet
  <2>6. cfg.dsn = IF env.dsn # "" THEN env.dsn ELSE FromFile("dsn", Default.dsn)
    BY <2>1, <2>2, FromLinesIsFromFile DEF Loaded, EnvApplied, DSNSet
  <2>7. opened.driver = FromFile("backend", Default.backend)
    BY <2>1, <2>2, FromLinesIsFromFile DEF Loaded, BackendSet
  <2> DEFINE i == LastLine(MemoryKeys)
             asks == i # 0 /\ (file[i].key = "no-persist" \/ NoSave(file[i].val))
  <2>8. IF flags.noPersist THEN cfg.memory ELSE cfg.memory <=> asks
    <3>1. MemorySet => (cfg.memory <=> asks)
      <4> SUFFICES ASSUME MemorySet PROVE cfg.memory <=> asks
        OBVIOUS
      <4>1. PICK n \in 0 .. line : /\ LastRead(file, line, MemoryKeys, n)
                                   /\ cfg.memory <=> n # 0 /\ AsksMemory(file[n])
        BY DEF MemorySet, MemoryFromLines
      <4>2. LastLine(MemoryKeys) = n
        <5>1. LastRead(file, line, MemoryKeys, n)
          BY <4>1, Zenon
        <5>. QED
          BY <2>1, <2>2, <5>1, LastLineIs, Zenon
      <4>3. asks <=> n # 0 /\ AsksMemory(file[n])
        BY <4>2 DEF AsksMemory
      <4> HIDE DEF asks
      <4>. QED
        BY <4>1, <4>3, Zenon
    <3>. QED
      BY <2>1, <3>1, Zenon DEF Loaded, FlagsApplied
  <2>9. opened.dsn = MEMORY <=> flags.noPersist \/ cfg.dsn = MEMORY \/ asks
    <3>1. opened.dsn = IF cfg.memory THEN MEMORY ELSE cfg.dsn
      BY <2>1
    <3>2. flags.noPersist \in BOOLEAN /\ cfg.memory \in BOOLEAN
      BY <2>1 DEF InputsOK, Config
    <3>3. CASE flags.noPersist
      <4>1. cfg.memory
        BY <2>8, <3>3, Zenon
      <4>2. opened.dsn = MEMORY
        BY <3>1, <4>1, Zenon
      <4>. QED
        BY <3>3, <4>2, Zenon
    <3>4. CASE ~flags.noPersist
      <4>1. cfg.memory <=> asks
        BY <2>8, <3>4, Zenon
      <4> HIDE DEF asks
      <4>. QED
        BY <3>1, <3>2, <3>4, <4>1, Zenon
    <3>. QED
      BY <3>2, <3>3, <3>4, Zenon
  <2>. QED
    BY <2>3, <2>4, <2>5, <2>6, <2>7, <2>9, Zenon DEF SettingsAddUp, MemoryKeys
<1>. QED
  BY <1>1, <1>2, <1>3, PTL DEF Spec

-----------------------------------------------------------------------------
(* Migration.                                                              *)

Statements == splitStatements(Schema)

\* The statements still to run are the last ones of the schema, and the objects
\* of the others are there.
MigrationInv ==
    /\ objects \subseteq AllObjects
    /\ main = "migrate" =>
         /\ stmts \in Seq(AllObjects)
         /\ \E n \in 0 .. Len(Statements) :
              /\ Len(stmts) = Len(Statements) - n
              /\ \A i \in 1 .. Len(stmts) : stmts[i] = Statements[n + i]
              /\ \A i \in 1 .. n : Statements[i] \in objects
    /\ main \in {"sweep", "signal", "listen", "serve"} => objects = AllObjects

LEMMA StatementFacts ==
    /\ Statements \in Seq(AllObjects)
    /\ \A o \in AllObjects : \E i \in 1 .. Len(Statements) : Statements[i] = o
    /\ \A i \in 1 .. Len(Statements) : \A o \in References(Statements[i]) :
         \E j \in 1 .. i - 1 : Statements[j] = o
BY SchemaAssumption DEF Statements

\* Statements there are still to run succeed, and bring the rest nearer.
LEMMA NextStatement ==
    ASSUME MigrationInv, main = "migrate", stmts # <<>>
    PROVE  /\ Executes(Head(stmts))
           /\ RunStatement /\ main' = "migrate" => MigrationInv'
<1>1. PICK n \in 0 .. Len(Statements) :
        /\ Len(stmts) = Len(Statements) - n
        /\ \A i \in 1 .. Len(stmts) : stmts[i] = Statements[n + i]
        /\ \A i \in 1 .. n : Statements[i] \in objects
  BY DEF MigrationInv
<1>2. stmts \in Seq(AllObjects) /\ Len(stmts) > 0 /\ Head(stmts) = stmts[1] /\ Len(stmts) \in Nat
  BY DEF MigrationInv
<1>3. n + 1 \in 1 .. Len(Statements) /\ Head(stmts) = Statements[n + 1] /\ n \in Nat
      /\ Len(Statements) \in Nat
  <2>1. Len(Statements) \in Nat
    BY StatementFacts
  <2>2. n \in Nat /\ n + 1 \in 1 .. Len(Statements) /\ 1 \in 1 .. Len(stmts)
    BY <1>1, <1>2, <2>1
  <2>3. stmts[1] = Statements[n + 1]
    BY <1>1, <2>2
  <2>. QED
    BY <1>2, <2>1, <2>2, <2>3
<1>4. Head(stmts) \in AllObjects
  BY <1>2
<1>5. References(Head(stmts)) \subseteq objects
  <2>1. \A o \in References(Statements[n + 1]) : \E j \in 1 .. n : Statements[j] = o
    <3>1. (n + 1) - 1 = n
      BY <1>3
    <3>2. \A o \in References(Statements[n + 1]) :
            \E j \in 1 .. (n + 1) - 1 : Statements[j] = o
      BY <1>3, StatementFacts, Zenon
    <3>. QED
      BY <3>1, <3>2
  <2>. QED
    BY <1>1, <1>3, <2>1
<1>6. Executes(Head(stmts))
  BY <1>4, <1>5 DEF Executes, BLANK, AllObjects
<1>7. ASSUME RunStatement, main' = "migrate" PROVE MigrationInv'
  <2>1. objects' = objects \cup {Head(stmts)} /\ stmts' = Tail(stmts)
    BY <1>7 DEF RunStatement
  <2>2. /\ Tail(stmts) \in Seq(AllObjects) /\ Len(Tail(stmts)) = Len(stmts) - 1
        /\ \A i \in 1 .. Len(stmts) - 1 : Tail(stmts)[i] = stmts[i + 1]
    BY <1>2
  <2>3. n + 1 \in 0 .. Len(Statements) /\ Len(stmts') = Len(Statements) - (n + 1)
    BY <1>1, <1>3, <2>1, <2>2
  <2>4. ASSUME NEW i \in 1 .. Len(stmts') PROVE stmts'[i] = Statements[(n + 1) + i]
    <3>1. i + 1 \in 1 .. Len(stmts) /\ i \in 1 .. Len(stmts) - 1 /\ n + (i + 1) = (n + 1) + i
      BY <1>2, <1>3, <2>1, <2>2, <2>4
    <3>. QED
      BY <1>1, <2>1, <2>2, <3>1
  <2>5. \A i \in 1 .. n + 1 : Statements[i] \in objects'
    BY <1>1, <1>3, <2>1
  <2>6. objects' \subseteq AllObjects
    BY <1>4, <2>1 DEF MigrationInv
  <2>. QED
    BY <1>7, <2>1, <2>2, <2>3, <2>4, <2>5, <2>6 DEF MigrationInv
<1>. QED
  BY <1>6, <1>7

\* The schema has run.
LEMMA LastStatement ==
    ASSUME MigrationInv, main = "migrate", stmts = <<>>
    PROVE  objects = AllObjects
<1>1. PICK n \in 0 .. Len(Statements) :
        /\ Len(stmts) = Len(Statements) - n
        /\ \A i \in 1 .. n : Statements[i] \in objects
  BY DEF MigrationInv
<1>2. n = Len(Statements)
  BY <1>1, StatementFacts
<1>3. AllObjects \subseteq objects
  BY <1>1, <1>2, StatementFacts
<1>. QED
  BY <1>3 DEF MigrationInv

LEMMA MigrationNext ==
    ASSUME MigrationInv, [Next]_vars
    PROVE  MigrationInv'
<1> USE DEF database
<1>1. ASSUME UNCHANGED database,
             main' = main \/ main' \in {"exited", "file", "flags", "open"}
             \/ (main' \in {"signal", "listen", "serve"} /\ main \in {"sweep", "signal", "listen"})
      PROVE  MigrationInv'
  BY <1>1 DEF MigrationInv
<1>2. CASE UNCHANGED vars
  BY <1>1, <1>2 DEF vars
<1>3. CASE LoadFails \/ LoadLine \/ LoadEnv \/ LoadFlags
  BY <1>1, <1>3 DEF LoadFails, LoadLine, LoadEnv, LoadFlags, Exit, Goes
<1>4. CASE Open
  <2>1. CASE main' = "exited" /\ UNCHANGED database
    BY <1>1, <2>1
  <2>2. CASE main' = "migrate" /\ StartSchema
    <3>1. stmts' = Statements /\ objects' = objects
      BY <2>2 DEF StartSchema, Statements
    <3>2. /\ 0 \in 0 .. Len(Statements) /\ Len(Statements) - 0 = Len(Statements)
          /\ \A i \in 1 .. Len(Statements) : Statements[i] = Statements[0 + i]
          /\ \A i \in 1 .. 0 : Statements[i] \in objects
      BY StatementFacts
    <3>3. \E n \in 0 .. Len(Statements) :
            /\ Len(stmts') = Len(Statements) - n
            /\ \A i \in 1 .. Len(stmts') : stmts'[i] = Statements[n + i]
            /\ \A i \in 1 .. n : Statements[i] \in objects'
      <4>1. /\ Len(stmts') = Len(Statements) - 0
            /\ \A i \in 1 .. Len(stmts') : stmts'[i] = Statements[0 + i]
        BY <3>1, <3>2, Zenon
      <4>2. \A i \in 1 .. 0 : Statements[i] \in objects'
        OBVIOUS
      <4>. WITNESS 0 \in 0 .. Len(Statements)
      <4>. QED
        BY <4>1, <4>2, Zenon
    <3>4. Statements' = Statements /\ stmts' \in Seq(AllObjects)
      BY <3>1, StatementFacts DEF Statements
    <3>. QED
      BY <2>2, <3>1, <3>3, <3>4 DEF MigrationInv
  <2>. QED
    BY <1>4, <2>1, <2>2 DEF Open
<1>5. CASE Migrate
  <2>1. CASE RunStatement /\ Goes("migrate")
    BY <1>5, <2>1, NextStatement DEF Migrate, RunStatement, Goes
  <2>2. CASE Exit /\ UNCHANGED database
    BY <1>1, <2>2 DEF Exit
  <2>3. CASE stmts = <<>> /\ Goes("sweep") /\ UNCHANGED database
    <3>1. objects = AllObjects
      BY <1>5, <2>3, LastStatement DEF Migrate
    <3>. QED
      BY <2>3, <3>1 DEF Goes, MigrationInv
  <2>. QED
    BY <1>5, <2>1, <2>2, <2>3 DEF Migrate
<1>6. CASE StartSweep \/ StartWatcher \/ Serve \/ AcceptFails \/ AcceptError
  BY <1>1, <1>6 DEF StartSweep, StartWatcher, Serve, AcceptFails, AcceptError, Exit
<1>7. CASE WatcherStep \/ NewTicker \/ Signal
  BY <1>1, <1>7 DEF WatcherStep, Notify, Receive, Close, NewTicker, Signal
<1>8. CASE Restart
  BY <1>8 DEF Restart, MigrationInv
<1>. QED
  BY <1>2, <1>3, <1>4, <1>5, <1>6, <1>7, <1>8 DEF Next, MainStep

\* However many processes were started and wherever each of them ended, half way
\* through the schema included, the next statement of a migration succeeds and a
\* process that gets to serve has every table (db.go Migrate).
THEOREM MigrationsResume == Spec => []MigrationResumes
<1>1. Init => MigrationInv
  BY DEF Init, MigrationInv
<1>2. MigrationInv /\ [Next]_vars => MigrationInv'
  BY MigrationNext
<1>3. MigrationInv => MigrationResumes
  BY NextStatement DEF MigrationInv, MigrationResumes
<1>. QED
  BY <1>1, <1>2, <1>3, PTL DEF Spec
=============================================================================
