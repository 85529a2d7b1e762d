-------------------------- MODULE VaultStoreProofs --------------------------
(***************************************************************************)
(* Proofs about the wallet file and the threads that write it, for any     *)
(* number of passwords, payload versions, keyslots and faults, while one   *)
(* unlock thread at a time is at work.                                     *)
(*                                                                         *)
(* IInv relates the session to every directory a power loss may leave:     *)
(* each is sound (one main file, a keyslot one password, a counter one     *)
(* container), made by the program, and, when a save is acknowledged, its  *)
(* main file's keyslot has a newest container at least as new (Disk).  A   *)
(* session with a usable writer owns its directory (Ours), its save thread *)
(* writes ahead of everything of the keyslot (Saving), and an unlock       *)
(* thread holds the newest container of the main file's (Finding).         *)
(*                                                                         *)
(* Preserved, on top of it, is about histories found damaged: the copy     *)
(* that is put aside, and why a new container is never mistaken for one.   *)
(***************************************************************************)
EXTENDS VaultStore, FiniteSetTheorems, TLAPS

\* The controller's record, the save thread's and an unlock thread's.
Controller ==
    [phase : {"locked", "unlocked"}, vault : Slot, prev : Slot,
     health : {"Ready", "WritePending", "QuarantineRequired", "Failed"},
     dirty : BOOLEAN, mem : 0..MaxVer, quar : SUBSET File,
     task : {"idle", "running", "ok", "failed"}, wctr : 0..(MaxVer + MaxGen),
     wfile : SUBSET File, healthy : BOOLEAN,
     blocked : {"no", "barrier", "lock", "delete", "rekey", "destroy"},
     flushing : BOOLEAN,
     claim : {"none", "changed", "residue", "notChanged", "deleted"}]
SaveWork ==
    [stage : {"idle", "prepare", "start", "written", "renamed"}, file : File \cup {NoFile}]
UnlockWork ==
    [stage : {"idle", "read", "refused", "start", "written", "renamed", "own", "opened"},
     pw : Passwords \cup {"-"}, act : {"unlock", "delete"},
     file : File \cup {NoFile}, keep : BOOLEAN]

Types ==
    /\ dir \in Dir /\ views \subseteq Dir /\ dir \in views
    /\ app \in Controller /\ save \in SaveWork
    /\ unl \in [Unlockers -> UnlockWork]
    /\ await \in Unlockers \cup {"none", "rekey"}
    /\ acked \in 0..MaxVer /\ lastVer \in 0..MaxVer /\ lastGen \in 0..MaxGen
    /\ damaged \subseteq File /\ retired \subseteq 1..lastGen

\* A directory has one main file, a keyslot one password, and a counter of a
\* keyslot one container.
Sound(v) ==
    /\ \A f, g \in v.main : f = g
    /\ \A f, g \in Containers(v) : f.gen = g.gen =>
          f.pw = g.pw /\ (f.ctr = g.ctr => f = g)

\* What is on disk was made by the program, under no retired keyslot.
Made(v, ver, gen, gone) ==
    \A f \in Containers(v) : f.gen \in (1..gen) \ gone /\ f.ver <= ver /\ f.ctr <= ver + gen

\* w is the newest container of its keyslot.
Top(v, w) ==
    /\ w \in Containers(v)
    /\ \A g \in Containers(v) : g.gen = w.gen => g.ctr <= w.ctr

\* The main file's keyslot holds a newest container at least as new as n.
Safe(v, n) ==
    \E m, w \in Containers(v) : v.main = {m} /\ w.gen = m.gen /\ w.ver >= n /\ Top(v, w)

\* A directory that may be left behind when n is acknowledged.
View(v, ver, gen, gone, n) ==
    Sound(v) /\ Made(v, ver, gen, gone) /\ (n > 0 => Safe(v, n))

Disk == \A v \in views : View(v, lastVer, lastGen, retired, acked)

\* Outside a session nothing writes but an unlock thread, or the deletion.
Outside ==
    /\ app.task = "idle" /\ app.blocked \in {"no", "destroy"} /\ ~app.flushing
    /\ app.blocked = "destroy" => acked = 0 /\ app.claim # "deleted"
    /\ app.claim = "deleted" => dir = EmptyDir

\* A session: the versions it holds, and how far its flush has come.
Inside ==
    /\ app.vault.gen \in 1..lastGen /\ app.vault.pw \in Passwords
    /\ app.mem \in 1..lastVer /\ app.mem >= acked
    /\ app.blocked # "destroy" /\ app.claim # "deleted"
    /\ app.health = "Failed" => app.task = "idle" /\ ~app.healthy
    /\ app.health # "Failed" => app.quar = {}
    /\ app.blocked = "rekey" =>
          app.dirty /\ app.prev.gen \in 1..lastGen /\ app.prev.pw \in Passwords
    /\ app.flushing => app.blocked # "no" /\ app.task # "idle"
    /\ await = "rekey" /\ app.blocked = "no" => app.task = "idle"
    \* a counter is spent per edit or keyslot, never more
    /\ app.wctr <= lastVer + lastGen
    /\ app.task = "running" => app.wctr + 1 <= lastVer + lastGen
    /\ app.dirty /\ ~app.flushing /\ app.health # "Failed" =>
          app.wctr + 1 + (IF app.task = "running" THEN 1 ELSE 0) <= lastVer + lastGen

\* The directory is the writer's own, and no container of its keyslot is
\* ahead of its counter.
Ours ==
    /\ app.vault.gen \notin retired
    /\ save.stage \in {"idle", "prepare", "start", "written"} => dir.main = app.wfile
    /\ save.stage \in {"idle", "prepare", "start"} /\ app.wfile = {} => dir = EmptyDir
    /\ save.stage = "renamed" => dir.main = {save.file}
    /\ \A f \in Containers(dir) : f.gen = app.vault.gen =>
          /\ f.pw = app.vault.pw
          /\ \/ f.ctr <= app.wctr
             \/ save.stage \in {"written", "renamed"} /\ f = save.file

\* The container being written, or just written.
Saving ==
    /\ (app.task = "running") = (save.stage # "idle")
    /\ app.task \in {"running", "ok"} =>
          /\ save.file \in File
          /\ save.file.gen = app.vault.gen /\ save.file.pw = app.vault.pw
          /\ save.file.ver \in acked..app.mem
    /\ app.task = "running" => save.file.ctr = app.wctr + 1
    /\ save.stage \in {"start", "written", "renamed"} => app.healthy
    \* the directory as it was before the temporary may still come back
    /\ save.stage = "written" => [dir EXCEPT !.temps = @ \ {save.file}] \in views
    /\ app.task = "ok" =>
          /\ app.healthy /\ views = {dir} /\ dir.main = {save.file}
          /\ app.wctr = save.file.ctr

\* What an unlock thread has found: the newest container of its keyslot.
Holds(u) ==
    LET f == unl[u].file IN
    /\ f.ver >= acked /\ Top(dir, f)
    /\ \A m \in dir.main : m # Torn /\ m.gen = f.gen
    /\ unl[u].stage \in {"start", "written"} /\ ~unl[u].keep => f \in dir.orphans
    /\ unl[u].stage \in {"renamed", "own", "opened"} => dir.main = {f}

Finding ==
    \A u \in Unlockers : unl[u].stage # "idle" =>
        /\ app.phase = "locked" /\ app.blocked = "no" /\ dir # EmptyDir
        /\ unl[u].stage \in {"start", "written", "renamed", "own", "opened"} => Holds(u)

IInv ==
    /\ Types
    /\ Disk
    /\ app.phase = "locked" => Outside
    /\ app.phase = "unlocked" => Inside
    /\ app.phase = "unlocked" /\ app.healthy => Ours
    /\ Saving
    /\ Finding

-----------------------------------------------------------------------------
(* Directories.                                                            *)

LEMMA FileFacts ==
    /\ Torn \notin File /\ NoFile = Torn
    /\ EmptyDir \in Dir /\ Containers(EmptyDir) = {}
    /\ \A f \in File : /\ f.gen \in Nat /\ f.ctr \in Nat /\ f.ver \in Nat /\ f.ver >= 1
                       /\ f.gen \in 1..MaxGen /\ f.ver \in 1..MaxVer /\ f.pw \in Passwords
                       /\ f.ctr \in 1..(MaxVer + MaxGen)
  BY BoundsAssumption DEF File, Torn, NoFile, EmptyDir, Dir, Artifacts, Containers

LEMMA ContainersAreFiles ==
    ASSUME NEW d \in Dir
    PROVE  /\ Containers(d) \subseteq File
           /\ \A f \in d.main : f = Torn \/ f \in Containers(d)
           /\ d.main \in Artifacts /\ d.temps \in Artifacts /\ d.orphans \in Artifacts
  BY FileFacts DEF Containers, Dir, Artifacts

(* Another temporary, or an orphan.                                        *)
LEMMA TempAdded ==
    ASSUME NEW d \in Dir, NEW f \in File
    PROVE  LET e == [d EXCEPT !.temps = @ \cup {f}]
           IN  /\ e \in Dir /\ e.main = d.main /\ e.orphans = d.orphans
               /\ Containers(e) = Containers(d) \cup {f}
  <1> DEFINE e == [d EXCEPT !.temps = @ \cup {f}]
  <1>1. e \in Dir /\ e.main = d.main /\ e.orphans = d.orphans /\ e.temps = d.temps \cup {f}
    BY DEF Dir, Artifacts
  <1> QED
    BY <1>1, FileFacts DEF Containers

LEMMA OrphanAdded ==
    ASSUME NEW d \in Dir, NEW f \in File, d.main = {f}
    PROVE  LET e == [d EXCEPT !.orphans = @ \cup {f}]
           IN  /\ e \in Dir /\ e.main = d.main /\ Containers(e) = Containers(d)
  <1> DEFINE e == [d EXCEPT !.orphans = @ \cup {f}]
  <1>1. e \in Dir /\ e.main = d.main /\ e.orphans = d.orphans \cup {f} /\ e.temps = d.temps
    BY DEF Dir, Artifacts
  <1> QED
    BY <1>1, FileFacts DEF Containers

(* A rename over the main file.                                            *)
LEMMA MainRenamed ==
    ASSUME NEW d \in Dir, NEW f \in File, NEW keep \in BOOLEAN
    PROVE  LET e == [d EXCEPT !.main = {f}, !.temps = IF keep THEN @ ELSE @ \ {f}]
           IN  /\ e \in Dir /\ e.main = {f} /\ f \in Containers(e)
               /\ Containers(e) \subseteq Containers(d) \cup {f}
  <1> DEFINE t == IF keep THEN d.temps ELSE d.temps \ {f}
             e == [d EXCEPT !.main = {f}, !.temps = t]
  <1>1. t \in Artifacts /\ t \subseteq d.temps
    BY DEF Dir, Artifacts
  <1> HIDE DEF t
  <1>2. e \in Dir /\ e.main = {f} /\ e.orphans = d.orphans /\ e.temps = t
    BY <1>1 DEF Dir, Artifacts
  <1>3. e = [d EXCEPT !.main = {f}, !.temps = IF keep THEN @ ELSE @ \ {f}]
    BY DEF t, Dir
  <1> HIDE DEF e
  <1>4. f \in Containers(e) /\ Containers(e) \subseteq Containers(d) \cup {f}
    BY <1>1, <1>2, FileFacts DEF Containers
  <1> QED
    BY <1>2, <1>3, <1>4

(* A temporary unlinked.                                                   *)
LEMMA TempRemoved ==
    ASSUME NEW d \in Dir, NEW f \in File
    PROVE  LET e == [d EXCEPT !.temps = @ \ {f}]
           IN  /\ e \in Dir /\ e.main = d.main /\ e.orphans = d.orphans
               /\ Containers(e) \subseteq Containers(d)
               /\ Containers(d) \subseteq Containers(e) \cup {f}
               /\ f \in d.main \cup d.orphans => Containers(e) = Containers(d)
  <1> DEFINE e == [d EXCEPT !.temps = @ \ {f}]
  <1>1. e \in Dir /\ e.main = d.main /\ e.orphans = d.orphans /\ e.temps = d.temps \ {f}
    BY DEF Dir, Artifacts
  <1> HIDE DEF e
  <1>2. Containers(e) \subseteq Containers(d) /\ Containers(d) \subseteq Containers(e) \cup {f}
    BY <1>1, FileFacts DEF Containers
  <1>3. f \in d.main \cup d.orphans => Containers(e) = Containers(d)
    BY <1>1, FileFacts DEF Containers
  <1> QED
    BY <1>1, <1>2, <1>3 DEF e

(* Artifacts unlinked, or overwritten.                                     *)
LEMMA Unlinked ==
    ASSUME NEW d \in Dir, NEW S
    PROVE  /\ Without(d, S) \in Dir /\ Without(d, S).main = d.main \ S
           /\ Containers(Without(d, S)) = Containers(d) \ S
  <1> DEFINE e == Without(d, S)
  <1>1. /\ e \in Dir /\ e.main = d.main \ S /\ e.temps = d.temps \ S
        /\ e.orphans = d.orphans \ S
    BY DEF Without, Dir, Artifacts
  <1> QED
    BY <1>1 DEF Containers

LEMMA Overwritten ==
    ASSUME NEW d \in Dir, NEW f
    PROVE  /\ Zeroed(d, f) \in Dir
           /\ Containers(Zeroed(d, f)) \subseteq Containers(d)
           /\ (\A x, y \in d.main : x = y) => \A x, y \in Zeroed(d, f).main : x = y
  <1> DEFINE z(S) == IF f \in S THEN (S \ {f}) \cup {Torn} ELSE S
             e == Zeroed(d, f)
  <1>1. \A S \in Artifacts : z(S) \in Artifacts /\ z(S) \subseteq S \cup {Torn}
    BY DEF Artifacts
  <1>2. \A S : (\A x, y \in S : x = y) => \A x, y \in z(S) : x = y
    OBVIOUS
  <1>3. e = [main |-> z(d.main), temps |-> z(d.temps), orphans |-> z(d.orphans)]
    BY DEF Zeroed
  <1> HIDE DEF z
  <1>4. d.main \in Artifacts /\ d.temps \in Artifacts /\ d.orphans \in Artifacts
    BY ContainersAreFiles
  <1>5. /\ e.main = z(d.main) /\ e.temps = z(d.temps) /\ e.orphans = z(d.orphans)
        /\ e \in Dir
    BY <1>1, <1>3, <1>4 DEF Dir
  <1> HIDE DEF e
  <1>6. Containers(e) \subseteq Containers(d)
    BY <1>1, <1>4, <1>5 DEF Containers
  <1> QED
    BY <1>2, <1>5, <1>6 DEF e

(* A power loss may leave a torn temporary.                                *)
LEMMA TornAdded ==
    ASSUME NEW d \in Dir, NEW e \in WithTorn(d)
    PROVE  e \in Dir /\ e.main = d.main /\ Containers(e) = Containers(d)
  <1> DEFINE t == [d EXCEPT !.temps = @ \cup {Torn}]
  <1>1. /\ t \in Dir /\ t.main = d.main /\ t.orphans = d.orphans
        /\ t.temps = d.temps \cup {Torn}
    BY DEF Dir, Artifacts
  <1>2. Containers(t) = Containers(d)
    BY <1>1 DEF Containers
  <1>3. e \in {d, t}
    BY DEF WithTorn
  <1> QED
    BY <1>1, <1>2, <1>3

(* What removing files, and what adding the newest one leaves true.        *)
LEMMA FewerSound ==
    ASSUME NEW d, NEW e, Sound(d), Containers(e) \subseteq Containers(d),
           \A f, g \in e.main : f = g
    PROVE  Sound(e)
  BY DEF Sound

LEMMA FewerMade ==
    ASSUME NEW d, NEW e, NEW ver, NEW gen, NEW gone, Made(d, ver, gen, gone),
           Containers(e) \subseteq Containers(d)
    PROVE  Made(e, ver, gen, gone)
  BY DEF Made

LEMMA SameSafe ==
    ASSUME NEW d, NEW e, NEW n, Safe(d, n), Containers(e) = Containers(d), e.main = d.main
    PROVE  Safe(e, n)
  BY DEF Safe, Top

LEMMA SameView ==
    ASSUME NEW d, NEW e, NEW ver, NEW gen, NEW gone, NEW n, View(d, ver, gen, gone, n),
           Containers(e) = Containers(d), e.main = d.main
    PROVE  View(e, ver, gen, gone, n)
  BY SameSafe DEF View, Sound, Made

(* Versions and keyslots only grow in number.                              *)
LEMMA GrownView ==
    ASSUME NEW d \in Dir, NEW ver \in Nat, NEW gen \in Nat, NEW gone, NEW n,
           View(d, ver, gen, gone, n),
           NEW more \in Nat, more >= ver, NEW next \in Nat, next >= gen
    PROVE  View(d, more, next, gone, n)
  <1>1. ASSUME NEW f \in Containers(d)
        PROVE  f.gen \in (1..next) \ gone /\ f.ver <= more /\ f.ctr <= more + next
    <2>1. f.gen \in Nat /\ f.ver \in Nat /\ f.ctr \in Nat
      BY ContainersAreFiles, FileFacts
    <2> QED
      BY <1>1, <2>1 DEF View, Made
  <1> QED
    BY <1>1 DEF View, Made

(* A new container ahead of everything of its keyslot.                     *)
LEMMA AddedView ==
    ASSUME NEW d \in Dir, NEW e \in Dir, NEW f \in File,
           NEW ver \in Nat, NEW gen \in Nat, NEW gone, NEW n \in Nat,
           View(d, ver, gen, gone, n),
           e.main = d.main, Containers(e) = Containers(d) \cup {f},
           \A g \in Containers(d) : g.gen = f.gen => g.pw = f.pw /\ g.ctr < f.ctr,
           f.gen \in (1..gen) \ gone, f.ver <= ver, f.ctr <= ver + gen, f.ver >= n
    PROVE  View(e, ver, gen, gone, n)
  <1>1. Containers(d) \subseteq File /\ Containers(e) \subseteq File
    BY ContainersAreFiles
  <1>2. Sound(e)
    <2>1. \A x, y \in e.main : x = y
      BY DEF View, Sound
    <2>2. ASSUME NEW x \in Containers(e), NEW y \in Containers(e), x.gen = y.gen
          PROVE  x.pw = y.pw /\ (x.ctr = y.ctr => x = y)
      <3>1. f.ctr \in Nat /\ x.ctr \in Nat /\ y.ctr \in Nat
        BY <1>1, FileFacts
      <3>2. CASE x \in Containers(d) /\ y \in Containers(d)
        BY <2>2, <3>2 DEF View, Sound
      <3>3. CASE x = f /\ y = f
        BY <3>3
      <3>4. CASE x = f /\ y \in Containers(d)
        BY <2>2, <3>1, <3>4
      <3>5. CASE y = f /\ x \in Containers(d)
        BY <2>2, <3>1, <3>5
      <3> QED
        BY <3>2, <3>3, <3>4, <3>5
    <2> QED
      BY <2>1, <2>2 DEF Sound
  <1>3. Made(e, ver, gen, gone)
    BY DEF View, Made
  <1>4. ASSUME n > 0 PROVE Safe(e, n)
    <2>1. PICK m \in Containers(d), w \in Containers(d) :
            d.main = {m} /\ w.gen = m.gen /\ w.ver >= n /\ Top(d, w)
      BY <1>4 DEF View, Safe
    <2>2. CASE f.gen = m.gen
      <3>1. Top(e, f)
        <4>1. \A g \in Containers(d) : g.ctr \in Nat /\ f.ctr \in Nat
          BY <1>1, FileFacts
        <4> QED
          BY <4>1 DEF Top
      <3> QED
        BY <2>1, <2>2, <3>1 DEF Safe
    <2>3. CASE f.gen # m.gen
      <3>1. Top(e, w)
        BY <2>1, <2>3 DEF Top
      <3> QED
        BY <2>1, <3>1 DEF Safe
    <2> QED
      BY <2>2, <2>3
  <1> QED
    BY <1>2, <1>3, <1>4 DEF View

(* The newest container of its keyslot becomes, or is, the main file.      *)
LEMMA RenamedView ==
    ASSUME NEW d \in Dir, NEW e \in Dir, NEW f \in File,
           NEW ver, NEW gen, NEW gone, NEW n, View(d, ver, gen, gone, n),
           e.main = {f}, Containers(e) \subseteq Containers(d), f \in Containers(e),
           Top(d, f), f.ver >= n
    PROVE  View(e, ver, gen, gone, n)
  <1>1. Sound(e)
    BY FewerSound DEF View
  <1>2. Made(e, ver, gen, gone)
    BY FewerMade DEF View
  <1>3. Top(e, f)
    BY DEF Top
  <1>4. Safe(e, n)
    BY <1>3 DEF Safe
  <1> QED
    BY <1>1, <1>2, <1>4 DEF View

-----------------------------------------------------------------------------
(* unlock's choice.                                                        *)

(* A safe directory opens, under its main file's password, on a container  *)
(* at least as new as the acknowledged one.                                *)
LEMMA SafeOpens ==
    ASSUME NEW v \in Dir, NEW n, Sound(v), Safe(v, n)
    PROVE  /\ v.main # {}
           /\ \A m \in v.main : \E w \in Selected(v, m.pw) : w.ver >= n
  <1>1. PICK m \in Containers(v), w \in Containers(v) :
          v.main = {m} /\ w.gen = m.gen /\ w.ver >= n /\ Top(v, w)
    BY DEF Safe
  <1> DEFINE opened == {f \in Containers(v) : f.pw = m.pw}
             kept == {f \in opened : \A x \in v.main : f.gen = x.gen}
  <1>2. kept = {f \in Containers(v) : f.gen = m.gen}
    BY <1>1 DEF Sound
  <1>3. Newest(kept) = {w}
    <2>1. w \in Newest(kept)
      BY <1>1, <1>2 DEF Newest, Top
    <2>2. ASSUME NEW x \in Newest(kept) PROVE x = w
      <3>1. x \in Containers(v) /\ x.gen = w.gen /\ x.ctr >= w.ctr /\ w.ctr >= x.ctr
        BY <1>1, <1>2, <2>1 DEF Newest, Top
      <3>2. x.ctr \in Nat /\ w.ctr \in Nat
        BY <3>1, ContainersAreFiles, FileFacts
      <3> QED
        BY <3>1, <3>2 DEF Sound
    <2> QED
      BY <2>1, <2>2
  <1>4. Cardinality(Newest(kept)) = 1
    BY <1>3, FS_Singleton
  <1>5. v.main \subseteq opened /\ v.main # {}
    BY <1>1
  <1>6. Selected(v, m.pw) = Newest(kept)
    BY <1>4, <1>5 DEF Selected
  <1> QED
    BY <1>1, <1>3, <1>6

(* What unlock selects is the newest container of the main file's keyslot. *)
LEMMA SelectedTop ==
    ASSUME NEW v \in Dir, NEW pw, Sound(v), NEW f \in Selected(v, pw)
    PROVE  f \in File /\ Top(v, f) /\ \A m \in v.main : m # Torn /\ m.gen = f.gen
  <1> DEFINE opened == {g \in Containers(v) : g.pw = pw}
             kept == {g \in opened : \A m \in v.main : g.gen = m.gen}
             mixed == \E g, h \in Containers(v) : g.gen # h.gen
  <1>1. v.main \subseteq opened /\ (v.main = {} => ~mixed) /\ f \in Newest(kept)
    BY DEF Selected
  <1>2. f \in kept /\ \A g \in kept : g.ctr <= f.ctr
    BY <1>1 DEF Newest
  <1>3. ASSUME NEW g \in Containers(v), g.gen = f.gen PROVE g.ctr <= f.ctr
    <2>1. g.pw = pw
      BY <1>2, <1>3 DEF Sound
    <2> QED
      BY <1>2, <1>3, <2>1
  <1>4. \A m \in v.main : m # Torn /\ m.gen = f.gen
    BY <1>1, <1>2 DEF Containers
  <1>5. f \in Containers(v)
    BY <1>2
  <1> QED
    BY <1>3, <1>4, <1>5, ContainersAreFiles DEF Top

(* In a safe directory that is one at least as new as the acknowledged.    *)
LEMMA SelectedIsNew ==
    ASSUME NEW v \in Dir, Sound(v), NEW n, Safe(v, n), NEW f, Top(v, f),
           \A m \in v.main : m.gen = f.gen
    PROVE  f.ver >= n
  <1>1. PICK m \in Containers(v), w \in Containers(v) :
          v.main = {m} /\ w.gen = m.gen /\ w.ver >= n /\ Top(v, w)
    BY DEF Safe
  <1>2. f \in Containers(v) /\ f.ctr <= w.ctr /\ w.ctr <= f.ctr /\ f.gen = w.gen
    BY <1>1 DEF Top
  <1>3. f.ctr \in Nat /\ w.ctr \in Nat
    BY <1>2, ContainersAreFiles, FileFacts
  <1>4. f = w
    BY <1>2, <1>3 DEF Sound
  <1> QED
    BY <1>1, <1>4

-----------------------------------------------------------------------------
(* Frames.                                                                 *)

(* No unlock thread is at work in a session, during a deletion, or on an   *)
(* empty directory.                                                        *)
LEMMA NobodyUnlocks ==
    ASSUME IInv, app.phase = "unlocked" \/ app.blocked # "no" \/ dir = EmptyDir
    PROVE  \A u \in Unlockers : unl[u].stage = "idle"
  BY DEF IInv, Finding

LEMMA IdleFinding ==
    ASSUME \A u \in Unlockers : unl[u].stage = "idle", unl' = unl
    PROVE  Finding'
  BY DEF Finding

LEMMA DiskFrame ==
    ASSUME Types, Disk, views' = views, retired' = retired, acked' = acked,
           lastVer' \in Nat, lastVer' >= lastVer, lastGen' \in Nat, lastGen' >= lastGen
    PROVE  Disk'
  <1>1. lastVer \in Nat /\ lastGen \in Nat /\ views \subseteq Dir
    BY BoundsAssumption DEF Types
  <1>2. ASSUME NEW v \in views PROVE View(v, lastVer', lastGen', retired, acked)
    BY <1>1, <1>2, GrownView DEF Disk
  <1> QED
    BY <1>2 DEF Disk

(* An acknowledged save is on disk.                                        *)
LEMMA NothingAcked ==
    ASSUME Types, Disk, dir = EmptyDir
    PROVE  acked = 0
  <1>1. acked > 0 => Safe(dir, acked)
    BY DEF Types, Disk, View
  <1>2. ~Safe(dir, acked)
    BY FileFacts DEF Safe
  <1>3. acked \in Nat
    BY BoundsAssumption DEF Types
  <1> QED
    BY <1>1, <1>2, <1>3

LEMMA LockedAppFacts ==
    /\ LockedApp \in Controller /\ LockedApp.phase = "locked" /\ LockedApp.task = "idle"
    /\ LockedApp.blocked = "no" /\ LockedApp.flushing = FALSE /\ LockedApp.claim = "none"
    /\ LockedApp.quar = {} /\ LockedApp.dirty = FALSE /\ LockedApp.wctr = 0
    /\ LockedApp.wfile = {} /\ LockedApp.healthy = FALSE /\ LockedApp.health = "Ready"
    /\ NoSave \in SaveWork /\ NoSave.stage = "idle"
    /\ IdleUnlock \in UnlockWork /\ IdleUnlock.stage = "idle"
  BY BoundsAssumption DEF LockedApp, Controller, Slot, NoSlot, NoSave, SaveWork, IdleUnlock,
     UnlockWork

-----------------------------------------------------------------------------
(* The UI thread.                                                          *)

LEMMA CreateSafe == IInv /\ Create => IInv'
  <1> SUFFICES ASSUME IInv, Create PROVE IInv'
    OBVIOUS
  <1>1. PICK pw \in Passwords :
          LET a == [LockedApp EXCEPT !.phase = "unlocked", !.mem = lastVer + 1,
                      !.vault = [gen |-> lastGen + 1, pw |-> pw], !.healthy = TRUE,
                      !.health = "WritePending", !.task = "running"]
          IN  app' = a /\ save' = StartedSave(a)
    BY DEF Create
  <1> DEFINE g == lastGen + 1
             n == lastVer + 1
             slot == [gen |-> g, pw |-> pw]
             file == [gen |-> g, pw |-> pw, ctr |-> 1, ver |-> n]
  <1>2. /\ app' = [LockedApp EXCEPT !.phase = "unlocked", !.mem = n, !.vault = slot,
                     !.healthy = TRUE, !.health = "WritePending", !.task = "running"]
        /\ save' = [stage |-> "prepare", file |-> file]
    BY <1>1 DEF StartedSave, Sealed, LockedApp
  <1>3. /\ dir = EmptyDir /\ lastVer' = n /\ lastGen' = g /\ lastVer < MaxVer
        /\ lastGen < MaxGen /\ dir' = dir /\ views' = views /\ unl' = unl
        /\ await' = await /\ acked' = acked /\ retired' = retired /\ damaged' = damaged
        /\ await = "none"
    BY DEF Create, Fresh, KeyBusy
  <1>4. Types /\ Disk
    BY DEF IInv
  <1>5. /\ lastVer \in Nat /\ lastGen \in Nat /\ n \in 1..MaxVer /\ g \in 1..MaxGen
        /\ n \in 0..MaxVer
        /\ acked = 0
    BY <1>3, <1>4, NothingAcked, BoundsAssumption DEF Types
  <1> HIDE DEF g, n
  <1>6. slot \in Slot /\ slot.gen = g /\ slot.pw = pw
    BY <1>5 DEF Slot
  <1>7. file \in File /\ file.gen = g /\ file.pw = pw /\ file.ctr = 1 /\ file.ver = n
    BY <1>5, BoundsAssumption DEF File
  <1> HIDE DEF slot, file
  <1>8. /\ app' \in Controller /\ app'.phase = "unlocked" /\ app'.mem = n
        /\ app'.vault = slot /\ app'.healthy = TRUE /\ app'.health = "WritePending"
        /\ app'.task = "running" /\ app'.blocked = "no" /\ app'.claim = "none"
        /\ app'.quar = {} /\ app'.dirty = FALSE /\ app'.flushing = FALSE
        /\ app'.wctr = 0 /\ app'.wfile = {}
    BY <1>2, <1>5, <1>6, LockedAppFacts DEF Controller
  <1>9. save' \in SaveWork /\ save'.stage = "prepare" /\ save'.file = file
    BY <1>2, <1>7 DEF SaveWork
  <1>10. lastVer' = lastVer + 1 /\ lastGen' = lastGen + 1
    BY <1>3 DEF g, n
  <1>11. Types'
    BY <1>3, <1>4, <1>5, <1>8, <1>9, <1>10 DEF Types
  <1>12. Disk'
    BY <1>3, <1>4, <1>5, <1>10, DiskFrame
  <1>13. Inside'
    BY <1>3, <1>5, <1>6, <1>8, <1>10 DEF Inside
  <1>14. Ours'
    <2>1. g \notin retired
      BY <1>3, <1>4, <1>5, <1>10 DEF Types
    <2> QED
      BY <2>1, <1>3, <1>6, <1>8, <1>9, FileFacts DEF Ours, EmptyDir
  <1>15. Saving'
    BY <1>3, <1>5, <1>6, <1>7, <1>8, <1>9 DEF Saving
  <1>16. Finding'
    BY <1>3, NobodyUnlocks, IdleFinding
  <1> QED
    BY <1>8, <1>11, <1>12, <1>13, <1>14, <1>15, <1>16 DEF IInv

(* A session step that only notes a change: the file, the save and the     *)
(* threads stay as they are.                                               *)
LEMMA NotedSafe ==
    ASSUME IInv, app.phase = "unlocked",
           dir' = dir, views' = views, save' = save, unl' = unl, acked' = acked,
           lastGen' = lastGen, retired' = retired, damaged' = damaged,
           lastVer' \in 0..MaxVer, lastVer' >= lastVer, await' \in {await, "none"},
           app' \in Controller, app'.phase = "unlocked", app'.vault = app.vault,
           app'.health = app.health, app'.quar = app.quar, app'.task = app.task,
           app'.wctr = app.wctr, app'.wfile = app.wfile, app'.healthy = app.healthy,
           app'.flushing = app.flushing, app'.claim = app.claim,
           app'.mem \in app.mem..lastVer', app'.blocked # "destroy",
           app'.blocked = "no" => app.blocked = "no",
           app'.blocked # "rekey",
           app'.dirty /\ ~app.dirty => lastVer' > lastVer \/ app.health = "Failed"
    PROVE  IInv'
  <1>1. Types /\ Disk /\ Inside /\ Saving
    BY DEF IInv
  <1>2. lastVer \in Nat /\ lastGen \in Nat /\ acked \in Nat /\ app.mem \in Nat
        /\ app.wctr \in Nat /\ lastVer' \in Nat /\ app'.mem \in Nat
    BY <1>1, BoundsAssumption DEF Types, Controller
  <1>3. Types'
    BY <1>1 DEF Types
  <1>4. Disk'
    BY <1>1, <1>2, DiskFrame
  <1>5. Inside'
    <2>1. /\ app'.vault.gen \in 1..lastGen' /\ app'.vault.pw \in Passwords
          /\ app'.mem \in 1..lastVer' /\ app'.mem >= acked'
      BY <1>1, <1>2 DEF Inside
    <2>2. /\ app'.blocked # "destroy" /\ app'.claim # "deleted"
          /\ app'.health = "Failed" => app'.task = "idle" /\ ~app'.healthy
          /\ app'.health # "Failed" => app'.quar = {}
          /\ app'.flushing => app'.blocked # "no" /\ app'.task # "idle"
          /\ await' = "rekey" /\ app'.blocked = "no" => app'.task = "idle"
      BY <1>1 DEF Inside
    <2>3. /\ app'.wctr <= lastVer' + lastGen'
          /\ app'.task = "running" => app'.wctr + 1 <= lastVer' + lastGen'
      BY <1>1, <1>2 DEF Inside
    <2>4. ASSUME app'.dirty, ~app'.flushing, app'.health # "Failed"
          PROVE  app'.wctr + 1 + (IF app'.task = "running" THEN 1 ELSE 0) <= lastVer' + lastGen'
      <3>1. CASE app.dirty
        BY <1>1, <1>2, <2>4, <3>1 DEF Inside
      <3>2. CASE ~app.dirty
        BY <1>1, <1>2, <2>4, <3>2 DEF Inside
      <3> QED
        BY <3>1, <3>2
    <2> QED
      BY <2>1, <2>2, <2>3, <2>4 DEF Inside
  <1>6. app'.healthy => Ours'
    BY DEF IInv, Ours
  <1>7. Saving'
    BY <1>1, <1>2 DEF Saving
  <1>8. Finding'
    BY NobodyUnlocks, IdleFinding
  <1> QED
    BY <1>3, <1>4, <1>5, <1>6, <1>7, <1>8 DEF IInv

LEMMA EditSafe == IInv /\ Edit => IInv'
  <1> SUFFICES ASSUME IInv, Edit PROVE IInv'
    OBVIOUS
  <1> DEFINE n == lastVer + 1
             d == app.dirty \/ app.health # "Failed"
  <1>1. Types /\ Inside /\ app.phase = "unlocked" /\ app.blocked = "no" /\ app \in Controller
    BY DEF IInv, Edit, Unlocked, Types
  <1>2. n \in 0..MaxVer /\ lastVer' = n /\ lastVer \in Nat /\ n > lastVer
    BY <1>1, BoundsAssumption DEF Edit, Types
  <1>3. app' = [app EXCEPT !.mem = n, !.dirty = d]
    BY <1>1 DEF Edit, MarkDirty, Controller
  <1>4. d \in BOOLEAN
    OBVIOUS
  <1>5. app.mem \in Nat /\ app.mem <= lastVer
    BY <1>1, <1>2, BoundsAssumption DEF Inside, Controller
  <1> HIDE DEF n
  <1>6. d /\ ~app.dirty => lastVer' > lastVer
    BY <1>2
  <1> HIDE DEF d
  <1>7. /\ app' \in Controller /\ app'.phase = "unlocked" /\ app'.vault = app.vault
        /\ app'.health = app.health /\ app'.quar = app.quar /\ app'.task = app.task
        /\ app'.wctr = app.wctr /\ app'.wfile = app.wfile /\ app'.healthy = app.healthy
        /\ app'.flushing = app.flushing /\ app'.claim = app.claim
        /\ app'.mem = n /\ app'.blocked = "no" /\ app'.dirty = d
    BY <1>1, <1>2, <1>3, <1>4 DEF Controller
  <1>8. n \in app.mem..lastVer'
    BY <1>2, <1>5
  <1> QED
    BY <1>1, <1>2, <1>6, <1>7, <1>8, NotedSafe DEF Edit

LEMMA BarrierSafe == IInv /\ Barrier => IInv'
  <1> SUFFICES ASSUME IInv, Barrier PROVE IInv'
    OBVIOUS
  <1> DEFINE n == lastVer + 1
             b == IF app.health = "Failed" THEN "no" ELSE "barrier"
             d == app.dirty \/ app.health # "Failed"
  <1>1. Types /\ Inside /\ app.phase = "unlocked" /\ app.blocked = "no" /\ app \in Controller
    BY DEF IInv, Barrier, Unlocked, Types
  <1>2. n \in 0..MaxVer /\ lastVer' = n /\ lastVer \in Nat /\ n > lastVer
    BY <1>1, BoundsAssumption DEF Barrier, Types
  <1>3. app' = [app EXCEPT !.mem = n, !.dirty = d, !.blocked = b]
    BY <1>1 DEF Barrier, Controller
  <1>4. d \in BOOLEAN /\ b \in {"no", "barrier"}
    OBVIOUS
  <1>5. app.mem \in Nat /\ app.mem <= lastVer
    BY <1>1, <1>2, BoundsAssumption DEF Inside, Controller
  <1> HIDE DEF n
  <1>6. d /\ ~app.dirty => lastVer' > lastVer
    BY <1>2
  <1> HIDE DEF d, b
  <1>7. /\ app' \in Controller /\ app'.phase = "unlocked" /\ app'.vault = app.vault
        /\ app'.health = app.health /\ app'.quar = app.quar /\ app'.task = app.task
        /\ app'.wctr = app.wctr /\ app'.wfile = app.wfile /\ app'.healthy = app.healthy
        /\ app'.flushing = app.flushing /\ app'.claim = app.claim
        /\ app'.mem = n /\ app'.blocked = b /\ app'.dirty = d
    BY <1>1, <1>2, <1>3, <1>4 DEF Controller
  <1>8. n \in app.mem..lastVer'
    BY <1>2, <1>5
  <1> QED
    BY <1>1, <1>2, <1>4, <1>6, <1>7, <1>8, NotedSafe DEF Barrier

LEMMA RequestLockSafe == IInv /\ RequestLock => IInv'
  <1> SUFFICES ASSUME IInv, RequestLock PROVE IInv'
    OBVIOUS
  <1>1. Types /\ Inside /\ app.phase = "unlocked" /\ app.blocked = "no" /\ app \in Controller
    BY DEF IInv, RequestLock, Unlocked, Types
  <1>2. PICK k \in {"lock", "delete"} : app' = [app EXCEPT !.blocked = k]
    BY DEF RequestLock
  <1>3. lastVer \in 0..MaxVer /\ app.mem \in app.mem..lastVer /\ lastVer \in Nat
    BY <1>1, BoundsAssumption DEF Inside, Types, Controller
  <1>4. /\ app' \in Controller /\ app'.phase = "unlocked" /\ app'.vault = app.vault
        /\ app'.health = app.health /\ app'.quar = app.quar /\ app'.task = app.task
        /\ app'.wctr = app.wctr /\ app'.wfile = app.wfile /\ app'.healthy = app.healthy
        /\ app'.flushing = app.flushing /\ app'.claim = app.claim
        /\ app'.mem = app.mem /\ app'.blocked = k /\ app'.dirty = app.dirty
    BY <1>1, <1>2 DEF Controller
  <1> QED
    BY <1>1, <1>2, <1>3, <1>4, NotedSafe DEF RequestLock

LEMMA InvalidateKeyOpsSafe == IInv /\ InvalidateKeyOps => IInv'
  <1> SUFFICES ASSUME IInv, InvalidateKeyOps PROVE IInv'
    OBVIOUS
  <1>1. Types' /\ Disk' /\ Saving'
    BY DEF IInv, InvalidateKeyOps, Types, Disk, Saving
  <1>2. (app.phase = "locked" => Outside)' /\ (app.phase = "unlocked" /\ app.healthy => Ours)'
    BY DEF IInv, InvalidateKeyOps, Outside, Ours
  <1>3. (app.phase = "unlocked" => Inside)'
    BY DEF IInv, InvalidateKeyOps, Inside
  <1>4. Finding'
    BY DEF IInv, InvalidateKeyOps, Finding, Holds
  <1> QED
    BY <1>1, <1>2, <1>3, <1>4 DEF IInv

LEMMA RekeyReadySafe == IInv /\ RekeyReady => IInv'
  <1> SUFFICES ASSUME IInv, RekeyReady PROVE IInv'
    OBVIOUS
  <1> DEFINE g == lastGen + 1
  <1>1. PICK pw \in Passwords :
          app' = [app EXCEPT !.prev = app.vault, !.vault = [gen |-> g, pw |-> pw],
                             !.dirty = TRUE, !.blocked = "rekey"]
    BY DEF RekeyReady
  <1> DEFINE slot == [gen |-> g, pw |-> pw]
  <1>2. /\ Types /\ Disk /\ Inside /\ Saving /\ app.phase = "unlocked" /\ app \in Controller
        /\ app.task = "idle" /\ ~app.flushing
    BY DEF IInv, Types, RekeyReady, Unlocked, Inside
  <1>3. /\ dir' = dir /\ views' = views /\ save' = save /\ unl' = unl /\ acked' = acked
        /\ lastVer' = lastVer /\ retired' = retired /\ damaged' = damaged
        /\ lastGen' = g /\ await' = "none" /\ lastGen < MaxGen
    BY DEF RekeyReady
  <1>4. /\ lastVer \in Nat /\ lastGen \in Nat /\ g \in 1..MaxGen /\ g \in Nat
        /\ app.mem \in Nat /\ app.wctr \in Nat /\ g = lastGen + 1
    BY <1>2, <1>3, BoundsAssumption DEF Types, Controller
  <1> HIDE DEF g
  <1>5. slot \in Slot /\ slot.gen = g /\ slot.pw = pw
    BY <1>4 DEF Slot
  <1> HIDE DEF slot
  <1>6. /\ app' \in Controller /\ app'.phase = "unlocked" /\ app'.vault = slot
        /\ app'.prev = app.vault /\ app'.dirty = TRUE /\ app'.blocked = "rekey"
        /\ app'.health = app.health /\ app'.quar = app.quar /\ app'.task = "idle"
        /\ app'.wctr = app.wctr /\ app'.wfile = app.wfile /\ app'.healthy = app.healthy
        /\ app'.flushing = app.flushing /\ app'.claim = app.claim /\ app'.mem = app.mem
    BY <1>1, <1>2, <1>5 DEF Controller, slot
  <1>7. Types'
    BY <1>2, <1>3, <1>4, <1>6 DEF Types
  <1>8. Disk'
    BY <1>2, <1>3, <1>4, DiskFrame
  <1>9. Inside'
    <2>1. /\ app'.vault.gen \in 1..lastGen' /\ app'.vault.pw \in Passwords
          /\ app'.mem \in 1..lastVer' /\ app'.mem >= acked'
          /\ app'.prev.gen \in 1..lastGen' /\ app'.prev.pw \in Passwords
      BY <1>2, <1>3, <1>4, <1>5, <1>6 DEF Inside
    <2>2. /\ app'.wctr + 1 <= lastVer' + lastGen' /\ app'.wctr <= lastVer' + lastGen'
      BY <1>2, <1>3, <1>4, <1>6 DEF Inside
    <2> QED
      BY <1>2, <1>3, <1>4, <1>6, <2>1, <2>2 DEF Inside
  <1>10. ASSUME app'.healthy PROVE Ours'
    <2>1. g \notin retired
      BY <1>2, <1>4 DEF Types
    <2>2. \A f \in Containers(dir) : f.gen # g
      BY <1>2, <1>4 DEF Types, Disk, View, Made
    <2>3. Ours /\ save.stage = "idle"
      BY <1>2, <1>6, <1>10 DEF IInv, Saving, Types, SaveWork
    <2> QED
      BY <1>3, <1>5, <1>6, <2>1, <2>2, <2>3 DEF Ours
  <1>11. Saving'
    BY <1>2, <1>3, <1>6 DEF Saving
  <1>12. Finding'
    BY <1>2, <1>3, NobodyUnlocks, IdleFinding
  <1> QED
    BY <1>6, <1>7, <1>8, <1>9, <1>10, <1>11, <1>12 DEF IInv

(* drain_save_task, on a task that is not running.                         *)
LEMMA DrainedFacts ==
    ASSUME IInv, app.phase = "unlocked", app.task # "running"
    PROVE  LET d == Drained(app)
           IN  /\ d \in Controller /\ d.phase = "unlocked" /\ d.task = "idle"
               /\ d.vault = app.vault /\ d.prev = app.prev /\ d.mem = app.mem
               /\ d.quar = app.quar /\ d.wctr = app.wctr /\ d.wfile = app.wfile
               /\ d.blocked = app.blocked /\ d.flushing = app.flushing
               /\ d.claim = app.claim
               /\ d.dirty = app.dirty \/ d.dirty = TRUE
               /\ d.health = "Failed" => ~d.healthy
               /\ d.health # "Failed" =>
                     /\ d.healthy = app.healthy /\ d.dirty = app.dirty
                     /\ d.quar = {} /\ app.health # "Failed" /\ app.task # "failed"
  <1> DEFINE d == Drained(app)
  <1>1. app \in Controller /\ Inside /\ app.task \in {"idle", "ok", "failed"}
    BY DEF IInv, Types, Controller
  <1>2. CASE app.task = "idle"
    <2>1. d = app
      BY <1>2 DEF Drained
    <2> QED
      BY <1>1, <1>2, <2>1 DEF Inside
  <1>3. CASE app.task = "ok"
    <2>1. d = [app EXCEPT !.task = "idle", !.health = "Ready"]
      BY <1>3 DEF Drained
    <2>2. /\ d \in Controller /\ d.phase = app.phase /\ d.task = "idle"
          /\ d.vault = app.vault /\ d.prev = app.prev /\ d.mem = app.mem
          /\ d.quar = app.quar /\ d.wctr = app.wctr /\ d.wfile = app.wfile
          /\ d.blocked = app.blocked /\ d.flushing = app.flushing
          /\ d.claim = app.claim /\ d.dirty = app.dirty /\ d.healthy = app.healthy
          /\ d.health = "Ready"
      BY <1>1, <2>1 DEF Controller
    <2> QED
      BY <1>1, <1>3, <2>2 DEF Inside
  <1>4. CASE app.task = "failed"
    <2>1. d = [app EXCEPT !.healthy = FALSE, !.health = "Failed", !.dirty = TRUE,
                          !.task = "idle"]
      BY <1>1, <1>4 DEF Drained, PersistenceFailed, Controller
    <2>2. /\ d \in Controller /\ d.phase = app.phase /\ d.task = "idle"
          /\ d.vault = app.vault /\ d.prev = app.prev /\ d.mem = app.mem
          /\ d.quar = app.quar /\ d.wctr = app.wctr /\ d.wfile = app.wfile
          /\ d.blocked = app.blocked /\ d.flushing = app.flushing
          /\ d.claim = app.claim /\ d.dirty = TRUE /\ d.healthy = FALSE
          /\ d.health = "Failed"
      BY <1>1, <2>1 DEF Controller
    <2> QED
      BY <2>2
  <1> QED
    BY <1>1, <1>2, <1>3, <1>4

(* What a finished save lets the app acknowledge is on disk.               *)
LEMMA DrainedAckFacts ==
    ASSUME IInv, app.phase = "unlocked", app.task # "running"
    PROVE  /\ DrainedAck(app) \in 0..MaxVer
           /\ DrainedAck(app) >= acked /\ app.mem >= DrainedAck(app)
           /\ app.task = "ok" => DrainedAck(app) = save.file.ver
           /\ \A v \in views : View(v, lastVer, lastGen, retired, DrainedAck(app))
  <1>1. /\ Types /\ Disk /\ Inside /\ Saving /\ acked \in Nat /\ app.mem \in Nat
        /\ acked \in 0..MaxVer /\ app.mem \in 0..MaxVer
    BY BoundsAssumption DEF IInv, Types, Controller
  <1>2. CASE app.task # "ok"
    <2>1. DrainedAck(app) = acked
      BY <1>2 DEF DrainedAck
    <2> QED
      BY <1>1, <1>2, <2>1 DEF Disk, Inside
  <1>3. CASE app.task = "ok"
    <2> DEFINE f == save.file
    <2>1. /\ f \in File /\ f.gen = app.vault.gen /\ f.ver \in acked..app.mem
          /\ app.healthy /\ views = {dir} /\ dir.main = {f} /\ app.wctr = f.ctr
          /\ save.stage = "idle"
      BY <1>1, <1>3 DEF Saving, Types, SaveWork
    <2>2. f.ver \in Nat
      BY <2>1, FileFacts
    <2>3. DrainedAck(app) = f.ver
      <3>1. f.ver \in {acked, f.ver} /\ \A y \in {acked, f.ver} : f.ver >= y
        BY <1>1, <2>1, <2>2
      <3>2. \A x \in {acked, f.ver} : (\A y \in {acked, f.ver} : x >= y) => x = f.ver
        BY <1>1, <2>1, <2>2
      <3>3. Max({acked, f.ver}) = f.ver
        BY <3>1, <3>2 DEF Max
      <3> QED
        BY <1>3, <3>3 DEF DrainedAck
    <2>4. View(dir, lastVer, lastGen, retired, acked)
      BY <1>1 DEF Types, Disk
    <2>5. Ours
      BY <2>1 DEF IInv
    <2>6. f \in Containers(dir) /\ f # Torn
      BY <2>1, FileFacts DEF Containers
    <2>7. Top(dir, f)
      BY <2>1, <2>5, <2>6 DEF Ours, Top
    <2>8. Safe(dir, f.ver)
      BY <2>1, <2>2, <2>6, <2>7 DEF Safe
    <2>9. View(dir, lastVer, lastGen, retired, f.ver)
      BY <2>4, <2>8 DEF View
    <2>10. f.ver \in 0..MaxVer /\ f.ver >= acked /\ app.mem >= f.ver
      BY <1>1, <2>1, <2>2, BoundsAssumption
    <2>11. \A v \in views : View(v, lastVer, lastGen, retired, f.ver)
      BY <2>1, <2>9
    <2> QED
      BY <1>3, <2>3, <2>10, <2>11
  <1> QED
    BY <1>2, <1>3

(* Nothing is left to quarantine once a session can save.                  *)
LEMMA NothingToQuarantine ==
    ASSUME NEW a, a.quar = {}
    PROVE  EnsureQuarantined(a) = {Kept(a)}
  BY DEF EnsureQuarantined

(* A session whose task has been drained and that starts no other.         *)
LEMMA SettledSafe ==
    ASSUME IInv, app.phase = "unlocked", app.task # "running",
           dir' = dir, views' = views, save' = NoSave, unl' = unl,
           acked' = DrainedAck(app), lastVer' = lastVer, lastGen' = lastGen,
           retired' = retired, damaged' = damaged,
           await' \in Unlockers \cup {"none", "rekey"},
           app' \in Controller, app'.phase = "unlocked", app'.task = "idle",
           app'.vault.gen \in 1..lastGen, app'.vault.pw \in Passwords,
           app'.mem = app.mem, app'.wctr = app.wctr,
           app'.wfile = app.wfile, app'.flushing = FALSE,
           app'.claim # "deleted", app'.blocked # "destroy",
           app'.blocked = "rekey" =>
              app.blocked = "rekey" /\ app'.dirty /\ app'.prev = app.prev,
           app'.healthy => app.healthy /\ app'.vault = app.vault,
           app'.health = "Failed" => ~app'.healthy,
           app'.health # "Failed" => app'.quar = {} /\ app.health # "Failed",
           app'.dirty /\ app'.health # "Failed" => app.dirty /\ ~app.flushing
    PROVE  IInv'
  <1>1. Types /\ Disk /\ Inside /\ Saving
    BY DEF IInv
  <1>2. /\ lastVer \in Nat /\ lastGen \in Nat /\ app.mem \in Nat /\ app.wctr \in Nat
    BY <1>1, BoundsAssumption DEF Types, Controller
  <1>3. /\ acked' \in 0..MaxVer /\ acked' \in Nat /\ app.mem >= acked'
        /\ \A v \in views : View(v, lastVer, lastGen, retired, acked')
    BY DrainedAckFacts, BoundsAssumption
  <1>4. Types'
    BY <1>1, <1>3, LockedAppFacts DEF Types
  <1>5. Disk'
    BY <1>3 DEF Disk
  <1>6. Inside'
    <2>1. /\ app'.mem \in 1..lastVer' /\ app'.mem >= acked'
          /\ app'.blocked = "rekey" =>
                app'.dirty /\ app'.prev.gen \in 1..lastGen' /\ app'.prev.pw \in Passwords
      BY <1>1, <1>2, <1>3 DEF Inside
    <2>2. app'.wctr <= lastVer' + lastGen'
      BY <1>1, <1>2 DEF Inside
    <2>3. ASSUME app'.dirty, app'.health # "Failed"
          PROVE  app'.wctr + 1 <= lastVer' + lastGen'
      BY <1>1, <1>2, <2>3 DEF Inside
    <2> QED
      BY <1>2, <2>1, <2>2, <2>3 DEF Inside
  <1>7. ASSUME app'.healthy PROVE Ours'
    <2>1. Ours /\ save.stage = "idle" /\ save'.stage = "idle"
      BY <1>1, <1>7, LockedAppFacts DEF IInv, Saving, Types, SaveWork
    <2> QED
      BY <1>7, <2>1 DEF Ours
  <1>8. Saving'
    BY LockedAppFacts DEF Saving
  <1>9. Finding'
    BY NobodyUnlocks, IdleFinding
  <1> QED
    BY <1>4, <1>5, <1>6, <1>7, <1>8, <1>9 DEF IInv

(* Flushed from a session with no flush of its own under way: the next     *)
(* write starts, or there is nothing to write.                             *)
LEMMA FlushedSafe ==
    ASSUME IInv, app.phase = "unlocked", app.task # "running", ~app.flushing,
           NEW started, Flushed(app, started),
           started.dirty \in BOOLEAN, started.flushing \in BOOLEAN,
           started.dirty = started.flushing,
           started.flushing => app.blocked # "no" /\ app.dirty,
           ~started.flushing => app.blocked = "no" /\ await = "none",
           Drained(app).health # "Failed" =>
              started.health \in {"Ready", "WritePending", "QuarantineRequired"},
           unl' = unl, await' = await, lastVer' = lastVer, lastGen' = lastGen,
           retired' = retired, damaged' = damaged
    PROVE  IInv'
  <1> DEFINE d == Drained(app)
             go == d.health # "Failed" /\ d.dirty
  <1>1. /\ d \in Controller /\ d.phase = "unlocked" /\ d.task = "idle"
        /\ d.vault = app.vault /\ d.prev = app.prev /\ d.mem = app.mem
        /\ d.quar = app.quar /\ d.wctr = app.wctr /\ d.wfile = app.wfile
        /\ d.blocked = app.blocked /\ d.flushing = app.flushing
        /\ d.claim = app.claim
        /\ d.dirty = app.dirty \/ d.dirty = TRUE
        /\ d.health = "Failed" => ~d.healthy
        /\ d.health # "Failed" =>
              /\ d.healthy = app.healthy /\ d.dirty = app.dirty
              /\ d.quar = {} /\ app.health # "Failed" /\ app.task # "failed"
    BY DrainedFacts
  <1>2. /\ Types /\ Disk /\ Inside /\ Saving /\ app \in Controller
    BY DEF IInv, Types
  <1>3. /\ dir' = dir /\ views' = views /\ acked' = DrainedAck(app)
        /\ app' = IF go THEN [d EXCEPT !.task = "running", !.dirty = started.dirty,
                                       !.health = started.health,
                                       !.flushing = started.flushing]
                  ELSE d
        /\ save' = IF go THEN StartedSave(d) ELSE NoSave
    <2>1. PICK r \in (IF d.health = "Failed" \/ ~d.dirty THEN {Kept(d)}
                      ELSE EnsureQuarantined(d)) :
            /\ Happens(r) /\ acked' = DrainedAck(app)
            /\ LET more == r.app.health # "Failed" /\ r.app.dirty IN
               /\ app' = IF more THEN [r.app EXCEPT !.task = "running", !.dirty = started.dirty,
                                                    !.health = started.health,
                                                    !.flushing = started.flushing]
                         ELSE r.app
               /\ save' = IF more THEN StartedSave(r.app) ELSE NoSave
      BY DEF Flushed
    <2> HIDE DEF d
    <2>2. r = Kept(d)
      BY <1>1, <2>1, NothingToQuarantine
    <2>3. r.app = d /\ r.dir = dir /\ r.views = views
      BY <2>2 DEF Kept
    <2> QED
      BY <2>1, <2>3 DEF Happens
  <1> HIDE DEF d
  <1>4. CASE ~go
    <2>1. app' = d /\ save' = NoSave
      BY <1>3, <1>4
    <2>2. app'.dirty => d.health = "Failed"
      BY <1>4, <2>1
    <2>3. /\ app'.vault.gen \in 1..lastGen /\ app'.vault.pw \in Passwords
          /\ app'.claim # "deleted" /\ app'.blocked # "destroy"
          /\ await' \in Unlockers \cup {"none", "rekey"}
      BY <1>1, <1>2, <2>1 DEF Inside, Types
    <2>4. app'.blocked = "rekey" => app.blocked = "rekey" /\ app'.dirty /\ app'.prev = app.prev
      BY <1>1, <1>2, <2>1 DEF Inside
    <2>5. app'.flushing = FALSE
      BY <1>1, <1>2, <2>1 DEF Controller
    <2>6. app'.healthy => app.healthy /\ app'.vault = app.vault
      BY <1>1, <2>1
    <2> QED
      BY <1>1, <1>3, <2>1, <2>2, <2>3, <2>4, <2>5, <2>6, SettledSafe
  <1>5. CASE go
    <2> DEFINE file == Sealed(d)
    <2>1. /\ app' = [d EXCEPT !.task = "running", !.dirty = started.dirty,
                              !.health = started.health, !.flushing = started.flushing]
          /\ save' = [stage |-> "prepare", file |-> file]
      BY <1>3, <1>5 DEF StartedSave
    <2>2. started.health \in {"Ready", "WritePending", "QuarantineRequired"}
      BY <1>5 DEF d
    <2>3. /\ app' \in Controller /\ app'.phase = "unlocked" /\ app'.task = "running"
          /\ app'.vault = app.vault /\ app'.prev = app.prev /\ app'.mem = app.mem
          /\ app'.quar = {} /\ app'.wctr = app.wctr /\ app'.wfile = app.wfile
          /\ app'.blocked = app.blocked /\ app'.flushing = started.flushing
          /\ app'.claim = app.claim /\ app'.dirty = started.dirty
          /\ app'.healthy = app.healthy /\ app'.health # "Failed"
      BY <1>1, <1>5, <2>1, <2>2 DEF Controller
    <2>4. /\ lastVer \in Nat /\ lastGen \in Nat /\ app.mem \in Nat /\ app.wctr \in Nat
          /\ app.mem \in 1..MaxVer /\ app.vault.gen \in 1..MaxGen
          /\ app.vault.pw \in Passwords
          /\ lastVer + lastGen <= MaxVer + MaxGen
      BY <1>2, BoundsAssumption DEF Types, Controller, Inside
    <2>5. app.wctr + 1 <= lastVer + lastGen
      <3>1. app.dirty /\ ~app.flushing /\ app.health # "Failed"
        BY <1>1, <1>5
      <3>2. app.wctr + 1 + 0 <= lastVer + lastGen
        BY <1>2, <3>1 DEF Inside
      <3> QED
        BY <2>4, <3>2
    <2>6. /\ file \in File /\ file.gen = app.vault.gen /\ file.pw = app.vault.pw
          /\ file.ctr = app.wctr + 1 /\ file.ver = app.mem
      BY <1>1, <2>4, <2>5, BoundsAssumption DEF Sealed, File
    <2> HIDE DEF file
    <2>7. save' \in SaveWork /\ save'.stage = "prepare" /\ save'.file = file
      BY <2>1, <2>6 DEF SaveWork
    <2>8. /\ acked' \in 0..MaxVer /\ acked' \in Nat /\ app.mem >= acked'
          /\ \A v \in views : View(v, lastVer, lastGen, retired, acked')
      BY <1>3, DrainedAckFacts, BoundsAssumption
    <2>9. Types'
      BY <1>2, <1>3, <2>3, <2>7, <2>8 DEF Types
    <2>10. Disk'
      BY <1>3, <2>8 DEF Disk
    <2>11. Inside'
      <3>1. /\ app'.vault.gen \in 1..lastGen' /\ app'.vault.pw \in Passwords
            /\ app'.mem \in 1..lastVer' /\ app'.mem >= acked'
            /\ app'.blocked # "destroy" /\ app'.claim # "deleted"
        BY <1>2, <2>3, <2>8 DEF Inside
      <3>2. app'.blocked = "rekey" =>
               app'.dirty /\ app'.prev.gen \in 1..lastGen' /\ app'.prev.pw \in Passwords
        BY <1>2, <2>3 DEF Inside
      <3>3. /\ app'.flushing => app'.blocked # "no"
            /\ await' = "rekey" /\ app'.blocked = "no" => FALSE
            /\ ~(app'.dirty /\ ~app'.flushing)
        BY <2>3
      <3>4. app'.wctr <= lastVer' + lastGen' /\ app'.wctr + 1 <= lastVer' + lastGen'
        BY <2>3, <2>4, <2>5
      <3> QED
        BY <2>3, <3>1, <3>2, <3>3, <3>4 DEF Inside
    <2>12. ASSUME app'.healthy PROVE Ours'
      <3>1. Ours /\ save.stage = "idle"
        BY <1>2, <2>3, <2>12 DEF IInv, Saving, Types, SaveWork
      <3> QED
        BY <1>3, <2>3, <2>7, <3>1 DEF Ours
    <2>13. Saving'
      BY <2>3, <2>4, <2>6, <2>7, <2>8 DEF Saving
    <2>14. Finding'
      BY NobodyUnlocks, IdleFinding
    <2> QED
      BY <2>3, <2>9, <2>10, <2>11, <2>12, <2>13, <2>14 DEF IInv
  <1> QED
    BY <1>4, <1>5

LEMMA FlushSaveSafe == IInv /\ FlushSave => IInv'
  <1> SUFFICES ASSUME IInv, FlushSave PROVE IInv'
    OBVIOUS
  <1> DEFINE started == [dirty |-> FALSE, health |-> "WritePending", flushing |-> FALSE]
  <1>1. /\ app.phase = "unlocked" /\ app.task # "running" /\ app.blocked = "no"
        /\ await = "none" /\ Flushed(app, started)
        /\ unl' = unl /\ await' = await /\ lastVer' = lastVer /\ lastGen' = lastGen
        /\ retired' = retired /\ damaged' = damaged
    BY DEF FlushSave, Unlocked, KeyBusy
  <1>2. ~app.flushing
    BY <1>1 DEF IInv, Inside
  <1>3. started.dirty = FALSE /\ started.flushing = FALSE /\ started.health = "WritePending"
    OBVIOUS
  <1> HIDE DEF started
  <1> QED
    BY <1>1, <1>2, <1>3, FlushedSafe

LEMMA FlushBlockedSafe == IInv /\ FlushBlocked => IInv'
  <1> SUFFICES ASSUME IInv, FlushBlocked PROVE IInv'
    OBVIOUS
  <1> DEFINE started == [dirty |-> TRUE, health |-> Drained(app).health, flushing |-> TRUE]
  <1>1. /\ app.task # "running" /\ app.blocked # "no" /\ app.blocked # "destroy"
        /\ ~app.flushing /\ Flushed(app, started)
        /\ Drained(app).dirty /\ Drained(app).health # "Failed"
        /\ unl' = unl /\ await' = await /\ lastVer' = lastVer /\ lastGen' = lastGen
        /\ retired' = retired /\ damaged' = damaged
    BY DEF FlushBlocked
  <1>2. app.phase = "unlocked"
    BY <1>1 DEF IInv, Types, Controller, Outside
  <1>3. /\ Drained(app) \in Controller /\ Drained(app).dirty = app.dirty
    BY <1>1, <1>2, DrainedFacts
  <1>4. Drained(app).health \in {"Ready", "WritePending", "QuarantineRequired"}
    BY <1>1, <1>3 DEF Controller
  <1>5. started.dirty = TRUE /\ started.flushing = TRUE /\ started.health = Drained(app).health
    OBVIOUS
  <1> HIDE DEF started
  <1> QED
    BY <1>1, <1>2, <1>3, <1>4, <1>5, FlushedSafe

LEMMA StartRekeySafe == IInv /\ StartRekey => IInv'
  <1> SUFFICES ASSUME IInv, StartRekey PROVE IInv'
    OBVIOUS
  <1> DEFINE d == Drained(app)
  <1>1. /\ app.phase = "unlocked" /\ app.task # "running" /\ app.blocked = "no"
        /\ acked' = DrainedAck(app) /\ save' = NoSave
        /\ unl' = unl /\ lastVer' = lastVer /\ lastGen' = lastGen
        /\ retired' = retired /\ damaged' = damaged
    BY DEF StartRekey, Unlocked
  <1>2. /\ d \in Controller /\ d.phase = "unlocked" /\ d.task = "idle"
        /\ d.vault = app.vault /\ d.prev = app.prev /\ d.mem = app.mem
        /\ d.quar = app.quar /\ d.wctr = app.wctr /\ d.wfile = app.wfile
        /\ d.blocked = app.blocked /\ d.flushing = app.flushing
        /\ d.claim = app.claim
        /\ d.health = "Failed" => ~d.healthy
        /\ d.health # "Failed" =>
              /\ d.healthy = app.healthy /\ d.dirty = app.dirty
              /\ d.quar = {} /\ app.health # "Failed"
    BY <1>1, DrainedFacts
  <1>3. PICK r \in (IF d.health = "Failed" THEN {Kept(d)} ELSE EnsureQuarantined(d)) :
          /\ app' = r.app /\ Happens(r)
          /\ await' = IF r.app.health = "Failed" THEN "none" ELSE "rekey"
    BY DEF StartRekey
  <1> HIDE DEF d
  <1>4. r = Kept(d)
    BY <1>2, <1>3, NothingToQuarantine
  <1>5. app' = d /\ dir' = dir /\ views' = views /\ await' \in {"none", "rekey"}
    BY <1>3, <1>4 DEF Kept, Happens
  <1>6. Inside /\ app \in Controller
    BY <1>1 DEF IInv, Types
  <1>7. /\ app'.flushing = FALSE /\ ~app.flushing
        /\ app'.vault.gen \in 1..lastGen /\ app'.vault.pw \in Passwords
        /\ app'.claim # "deleted" /\ app'.blocked = "no"
    BY <1>1, <1>2, <1>5, <1>6 DEF Inside, Controller
  <1> QED
    BY <1>1, <1>2, <1>5, <1>7, SettledSafe

(* The end of a session, by a lock or for a deletion.                      *)
LEMMA LeftSafe ==
    ASSUME IInv, app.phase = "unlocked", app.task # "running",
           NEW b \in {"no", "destroy"}, app' = [LockedApp EXCEPT !.blocked = b],
           dir' = dir, views' = views, save' = NoSave, unl' = unl, await' = "none",
           acked' = IF b = "destroy" THEN 0 ELSE DrainedAck(app),
           lastVer' = lastVer, lastGen' = lastGen, retired' = retired,
           damaged' \subseteq damaged
    PROVE  IInv'
  <1>1. Types
    BY DEF IInv
  <1>2. /\ app' \in Controller /\ app'.phase = "locked" /\ app'.task = "idle"
        /\ app'.blocked = b /\ app'.flushing = FALSE /\ app'.claim = "none"
    BY LockedAppFacts DEF Controller
  <1>3. /\ acked' \in 0..MaxVer
        /\ \A v \in views : View(v, lastVer, lastGen, retired, acked')
    <2>1. CASE b = "destroy"
      <3>1. \A v \in views : View(v, lastVer, lastGen, retired, 0)
        BY DEF IInv, Disk, View
      <3> QED
        BY <2>1, <3>1, BoundsAssumption
    <2>2. CASE b # "destroy"
      BY <2>2, DrainedAckFacts
    <2> QED
      BY <2>1, <2>2
  <1>4. Types'
    BY <1>1, <1>2, <1>3, LockedAppFacts DEF Types
  <1>5. Disk'
    BY <1>3 DEF Disk
  <1>6. Outside'
    BY <1>2 DEF Outside
  <1>7. Saving'
    BY <1>2, LockedAppFacts DEF Saving
  <1>8. Finding'
    BY NobodyUnlocks, IdleFinding
  <1> QED
    BY <1>2, <1>4, <1>5, <1>6, <1>7, <1>8 DEF IInv

(* A password change that was saved: what is left under other keyslots is  *)
(* shredded, and they are retired only when nothing of them is left.       *)
LEMMA RekeyedSafe ==
    ASSUME IInv, app.phase = "unlocked", app.task = "ok", app.blocked = "rekey",
           NEW S \in SUBSET Foreign(dir), NEW all \in BOOLEAN,
           all => S = Foreign(dir),
           dir' = Without(dir, S),
           views' = IF S = {} THEN views
                    ELSE IF all THEN {Without(dir, S)} ELSE views \cup {Without(dir, S)},
           retired' = IF all THEN retired \cup (1..(app.vault.gen - 1)) ELSE retired,
           save' = NoSave, acked' = DrainedAck(app), await' = await, unl' = unl,
           lastVer' = lastVer, lastGen' = lastGen, damaged' = damaged,
           app' \in Controller, app'.phase = "unlocked", app'.task = "idle",
           app'.vault = app.vault, app'.mem = app.mem, app'.wctr = app.wctr,
           app'.wfile = app.wfile, app'.quar = {}, app'.healthy, app'.health = "Ready",
           app'.dirty = FALSE, app'.blocked = "no", app'.flushing = FALSE,
           app'.claim # "deleted"
    PROVE  IInv'
  <1> DEFINE f == save.file
             e == Without(dir, S)
  <1>1. Types /\ Disk /\ Inside /\ Saving /\ dir \in Dir /\ dir \in views
    BY DEF IInv, Types
  <1>2. /\ f \in File /\ f.gen = app.vault.gen /\ views = {dir} /\ dir.main = {f}
        /\ app.wctr = f.ctr /\ save.stage = "idle" /\ app.healthy /\ Ours
    BY <1>1 DEF IInv, Saving, Types, SaveWork
  <1>3. /\ lastVer \in Nat /\ lastGen \in Nat /\ app.mem \in Nat /\ app.wctr \in Nat
        /\ app.vault.gen \in 1..lastGen
    BY <1>1, BoundsAssumption DEF Types, Controller, Inside
  <1>4. /\ acked' \in 0..MaxVer /\ app.mem >= acked' /\ acked' = f.ver
        /\ View(dir, lastVer, lastGen, retired, acked')
    BY <1>1, DrainedAckFacts
  <1>5. /\ e \in Dir /\ e.main = dir.main \ S /\ Containers(e) = Containers(dir) \ S
    BY <1>1, Unlinked
  <1> HIDE DEF e
  <1>6. f \notin S
    BY <1>2 DEF Foreign
  <1>7. f \in Containers(dir) /\ Containers(dir) \subseteq File
    BY <1>1, <1>2, FileFacts, ContainersAreFiles DEF Containers
  <1>8. Top(dir, f)
    BY <1>2, <1>7 DEF Ours, Top
  <1>9. e.main = {f} /\ f \in Containers(e) /\ Containers(e) \subseteq Containers(dir)
    BY <1>2, <1>5, <1>6, <1>7
  <1>10. View(e, lastVer, lastGen, retired, acked')
    <2>1. f.ver >= acked'
      BY <1>2, <1>4, FileFacts
    <2> QED
      BY <1>1, <1>2, <1>4, <1>5, <1>8, <1>9, <2>1, RenamedView
  <1>11. views' \subseteq {dir, e} /\ dir' = e /\ e \in views' /\ (all => views' = {e})
    <2>1. S = {} => e = dir
      BY <1>1 DEF e, Without, Dir
    <2> QED
      BY <1>2, <2>1 DEF e
  <1>12. Disk'
    <2>1. CASE ~all
      BY <1>4, <1>10, <1>11, <2>1 DEF Disk
    <2>2. CASE all
      <3>1. \A x \in Containers(e) : x.gen = app.vault.gen
        BY <1>2, <1>5, <2>2 DEF Foreign
      <3>2. Made(e, lastVer, lastGen, retired')
        <4>1. app.vault.gen \notin retired'
          BY <1>2, <1>3, <2>2 DEF Ours
        <4> QED
          BY <1>10, <3>1, <4>1 DEF View, Made
      <3>3. View(e, lastVer, lastGen, retired', acked')
        BY <1>10, <3>2 DEF View
      <3> QED
        BY <1>11, <2>2, <3>3 DEF Disk
    <2> QED
      BY <2>1, <2>2
  <1>13. retired' \subseteq 1..lastGen /\ app.vault.gen \notin retired'
    <2>1. retired \subseteq 1..lastGen /\ app.vault.gen \notin retired
      BY <1>1, <1>2 DEF Types, Ours
    <2>2. /\ 1..(app.vault.gen - 1) \subseteq 1..lastGen
          /\ app.vault.gen \notin 1..(app.vault.gen - 1)
      BY <1>3
    <2> QED
      BY <2>1, <2>2
  <1>14. Types'
    <2>1. dir' \in Dir /\ views' \subseteq Dir /\ dir' \in views'
      BY <1>1, <1>5, <1>11
    <2>2. save' \in SaveWork /\ retired' \subseteq 1..lastGen'
      BY <1>13, LockedAppFacts
    <2> QED
      BY <1>1, <1>4, <2>1, <2>2 DEF Types
  <1>15. Inside'
    BY <1>1, <1>3, <1>4 DEF Inside
  <1>16. Ours'
    <2>1. dir' = e /\ dir'.main = {f} /\ app'.wfile = {f} /\ save'.stage = "idle"
      BY <1>2, <1>9, <1>11, LockedAppFacts DEF Ours
    <2>2. \A x \in Containers(dir') : x.gen = app.vault.gen =>
             x.pw = app.vault.pw /\ x.ctr <= app.wctr
      BY <1>2, <1>9, <2>1 DEF Ours
    <2> QED
      BY <1>13, <2>1, <2>2 DEF Ours
  <1>17. Saving'
    BY LockedAppFacts DEF Saving
  <1>18. Finding'
    BY NobodyUnlocks, IdleFinding
  <1> QED
    BY <1>12, <1>14, <1>15, <1>16, <1>17, <1>18 DEF IInv

LEMMA FinishFlushSafe == IInv /\ FinishFlush => IInv'
  <1> SUFFICES ASSUME IInv, FinishFlush PROVE IInv'
    OBVIOUS
  <1> DEFINE d == Drained(app)
             ok == d.health # "Failed"
             dirty == d.dirty /\ ~(app.flushing /\ ok)
             a == [d EXCEPT !.dirty = dirty, !.blocked = "no", !.flushing = FALSE]
  <1>1. /\ app.blocked \in {"barrier", "lock", "delete", "rekey"} /\ app.task # "running"
        /\ app.flushing \/ ~ok \/ ~d.dirty
        /\ save' = NoSave /\ acked' = IF app.blocked = "delete" THEN 0 ELSE DrainedAck(app)
        /\ unl' = unl /\ lastVer' = lastVer /\ lastGen' = lastGen
    BY DEF FinishFlush
  <1>2. app.phase = "unlocked" /\ Types /\ Inside /\ app \in Controller
    BY <1>1 DEF IInv, Types, Controller, Outside
  <1>3. /\ d \in Controller /\ d.phase = "unlocked" /\ d.task = "idle"
        /\ d.vault = app.vault /\ d.prev = app.prev /\ d.mem = app.mem
        /\ d.quar = app.quar /\ d.wctr = app.wctr /\ d.wfile = app.wfile
        /\ d.blocked = app.blocked /\ d.flushing = app.flushing
        /\ d.claim = app.claim
        /\ d.health = "Failed" => ~d.healthy
        /\ d.health # "Failed" =>
              /\ d.healthy = app.healthy /\ d.dirty = app.dirty
              /\ d.quar = {} /\ app.health # "Failed" /\ app.task # "failed"
    BY <1>1, <1>2, DrainedFacts
  <1>4. a = [d EXCEPT !.dirty = @ /\ ~(app.flushing /\ ok), !.blocked = "no", !.flushing = FALSE]
    BY <1>3 DEF Controller
  <1>5. dirty \in BOOLEAN /\ (dirty /\ ok => app.dirty /\ ~app.flushing)
    BY <1>3
  <1>6. app.blocked = "barrier" =>
          app' = a /\ UNCHANGED <<dir, views, await, retired, damaged, faults>>
    BY <1>4 DEF FinishFlush
  <1>7. app.blocked = "rekey" /\ ~ok =>
          app' = RekeyUndone(a) /\ UNCHANGED <<dir, views, await, retired, damaged, faults>>
    BY <1>4 DEF FinishFlush
  <1>8. app.blocked = "rekey" /\ ok =>
          \E S \in SUBSET Foreign(dir), clean \in BOOLEAN :
             LET all == clean /\ S = Foreign(dir) IN
             /\ Happens([dir |-> Without(dir, S), bad |-> IF all THEN 0 ELSE 1,
                         views |-> IF S = {} THEN views
                                   ELSE IF all THEN {Without(dir, S)}
                                   ELSE views \cup {Without(dir, S)}])
             /\ app' = [a EXCEPT !.prev = NoSlot,
                                 !.claim = IF all THEN "changed" ELSE "residue"]
             /\ retired' = IF all THEN retired \cup (1..(a.vault.gen - 1)) ELSE retired
             /\ UNCHANGED <<await, damaged>>
    BY <1>4 DEF FinishFlush
  <1> HIDE DEF dirty, d
  <1>9. /\ a \in Controller /\ a.phase = "unlocked" /\ a.task = "idle"
        /\ a.vault = app.vault /\ a.prev = app.prev /\ a.mem = app.mem
        /\ a.quar = app.quar /\ a.wctr = app.wctr /\ a.wfile = app.wfile
        /\ a.blocked = "no" /\ a.flushing = FALSE /\ a.claim = app.claim
        /\ a.dirty = dirty /\ a.health = d.health /\ a.healthy = d.healthy
    BY <1>3, <1>5 DEF Controller
  <1> HIDE DEF a
  <1>10. /\ await \in Unlockers \cup {"none", "rekey"} /\ app.claim # "deleted"
         /\ app.vault.gen \in 1..lastGen /\ app.vault.pw \in Passwords
    BY <1>2 DEF Types, Inside
  <1>11. CASE app.blocked = "barrier"
    BY <1>1, <1>2, <1>3, <1>5, <1>6, <1>9, <1>10, <1>11, SettledSafe
  <1>12. CASE app.blocked = "lock"
    <2>1. app' = LockedApp /\ await' = "none" /\ UNCHANGED <<dir, views, retired, damaged, faults>>
      BY <1>12 DEF FinishFlush
    <2>2. app' = [LockedApp EXCEPT !.blocked = "no"]
      BY <2>1, LockedAppFacts DEF Controller
    <2> QED
      BY <1>1, <1>2, <1>12, <2>1, <2>2, LeftSafe
  <1>13. CASE app.blocked = "delete"
    <2>1. /\ app' = [LockedApp EXCEPT !.blocked = "destroy"] /\ damaged' = {}
          /\ await' = "none" /\ UNCHANGED <<dir, views, retired, faults>>
      BY <1>13 DEF FinishFlush
    <2> QED
      BY <1>1, <1>2, <1>13, <2>1, LeftSafe
  <1>14. CASE app.blocked = "rekey" /\ ~ok
    <2>1. app' = [a EXCEPT !.vault = a.prev, !.prev = NoSlot, !.claim = "notChanged"]
      BY <1>7, <1>14 DEF RekeyUndone
    <2>2. a.prev \in Slot /\ NoSlot \in Slot
      BY <1>9, BoundsAssumption DEF Controller, NoSlot, Slot
    <2>3. /\ app' \in Controller /\ app'.phase = "unlocked" /\ app'.task = "idle"
          /\ app'.vault = app.prev /\ app'.mem = app.mem
          /\ app'.wctr = app.wctr /\ app'.wfile = app.wfile
          /\ app'.blocked = "no" /\ app'.flushing = FALSE /\ app'.claim = "notChanged"
          /\ app'.health = d.health /\ app'.healthy = d.healthy
      BY <1>9, <2>1, <2>2 DEF Controller
    <2>4. app.prev.gen \in 1..lastGen /\ app.prev.pw \in Passwords
      BY <1>2, <1>14 DEF Inside
    <2> QED
      BY <1>1, <1>2, <1>3, <1>7, <1>10, <1>14, <2>3, <2>4, SettledSafe
  <1>15. CASE app.blocked = "rekey" /\ ok
    <2>1. app.dirty /\ app.flushing /\ app.task = "ok"
      BY <1>1, <1>2, <1>3, <1>15 DEF Inside, Controller
    <2>2. PICK S \in SUBSET Foreign(dir), clean \in BOOLEAN :
             LET all == clean /\ S = Foreign(dir) IN
             /\ Happens([dir |-> Without(dir, S), bad |-> IF all THEN 0 ELSE 1,
                         views |-> IF S = {} THEN views
                                   ELSE IF all THEN {Without(dir, S)}
                                   ELSE views \cup {Without(dir, S)}])
             /\ app' = [a EXCEPT !.prev = NoSlot,
                                 !.claim = IF all THEN "changed" ELSE "residue"]
             /\ retired' = IF all THEN retired \cup (1..(a.vault.gen - 1)) ELSE retired
             /\ UNCHANGED <<await, damaged>>
      BY <1>8, <1>15
    <2>3. PICK all \in BOOLEAN : all = (clean /\ S = Foreign(dir))
      OBVIOUS
    <2>4. /\ dir' = Without(dir, S)
          /\ views' = IF S = {} THEN views
                      ELSE IF all THEN {Without(dir, S)} ELSE views \cup {Without(dir, S)}
          /\ retired' = IF all THEN retired \cup (1..(app.vault.gen - 1)) ELSE retired
          /\ await' = await /\ damaged' = damaged
      BY <1>9, <2>2, <2>3 DEF Happens
    <2>5. PICK c \in {"changed", "residue"} :
            app' = [a EXCEPT !.prev = NoSlot, !.claim = c]
      BY <2>2
    <2>6. NoSlot \in Slot
      BY BoundsAssumption DEF NoSlot, Slot
    <2>7. /\ app' \in Controller /\ app'.phase = "unlocked" /\ app'.task = "idle"
          /\ app'.vault = app.vault /\ app'.mem = app.mem
          /\ app'.quar = app.quar /\ app'.wctr = app.wctr /\ app'.wfile = app.wfile
          /\ app'.blocked = "no" /\ app'.flushing = FALSE /\ app'.claim = c
          /\ app'.dirty = dirty /\ app'.health = d.health /\ app'.healthy = d.healthy
      BY <1>9, <2>5, <2>6 DEF Controller
    <2>8. dirty = FALSE /\ app.quar = {} /\ d.health = "Ready"
      <3>1. d.health = "Ready"
        BY <2>1, <1>2 DEF d, Drained, Controller
      <3> QED
        BY <1>3, <1>5, <1>15, <2>1, <3>1
    <2>9. app'.healthy
      BY <1>3, <1>15, <2>1, <2>7 DEF IInv, Saving
    <2>10. acked' = DrainedAck(app) /\ (all => S = Foreign(dir)) /\ c # "deleted"
      BY <1>1, <1>15, <2>3, <2>5
    <2> QED
      BY <1>1, <1>2, <1>15, <2>1, <2>4, <2>7, <2>8, <2>9, <2>10, RekeyedSafe
  <1> QED
    BY <1>1, <1>11, <1>12, <1>13, <1>14, <1>15

(* A step of the deletion: the directory only loses artifacts, or has them *)
(* overwritten.                                                            *)
LEMMA ShrinkingSafe ==
    ASSUME IInv, app.blocked = "destroy", app' \in Controller, app'.phase = "locked",
           app'.task = "idle", app'.blocked \in {"no", "destroy"}, app'.flushing = FALSE,
           app'.claim # "deleted",
           dir' \in views', views' \subseteq Dir,
           \A e \in views' : \E v \in views :
              /\ Containers(e) \subseteq Containers(v)
              /\ \A x, y \in e.main : x = y,
           save' = save, unl' = unl, await' = await, acked' = acked, lastVer' = lastVer,
           lastGen' = lastGen, retired' = retired, damaged' = damaged
    PROVE  IInv'
  <1>1. Types /\ Disk /\ Saving /\ app.phase = "locked" /\ Outside
    BY DEF IInv, Inside, Types, Controller
  <1>2. acked = 0 /\ app.task = "idle"
    BY <1>1 DEF Outside
  <1>3. Types'
    BY <1>1 DEF Types
  <1>4. ASSUME NEW e \in views' PROVE View(e, lastVer, lastGen, retired, acked)
    <2>1. PICK v \in views :
            Containers(e) \subseteq Containers(v) /\ \A x, y \in e.main : x = y
      BY <1>4
    <2>2. View(v, lastVer, lastGen, retired, acked)
      BY <1>1 DEF Disk
    <2>3. Sound(e) /\ Made(e, lastVer, lastGen, retired)
      BY <2>1, <2>2, FewerSound, FewerMade DEF View
    <2> QED
      BY <1>2, <2>3 DEF View
  <1>5. Disk'
    BY <1>4 DEF Disk
  <1>6. Outside'
    BY <1>2 DEF Outside
  <1>7. Saving'
    BY <1>1, <1>2 DEF Saving
  <1>8. Finding'
    BY NobodyUnlocks, IdleFinding
  <1> QED
    BY <1>3, <1>5, <1>6, <1>7, <1>8 DEF IInv

LEMMA DestroyOneSafe == IInv /\ DestroyOne => IInv'
  <1> SUFFICES ASSUME IInv, DestroyOne PROVE IInv'
    OBVIOUS
  <1> DEFINE next == DestroyCandidates(dir)
             zeroed(f) == {Zeroed(v, f) : v \in views}
  <1>1. /\ app.blocked = "destroy"
        /\ save' = save /\ unl' = unl /\ await' = await /\ acked' = acked
        /\ lastVer' = lastVer /\ lastGen' = lastGen /\ retired' = retired
        /\ damaged' = damaged
    BY DEF DestroyOne
  <1>2. /\ Types /\ Disk /\ Saving /\ app.phase = "locked" /\ Outside /\ app \in Controller
        /\ dir \in views /\ dir \in Dir /\ views \subseteq Dir
    BY <1>1 DEF IInv, Inside, Types, Controller
  <1>3. app.task = "idle" /\ app.flushing = FALSE /\ app.claim # "deleted" /\ acked = 0
    BY <1>1, <1>2 DEF Outside, Controller
  <1>4. \A v \in views : \A x, y \in v.main : x = y
    BY <1>2 DEF Disk, View, Sound
  <1>5. CASE /\ next = {}
             /\ app' = [app EXCEPT !.blocked = "no", !.claim = "deleted"]
             /\ UNCHANGED <<dir, views, faults>>
    <2>1. dir.main = {} /\ dir.temps = {} /\ dir.orphans = {}
      BY <1>5 DEF DestroyCandidates
    <2>2. dir = EmptyDir
      BY <1>2, <2>1 DEF Dir, EmptyDir
    <2>3. /\ app' \in Controller /\ app'.phase = "locked" /\ app'.blocked = "no"
          /\ app'.task = "idle" /\ app'.flushing = FALSE
      BY <1>2, <1>3, <1>5 DEF Controller
    <2>4. Types' /\ Disk' /\ Saving'
      BY <1>1, <1>2, <1>3, <1>5, <2>3 DEF Types, Disk, Saving
    <2>5. Outside'
      BY <1>5, <2>2, <2>3 DEF Outside
    <2>6. Finding'
      BY <1>1, NobodyUnlocks, IdleFinding
    <2> QED
      BY <2>3, <2>4, <2>5, <2>6 DEF IInv
  <1>6. ASSUME NEW f
        PROVE  /\ Without(dir, {f}) \in Dir
               /\ Containers(Without(dir, {f})) \subseteq Containers(dir)
               /\ \A x, y \in Without(dir, {f}).main : x = y
    BY <1>2, <1>4, Unlinked
  <1>7. ASSUME NEW f, NEW e \in zeroed(f)
        PROVE  /\ e \in Dir
               /\ \E v \in views : Containers(e) \subseteq Containers(v)
               /\ \A x, y \in e.main : x = y
    <2>1. PICK v \in views : e = Zeroed(v, f)
      BY <1>7
    <2> QED
      BY <1>2, <1>4, <2>1, Overwritten
  <1>8. ASSUME NEW f \in next, dir' = Without(dir, {f}), views' = {dir'}, UNCHANGED <<app, faults>>
        PROVE  IInv'
    <2> DEFINE e == Without(dir, {f})
    <2>1. e \in Dir /\ Containers(e) \subseteq Containers(dir) /\ \A x, y \in e.main : x = y
      BY <1>6
    <2> HIDE DEF e
    <2>2. dir' = e /\ views' = {e}
      BY <1>8 DEF e
    <2> QED
      BY <1>1, <1>2, <1>3, <1>8, <2>1, <2>2, ShrinkingSafe
  <1>9. ASSUME NEW f \in next, app' = [app EXCEPT !.blocked = "no"],
               \/ dir' = dir /\ views' = views
               \/ dir' = Zeroed(dir, f) /\ views' = zeroed(f)
               \/ dir' = Without(dir, {f}) /\ views' = zeroed(f) \cup {dir'}
        PROVE  IInv'
    <2>1. /\ app' \in Controller /\ app'.phase = "locked" /\ app'.blocked = "no"
          /\ app'.task = "idle" /\ app'.flushing = FALSE /\ app'.claim # "deleted"
      BY <1>2, <1>3, <1>9 DEF Controller
    <2>2. dir' \in views' /\ views' \subseteq Dir
      <3>1. Zeroed(dir, f) \in zeroed(f)
        BY <1>2
      <3>2. zeroed(f) \subseteq Dir
        BY <1>7
      <3>3. Without(dir, {f}) \in Dir
        BY <1>6
      <3> HIDE DEF zeroed
      <3>4. CASE dir' = dir /\ views' = views
        BY <1>2, <3>4
      <3>5. CASE dir' = Zeroed(dir, f) /\ views' = zeroed(f)
        BY <3>1, <3>2, <3>5
      <3>6. CASE dir' = Without(dir, {f}) /\ views' = zeroed(f) \cup {dir'}
        BY <3>2, <3>3, <3>6
      <3> QED
        BY <1>9, <3>4, <3>5, <3>6 DEF zeroed
    <2>3. ASSUME NEW e \in views'
          PROVE  /\ \E v \in views : Containers(e) \subseteq Containers(v)
                 /\ \A x, y \in e.main : x = y
      <3>1. e \in views \/ e \in zeroed(f) \/ e = Without(dir, {f})
        BY <1>9, <2>3
      <3> HIDE DEF zeroed
      <3>2. CASE e \in views
        BY <1>4, <3>2
      <3>3. CASE e \in zeroed(f)
        BY <1>7, <3>3
      <3>4. CASE e = Without(dir, {f})
        BY <1>2, <1>6, <3>4
      <3> QED
        BY <3>1, <3>2, <3>3, <3>4
    <2> HIDE DEF zeroed
    <2> QED
      BY <1>1, <2>1, <2>2, <2>3, ShrinkingSafe
  <1>10. \/ next = {} /\ app' = [app EXCEPT !.blocked = "no", !.claim = "deleted"]
            /\ UNCHANGED <<dir, views, faults>>
         \/ \E f \in next : dir' = Without(dir, {f}) /\ views' = {dir'} /\ UNCHANGED <<app, faults>>
         \/ \E f \in next :
             /\ \/ dir' = dir /\ views' = views
                \/ dir' = Zeroed(dir, f) /\ views' = zeroed(f)
                \/ dir' = Without(dir, {f}) /\ views' = zeroed(f) \cup {dir'}
             /\ app' = [app EXCEPT !.blocked = "no"]
    BY Zenon DEF DestroyOne
  <1> HIDE DEF next, zeroed
  <1> QED
    BY <1>5, <1>8, <1>9, <1>10

-----------------------------------------------------------------------------
(* The save thread.                                                        *)

(* While the save thread runs there is a session, and its facts.           *)
LEMMA SaveFacts ==
    ASSUME IInv, save.stage # "idle"
    PROVE  /\ Types /\ Disk /\ Inside /\ Saving /\ app.phase = "unlocked"
           /\ app.task = "running" /\ app.health # "Failed" /\ app \in Controller
           /\ dir \in Dir /\ dir \in views /\ views \subseteq Dir
           /\ save.file \in File /\ save.file.gen = app.vault.gen
           /\ save.file.pw = app.vault.pw /\ save.file.ver \in acked..app.mem
           /\ save.file.ctr = app.wctr + 1
           /\ lastVer \in Nat /\ lastGen \in Nat /\ acked \in Nat /\ app.mem \in Nat
           /\ app.wctr \in Nat
           /\ \A u \in Unlockers : unl[u].stage = "idle"
  <1>1. Types /\ Disk /\ Saving /\ app \in Controller /\ app.task = "running"
    BY DEF IInv, Types, Saving
  <1>2. app.phase = "unlocked" /\ Inside
    BY <1>1 DEF IInv, Outside, Controller
  <1>3. /\ lastVer \in Nat /\ lastGen \in Nat /\ acked \in Nat /\ app.mem \in Nat
        /\ app.wctr \in Nat /\ dir \in Dir /\ dir \in views /\ views \subseteq Dir
    BY <1>1, BoundsAssumption DEF Types, Controller
  <1>4. \A u \in Unlockers : unl[u].stage = "idle"
    BY <1>2, NobodyUnlocks
  <1> QED
    BY <1>1, <1>2, <1>3, <1>4 DEF Saving, Inside

(* A write that failed: its task is, and so is the writer once it has      *)
(* begun to write.                                                         *)
LEMMA FailedSafe ==
    ASSUME IInv, save.stage # "idle",
           NEW h \in BOOLEAN, app' = [app EXCEPT !.task = "failed", !.healthy = h],
           save' = NoSave, UnchangedBySave,
           dir' \in views', views' \subseteq views,
           h => app.healthy /\ dir' = dir /\ save.stage = "prepare"
    PROVE  IInv'
  <1>1. /\ unl' = unl /\ await' = await /\ acked' = acked /\ lastVer' = lastVer
        /\ lastGen' = lastGen /\ retired' = retired /\ damaged' = damaged
    BY DEF UnchangedBySave
  <1>2. /\ Types /\ Disk /\ Inside /\ Saving /\ app.phase = "unlocked"
        /\ app.task = "running" /\ app.health # "Failed" /\ app \in Controller
        /\ lastVer \in Nat /\ lastGen \in Nat /\ app.wctr \in Nat
        /\ \A u \in Unlockers : unl[u].stage = "idle"
    BY SaveFacts
  <1>3. /\ app' \in Controller /\ app'.phase = "unlocked" /\ app'.task = "failed"
        /\ app'.vault = app.vault /\ app'.prev = app.prev /\ app'.mem = app.mem
        /\ app'.quar = app.quar /\ app'.wctr = app.wctr /\ app'.wfile = app.wfile
        /\ app'.blocked = app.blocked /\ app'.flushing = app.flushing
        /\ app'.claim = app.claim /\ app'.dirty = app.dirty /\ app'.health = app.health
        /\ app'.healthy = h
    BY <1>2 DEF Controller
  <1>4. Types'
    BY <1>1, <1>2, <1>3, LockedAppFacts DEF Types
  <1>5. Disk'
    BY <1>1, <1>2 DEF Disk
  <1>6. Inside'
    <2>1. ASSUME app.dirty, ~app.flushing PROVE app.wctr + 1 <= lastVer + lastGen
      BY <1>2, <2>1 DEF Inside
    <2> QED
      BY <1>1, <1>2, <1>3, <2>1 DEF Inside
  <1>7. ASSUME app'.healthy PROVE Ours'
    <2>1. Ours /\ dir' = dir /\ save.stage = "prepare" /\ save'.stage = "idle"
      BY <1>2, <1>3, <1>7, LockedAppFacts DEF IInv
    <2> QED
      BY <1>1, <1>3, <2>1 DEF Ours
  <1>8. Saving'
    BY <1>3, LockedAppFacts DEF Saving
  <1>9. Finding'
    BY <1>1, <1>2, IdleFinding
  <1> QED
    BY <1>3, <1>4, <1>5, <1>6, <1>7, <1>8, <1>9 DEF IInv

LEMMA PrepareSaveSafe == IInv /\ PrepareSave => IInv'
  <1> SUFFICES ASSUME IInv, PrepareSave PROVE IInv'
    OBVIOUS
  <1>1. save.stage = "prepare" /\ dir' = dir /\ views' = views /\ UnchangedBySave
    BY DEF PrepareSave
  <1>2. /\ Types /\ Disk /\ Inside /\ Saving /\ app.phase = "unlocked"
        /\ app.task = "running" /\ app \in Controller /\ dir \in views
        /\ save.file \in File /\ \A u \in Unlockers : unl[u].stage = "idle"
    BY <1>1, SaveFacts
  <1>3. CASE Prepared
    <2>1. save' = [save EXCEPT !.stage = "start"] /\ app' = app /\ app.healthy
      BY <1>3 DEF PrepareSave, Prepared
    <2>2. save' \in SaveWork /\ save'.stage = "start" /\ save'.file = save.file
      BY <1>2, <2>1 DEF Types, SaveWork
    <2>3. /\ unl' = unl /\ await' = await /\ acked' = acked /\ lastVer' = lastVer
          /\ lastGen' = lastGen /\ retired' = retired /\ damaged' = damaged
      BY <1>1 DEF UnchangedBySave
    <2>4. Types' /\ Disk' /\ Inside'
      BY <1>1, <1>2, <2>1, <2>2, <2>3 DEF Types, Disk, Inside
    <2>5. Ours'
      BY <1>1, <1>2, <2>1, <2>2, <2>3 DEF IInv, Ours
    <2>6. Saving'
      BY <1>1, <1>2, <2>1, <2>2, <2>3 DEF Saving
    <2>7. Finding'
      BY <1>2, <2>3, IdleFinding
    <2> QED
      BY <1>2, <2>1, <2>4, <2>5, <2>6, <2>7 DEF IInv
  <1>4. CASE ~Prepared
    <2>1. save' = NoSave /\ app' = [app EXCEPT !.task = "failed"]
      BY <1>4 DEF PrepareSave
    <2>2. PICK h \in BOOLEAN : h = app.healthy
      BY <1>2 DEF Controller
    <2>3. app' = [app EXCEPT !.task = "failed", !.healthy = h]
      BY <1>2, <2>1, <2>2 DEF Controller
    <2> QED
      BY <1>1, <1>2, <2>1, <2>2, <2>3, FailedSafe
  <1> QED
    BY <1>3, <1>4

LEMMA WriteSaveTempSafe == IInv /\ WriteSaveTemp => IInv'
  <1> SUFFICES ASSUME IInv, WriteSaveTemp PROVE IInv'
    OBVIOUS
  <1> DEFINE f == save.file
             e == [dir EXCEPT !.temps = @ \cup {f}]
  <1>1. /\ save.stage = "start" /\ save' = [save EXCEPT !.stage = "written"] /\ app' = app
        /\ dir' = e /\ views' = views \cup {e}
        /\ unl' = unl /\ await' = await /\ acked' = acked /\ lastVer' = lastVer
        /\ lastGen' = lastGen /\ retired' = retired /\ damaged' = damaged
    BY DEF WriteSaveTemp, UnchangedBySave, TempWritten, SetDir
  <1>2. /\ Types /\ Disk /\ Inside /\ Saving /\ app.phase = "unlocked"
        /\ app.task = "running" /\ app \in Controller
        /\ dir \in Dir /\ dir \in views /\ views \subseteq Dir
        /\ f \in File /\ f.gen = app.vault.gen /\ f.pw = app.vault.pw
        /\ f.ver \in acked..app.mem /\ f.ctr = app.wctr + 1
        /\ lastVer \in Nat /\ lastGen \in Nat /\ acked \in Nat /\ app.mem \in Nat
        /\ app.wctr \in Nat /\ \A u \in Unlockers : unl[u].stage = "idle"
    BY <1>1, SaveFacts
  <1>3. app.healthy /\ Ours
    BY <1>1, <1>2 DEF IInv, Saving
  <1>4. /\ e \in Dir /\ e.main = dir.main /\ e.orphans = dir.orphans
        /\ Containers(e) = Containers(dir) \cup {f}
    BY <1>2, TempAdded
  <1>5. \A g \in Containers(dir) : g.gen = f.gen => g.pw = f.pw /\ g.ctr <= app.wctr
    BY <1>1, <1>2, <1>3 DEF Ours
  <1>6. [e EXCEPT !.temps = @ \ {f}] = dir
    <2>1. f \notin dir.temps
      <3>1. f \notin Containers(dir)
        BY <1>2, <1>5
      <3> QED
        BY <1>2, <3>1, FileFacts DEF Containers
    <2>2. (dir.temps \cup {f}) \ {f} = dir.temps
      BY <2>1
    <2> QED
      BY <1>2, <2>2 DEF Dir
  <1> HIDE DEF e
  <1>7. View(e, lastVer, lastGen, retired, acked)
    <2>1. View(dir, lastVer, lastGen, retired, acked)
      BY <1>2 DEF Disk
    <2>2. \A g \in Containers(dir) : g.gen = f.gen => g.pw = f.pw /\ g.ctr < f.ctr
      <3>1. \A g \in Containers(dir) : g.ctr \in Nat
        BY <1>2, ContainersAreFiles, FileFacts
      <3> QED
        BY <1>2, <1>5, <3>1
    <2>3. f.gen \in (1..lastGen) \ retired
      BY <1>2, <1>3 DEF Inside, Ours
    <2>4. f.ver <= lastVer /\ f.ctr <= lastVer + lastGen /\ f.ver >= acked
      BY <1>2, FileFacts DEF Inside
    <2> QED
      BY <1>2, <1>4, <2>1, <2>2, <2>3, <2>4, AddedView
  <1>8. save' \in SaveWork /\ save'.stage = "written" /\ save'.file = f
    BY <1>1, <1>2 DEF Types, SaveWork
  <1>9. Types'
    BY <1>1, <1>2, <1>4, <1>8 DEF Types
  <1>10. Disk'
    BY <1>1, <1>2, <1>7 DEF Disk
  <1>11. Inside'
    BY <1>1, <1>2 DEF Inside
  <1>12. Ours'
    BY <1>1, <1>2, <1>3, <1>4, <1>5, <1>8 DEF Ours
  <1>13. Saving'
    <2>1. [dir' EXCEPT !.temps = @ \ {save'.file}] \in views'
      <3>1. [dir' EXCEPT !.temps = @ \ {save'.file}] = [e EXCEPT !.temps = @ \ {f}]
        BY <1>1, <1>8
      <3>2. dir \in views'
        BY <1>1, <1>2
      <3> QED
        BY <1>6, <3>1, <3>2
    <2> QED
      BY <1>1, <1>2, <1>3, <1>8, <2>1 DEF Saving
  <1>14. Finding'
    BY <1>1, <1>2, IdleFinding
  <1> QED
    BY <1>1, <1>2, <1>9, <1>10, <1>11, <1>12, <1>13, <1>14 DEF IInv

LEMMA RenameSaveSafe == IInv /\ RenameSave => IInv'
  <1> SUFFICES ASSUME IInv, RenameSave PROVE IInv'
    OBVIOUS
  <1> DEFINE f == save.file
             e == [dir EXCEPT !.main = {f}, !.temps = IF FALSE THEN @ ELSE @ \ {f}]
  <1>1. /\ save.stage = "written" /\ unl' = unl /\ await' = await /\ acked' = acked
        /\ lastVer' = lastVer /\ lastGen' = lastGen /\ retired' = retired
        /\ damaged' = damaged
    BY DEF RenameSave, UnchangedBySave
  <1>2. /\ Types /\ Disk /\ Inside /\ Saving /\ app.phase = "unlocked"
        /\ app.task = "running" /\ app \in Controller
        /\ dir \in Dir /\ dir \in views /\ views \subseteq Dir
        /\ f \in File /\ f.gen = app.vault.gen /\ f.pw = app.vault.pw
        /\ f.ver \in acked..app.mem /\ f.ctr = app.wctr + 1
        /\ lastVer \in Nat /\ lastGen \in Nat /\ acked \in Nat /\ app.mem \in Nat
        /\ app.wctr \in Nat /\ \A u \in Unlockers : unl[u].stage = "idle"
    BY <1>1, SaveFacts
  <1>3. app.healthy /\ Ours /\ dir.main = app.wfile
    BY <1>1, <1>2 DEF IInv, Saving, Ours
  <1>4. /\ dir' = e /\ views' = views \cup {e}
        /\ save' = [save EXCEPT !.stage = "renamed"] /\ app' = app
    BY <1>3 DEF RenameSave, MainReplaced, SetDir
  <1>5. /\ e \in Dir /\ e.main = {f} /\ f \in Containers(e)
        /\ Containers(e) \subseteq Containers(dir) \cup {f}
    BY <1>2, MainRenamed
  <1> HIDE DEF e
  <1>6. \A g \in Containers(dir) : g.gen = f.gen =>
           g.pw = f.pw /\ (g.ctr <= app.wctr \/ g = f)
    BY <1>2, <1>3 DEF Ours
  <1>7. View(e, lastVer, lastGen, retired, acked)
    <2> DEFINE g == [dir EXCEPT !.temps = @ \cup {f}]
    <2>1. g \in Dir /\ g.main = dir.main /\ Containers(g) = Containers(dir) \cup {f}
      BY <1>2, TempAdded
    <2> HIDE DEF g
    <2>2. View(dir, lastVer, lastGen, retired, acked)
      BY <1>2 DEF Disk
    <2>3. \A x \in Containers(dir) : x.ctr \in Nat
      BY <1>2, ContainersAreFiles, FileFacts
    <2>4. f.gen \in (1..lastGen) \ retired
      BY <1>2, <1>3 DEF Inside, Ours
    <2>5. f.ver <= lastVer /\ f.ctr <= lastVer + lastGen /\ f.ver >= acked
      BY <1>2, FileFacts DEF Inside
    <2>6. View(g, lastVer, lastGen, retired, acked)
      <3>1. CASE f \in Containers(dir)
        BY <2>1, <2>2, <3>1, SameView
      <3>2. CASE f \notin Containers(dir)
        <4>1. \A x \in Containers(dir) : x.gen = f.gen => x.pw = f.pw /\ x.ctr < f.ctr
          BY <1>2, <1>6, <2>3, <3>2
        <4> QED
          BY <1>2, <2>1, <2>2, <2>4, <2>5, <4>1, AddedView
      <3> QED
        BY <3>1, <3>2
    <2>7. Top(g, f)
      <3>1. ASSUME NEW x \in Containers(g), x.gen = f.gen PROVE x.ctr <= f.ctr
        BY <1>2, <1>6, <2>1, <2>3, <3>1
      <3> QED
        BY <2>1, <3>1 DEF Top
    <2> QED
      BY <1>2, <1>5, <2>1, <2>5, <2>6, <2>7, RenamedView
  <1>8. save' \in SaveWork /\ save'.stage = "renamed" /\ save'.file = f
    BY <1>2, <1>4 DEF Types, SaveWork
  <1>9. Types'
    BY <1>1, <1>2, <1>4, <1>5, <1>8 DEF Types
  <1>10. Disk'
    BY <1>1, <1>2, <1>4, <1>7 DEF Disk
  <1>11. Inside'
    BY <1>1, <1>2, <1>4 DEF Inside
  <1>12. Ours'
    <2>1. \A x \in Containers(e) : x.gen = f.gen => x.pw = f.pw /\ (x.ctr <= app.wctr \/ x = f)
      BY <1>5, <1>6
    <2> QED
      BY <1>1, <1>2, <1>3, <1>4, <1>5, <1>8, <2>1 DEF Ours
  <1>13. Saving'
    BY <1>1, <1>2, <1>3, <1>4, <1>8 DEF Saving
  <1>14. Finding'
    BY <1>1, <1>2, IdleFinding
  <1> QED
    BY <1>1, <1>2, <1>4, <1>9, <1>10, <1>11, <1>12, <1>13, <1>14 DEF IInv

LEMMA SyncSaveSafe == IInv /\ SyncSave => IInv'
  <1> SUFFICES ASSUME IInv, SyncSave PROVE IInv'
    OBVIOUS
  <1> DEFINE f == save.file
  <1>1. /\ save.stage = "renamed" /\ views' = {dir} /\ dir' = dir
        /\ save' = [save EXCEPT !.stage = "idle"]
        /\ unl' = unl /\ await' = await /\ acked' = acked
        /\ lastVer' = lastVer /\ lastGen' = lastGen /\ retired' = retired
        /\ damaged' = damaged
    BY DEF SyncSave, DirSynced, UnchangedBySave
  <1>2. /\ Types /\ Disk /\ Inside /\ Saving /\ app.phase = "unlocked"
        /\ app.task = "running" /\ app \in Controller /\ app.health # "Failed"
        /\ dir \in Dir /\ dir \in views /\ views \subseteq Dir
        /\ f \in File /\ f.gen = app.vault.gen /\ f.pw = app.vault.pw
        /\ f.ver \in acked..app.mem /\ f.ctr = app.wctr + 1
        /\ lastVer \in Nat /\ lastGen \in Nat /\ acked \in Nat /\ app.mem \in Nat
        /\ app.wctr \in Nat /\ \A u \in Unlockers : unl[u].stage = "idle"
    BY <1>1, SaveFacts
  <1>3. app.healthy /\ Ours /\ dir.main = {f}
    BY <1>1, <1>2 DEF IInv, Saving, Ours
  <1>4. app' = [app EXCEPT !.task = "ok", !.wctr = f.ctr, !.wfile = {f}]
    BY <1>3 DEF SyncSave, Committed
  <1>5. f.ctr \in 0..(MaxVer + MaxGen) /\ {f} \in SUBSET File
    BY <1>2, FileFacts, BoundsAssumption
  <1>6. /\ app' \in Controller /\ app'.phase = "unlocked" /\ app'.task = "ok"
        /\ app'.vault = app.vault /\ app'.prev = app.prev /\ app'.mem = app.mem
        /\ app'.quar = app.quar /\ app'.wctr = f.ctr /\ app'.wfile = {f}
        /\ app'.blocked = app.blocked /\ app'.flushing = app.flushing
        /\ app'.claim = app.claim /\ app'.dirty = app.dirty /\ app'.health = app.health
        /\ app'.healthy = app.healthy
    BY <1>2, <1>4, <1>5 DEF Controller
  <1>7. save' \in SaveWork /\ save'.stage = "idle" /\ save'.file = f
    BY <1>1, <1>2 DEF Types, SaveWork
  <1>8. Types'
    BY <1>1, <1>2, <1>6, <1>7 DEF Types
  <1>9. Disk'
    BY <1>1, <1>2 DEF Disk
  <1>10. Inside'
    <2>1. app'.wctr <= lastVer + lastGen
      BY <1>2, <1>6 DEF Inside
    <2>2. ASSUME app.dirty, ~app.flushing PROVE app'.wctr + 1 <= lastVer + lastGen
      <3>1. app.wctr + 1 + 1 <= lastVer + lastGen
        BY <1>2, <2>2 DEF Inside
      <3> QED
        BY <1>2, <1>6, <3>1
    <2>3. ~(await = "rekey" /\ app.blocked = "no")
      BY <1>2 DEF Inside
    <2> QED
      BY <1>1, <1>2, <1>5, <1>6, <2>1, <2>2, <2>3 DEF Inside
  <1>11. Ours'
    <2>1. ASSUME NEW x \in Containers(dir), x.gen = app.vault.gen
          PROVE  x.pw = app.vault.pw /\ x.ctr <= f.ctr
      <3>1. x.ctr \in Nat /\ x.pw = app.vault.pw /\ (x.ctr <= app.wctr \/ x = f)
        BY <1>2, <1>3, <2>1, ContainersAreFiles, FileFacts DEF Ours
      <3> QED
        BY <1>2, <3>1
    <2> QED
      BY <1>1, <1>3, <1>6, <1>7, <2>1 DEF Ours
  <1>12. Saving'
    BY <1>1, <1>2, <1>3, <1>6, <1>7 DEF Saving
  <1>13. Finding'
    BY <1>1, <1>2, IdleFinding
  <1> QED
    BY <1>6, <1>8, <1>9, <1>10, <1>11, <1>12, <1>13 DEF IInv

LEMMA FailSaveSafe == IInv /\ FailSave => IInv'
  <1> SUFFICES ASSUME IInv, FailSave PROVE IInv'
    OBVIOUS
  <1>1. /\ save.stage \in {"start", "written", "renamed"} /\ UnchangedBySave
        /\ save' = NoSave /\ app' = [app EXCEPT !.task = "failed", !.healthy = FALSE]
    BY DEF FailSave, Poisoned
  <1>2. /\ Types /\ Saving /\ dir \in views
    BY DEF IInv, Types
  <1>3. dir' \in views' /\ views' \subseteq views
    <2>1. CASE save.stage = "written"
      <3> DEFINE e == [dir EXCEPT !.temps = @ \ {save.file}]
      <3>1. e \in views
        BY <1>2, <2>1 DEF Saving
      <3>2. \/ dir' = dir /\ views' = views
            \/ dir' = e /\ views' = views \cup {e}
        BY <2>1 DEF FailSave, TempDropped, SetDir
      <3> QED
        BY <1>2, <3>1, <3>2
    <2>2. CASE save.stage # "written"
      BY <1>2, <2>2 DEF FailSave
    <2> QED
      BY <2>1, <2>2
  <1> QED
    BY <1>1, <1>3, FailedSafe

-----------------------------------------------------------------------------
(* The unlock threads.  From here on only one of them may be at work: with *)
(* two, a promotion of what one has read may overtake the other's session  *)
(* (run stale_promotion).                                                  *)

OneUnlockThread == \A u, v \in Unlockers : u = v

LEMMA UnlockFacts ==
    ASSUME IInv, NEW u \in Unlockers, unl[u].stage # "idle"
    PROVE  /\ app.phase = "locked" /\ app.blocked = "no" /\ dir # EmptyDir
           /\ dir \in Dir /\ dir \in views /\ views \subseteq Dir
           /\ unl[u] \in UnlockWork
           /\ \A v \in views : View(v, lastVer, lastGen, retired, acked)
           /\ await \in Unlockers \cup {"none", "rekey"}
           /\ unl[u].stage \in {"start", "written", "renamed", "own", "opened"} =>
                 Holds(u) /\ unl[u].file \in File
  <1>1. /\ app.phase = "locked" /\ app.blocked = "no" /\ dir # EmptyDir
        /\ unl[u].stage \in {"start", "written", "renamed", "own", "opened"} => Holds(u)
    BY DEF IInv, Finding
  <1>2. /\ dir \in Dir /\ dir \in views /\ views \subseteq Dir /\ unl[u] \in UnlockWork
        /\ await \in Unlockers \cup {"none", "rekey"}
        /\ \A v \in views : View(v, lastVer, lastGen, retired, acked)
    BY DEF IInv, Types, Disk
  <1>3. Holds(u) => unl[u].file \in File
    BY <1>2, ContainersAreFiles DEF Holds, Top
  <1> QED
    BY <1>1, <1>2, <1>3

(* A step of the one unlock thread, before its answer is delivered.        *)
LEMMA ThreadSafe ==
    ASSUME OneUnlockThread, IInv, NEW u \in Unlockers,
           app.phase = "locked", app.blocked = "no", dir # EmptyDir,
           NEW r \in UnlockWork, unl' = [unl EXCEPT ![u] = r], app' = app,
           UnchangedByUnlock, await' \in Unlockers \cup {"none", "rekey"},
           dir' \in views', views' \subseteq Dir, dir' # EmptyDir,
           \A v \in views' : View(v, lastVer, lastGen, retired, acked),
           r.stage \in {"start", "written", "renamed", "own", "opened"} =>
              /\ r.file.ver >= acked /\ Top(dir', r.file)
              /\ \A m \in dir'.main : m # Torn /\ m.gen = r.file.gen
              /\ r.stage \in {"start", "written"} /\ ~r.keep => r.file \in dir'.orphans
              /\ r.stage \in {"renamed", "own", "opened"} => dir'.main = {r.file}
    PROVE  IInv'
  <1>1. Types /\ Disk /\ Saving /\ Outside
    BY DEF IInv
  <1>2. /\ save' = save /\ acked' = acked /\ lastVer' = lastVer /\ lastGen' = lastGen
        /\ retired' = retired /\ damaged' = damaged
    BY DEF UnchangedByUnlock
  <1>3. unl' \in [Unlockers -> UnlockWork] /\ unl'[u] = r
    BY <1>1 DEF Types
  <1>4. Types'
    BY <1>1, <1>2, <1>3 DEF Types
  <1>5. Disk'
    BY <1>2 DEF Disk
  <1>6. Outside'
    BY <1>1, <1>2 DEF Outside
  <1>7. Saving'
    BY <1>1, <1>2 DEF Saving, Outside
  <1>8. Finding'
    <2>1. \A v \in Unlockers : unl'[v] = r
      BY <1>3 DEF OneUnlockThread
    <2> QED
      BY <1>2, <2>1 DEF Finding, Holds
  <1> QED
    BY <1>4, <1>5, <1>6, <1>7, <1>8 DEF IInv

LEMMA SpawnUnlockSafe ==
    ASSUME OneUnlockThread, IInv, NEW u \in Unlockers, SpawnUnlock(u)
    PROVE  IInv'
  <1>1. PICK pw \in Passwords, act \in {"unlock", "delete"} :
          unl' = [unl EXCEPT ![u] = [IdleUnlock EXCEPT !.stage = "read", !.pw = pw, !.act = act]]
    BY DEF SpawnUnlock, SetUnl
  <1> DEFINE r == [IdleUnlock EXCEPT !.stage = "read", !.pw = pw, !.act = act]
  <1>2. r \in UnlockWork /\ r.stage = "read"
    BY LockedAppFacts DEF UnlockWork
  <1>3. unl' = [unl EXCEPT ![u] = r]
    BY <1>1
  <1> HIDE DEF r
  <1>4. /\ app.phase = "locked" /\ app.blocked = "no" /\ Listed(dir) /\ await' = u
        /\ dir' = dir /\ views' = views /\ app' = app /\ UnchangedByUnlock
    BY DEF SpawnUnlock
  <1>5. dir # EmptyDir
    <2>1. ~Listed(EmptyDir)
      BY FileFacts DEF Listed, EmptyDir
    <2> QED
      BY <1>4, <2>1
  <1>6. /\ dir \in views /\ views \subseteq Dir
        /\ \A v \in views : View(v, lastVer, lastGen, retired, acked)
    BY DEF IInv, Types, Disk
  <1> QED
    BY <1>2, <1>3, <1>4, <1>5, <1>6, ThreadSafe

LEMMA ReadCandidatesSafe ==
    ASSUME OneUnlockThread, IInv, NEW u \in Unlockers, ReadCandidates(u)
    PROVE  IInv'
  <1>1. /\ unl[u].stage = "read" /\ dir' = dir /\ views' = views /\ app' = app
        /\ await' = await /\ UnchangedByUnlock
    BY DEF ReadCandidates
  <1>2. /\ app.phase = "locked" /\ app.blocked = "no" /\ dir # EmptyDir
        /\ dir \in Dir /\ dir \in views /\ views \subseteq Dir
        /\ unl[u] \in UnlockWork
        /\ \A v \in views : View(v, lastVer, lastGen, retired, acked)
        /\ await \in Unlockers \cup {"none", "rekey"}
    BY <1>1, UnlockFacts
  <1>3. CASE unl' = [unl EXCEPT ![u] = [unl[u] EXCEPT !.stage = "refused"]]
    <2> DEFINE r == [unl[u] EXCEPT !.stage = "refused"]
    <2>1. r \in UnlockWork /\ r.stage = "refused"
      BY <1>2 DEF UnlockWork
    <2>2. unl' = [unl EXCEPT ![u] = r]
      BY <1>3
    <2> HIDE DEF r
    <2> QED
      BY <1>1, <1>2, <2>1, <2>2, ThreadSafe
  <1>4. ASSUME NEW f \in Selected(dir, unl[u].pw),
               unl' = [unl EXCEPT ![u] = [unl[u] EXCEPT
                         !.stage = IF dir.main = {f} THEN "own" ELSE "start",
                         !.file = f, !.keep = dir.main # {f} /\ f \in dir.temps]]
        PROVE  IInv'
    <2> DEFINE st == IF dir.main = {f} THEN "own" ELSE "start"
               k == dir.main # {f} /\ f \in dir.temps
               r == [unl[u] EXCEPT !.stage = st, !.file = f, !.keep = k]
    <2>1. View(dir, lastVer, lastGen, retired, acked)
      BY <1>2
    <2>2. f \in File /\ Top(dir, f) /\ \A m \in dir.main : m # Torn /\ m.gen = f.gen
      BY <1>2, <2>1, SelectedTop DEF View
    <2>3. f.ver >= acked
      <3>1. CASE acked > 0
        BY <1>2, <2>1, <2>2, <3>1, SelectedIsNew DEF View
      <3>2. CASE ~(acked > 0)
        <4>1. acked \in Nat /\ f.ver \in Nat
          BY <2>2, FileFacts, BoundsAssumption DEF IInv, Types
        <4> QED
          BY <3>2, <4>1
      <3> QED
        BY <3>1, <3>2
    <2>4. dir.main # {f} /\ f \notin dir.temps => f \in dir.orphans
      <3>1. f \in dir.main => dir.main = {f}
        BY <2>1 DEF View, Sound
      <3> QED
        BY <2>2, <3>1 DEF Top, Containers
    <2>5. st \in {"own", "start"} /\ k \in BOOLEAN
      OBVIOUS
    <2>6. st = "own" => dir.main = {f}
      OBVIOUS
    <2>7. st = "start" /\ ~k => f \in dir.orphans
      BY <2>4
    <2>8. unl' = [unl EXCEPT ![u] = r]
      BY <1>4
    <2> HIDE DEF st, k
    <2>9. r \in UnlockWork /\ r.stage = st /\ r.file = f /\ r.keep = k
      BY <1>2, <2>2, <2>5 DEF UnlockWork
    <2> HIDE DEF r
    <2> QED
      BY <1>1, <1>2, <2>2, <2>3, <2>5, <2>6, <2>7, <2>8, <2>9, ThreadSafe
  <1> QED
    BY <1>3, <1>4 DEF ReadCandidates, SetUnl

LEMMA PromoteSafe ==
    ASSUME OneUnlockThread, IInv, NEW u \in Unlockers, Promote(u)
    PROVE  IInv'
  <1> DEFINE f == unl[u].file
             keep == unl[u].keep
             to(st) == [unl[u] EXCEPT !.stage = st]
  <1>1. /\ unl[u].stage \in {"start", "written", "renamed"} /\ app' = app /\ await' = await
        /\ UnchangedByUnlock
    BY DEF Promote
  <1>2. /\ app.phase = "locked" /\ app.blocked = "no" /\ dir # EmptyDir
        /\ dir \in Dir /\ dir \in views /\ views \subseteq Dir
        /\ unl[u] \in UnlockWork
        /\ \A v \in views : View(v, lastVer, lastGen, retired, acked)
        /\ await \in Unlockers \cup {"none", "rekey"}
        /\ Holds(u) /\ f \in File
    BY <1>1, UnlockFacts
  <1>3. /\ f.ver >= acked /\ Top(dir, f) /\ f \in Containers(dir) /\ keep \in BOOLEAN
        /\ \A m \in dir.main : m # Torn /\ m.gen = f.gen
        /\ unl[u].stage \in {"start", "written"} /\ ~keep => f \in dir.orphans
        /\ unl[u].stage = "renamed" => dir.main = {f}
    BY <1>2 DEF Holds, Top, UnlockWork
  <1>4. ASSUME NEW st \in {"refused", "written", "renamed", "own"}
        PROVE  /\ to(st) \in UnlockWork /\ to(st).stage = st /\ to(st).file = f
               /\ to(st).keep = keep
    BY <1>2 DEF UnlockWork
  <1> HIDE DEF f, keep
  <1>5. ASSUME NEW e \in Dir, Containers(e) # {} PROVE e # EmptyDir
    BY <1>5, FileFacts
  <1>6. CASE unl[u].stage = "start" /\ TempWritten(f) /\ SetUnl(u, to("written"))
    <2> DEFINE e == [dir EXCEPT !.temps = @ \cup {f}]
    <2>1. /\ e \in Dir /\ e.main = dir.main /\ e.orphans = dir.orphans
          /\ Containers(e) = Containers(dir) \cup {f}
      BY <1>2, TempAdded
    <2>2. dir' = e /\ views' = views \cup {e} /\ unl' = [unl EXCEPT ![u] = to("written")]
      BY <1>6 DEF TempWritten, SetDir, SetUnl
    <2> HIDE DEF e
    <2>3. Containers(e) = Containers(dir)
      BY <1>3, <2>1
    <2>4. View(e, lastVer, lastGen, retired, acked) /\ Top(e, f)
      BY <1>2, <1>3, <2>1, <2>3, SameView DEF Top
    <2>5. e # EmptyDir
      BY <1>3, <1>5, <2>1, <2>3
    <2>6. PICK r \in UnlockWork : /\ r = to("written") /\ r.stage = "written" /\ r.file = f
                                  /\ r.keep = keep
      BY <1>4
    <2> HIDE DEF to
    <2>7. unl' = [unl EXCEPT ![u] = r]
      BY <2>2, <2>6
    <2>8. views' \subseteq Dir /\ \A v \in views' : View(v, lastVer, lastGen, retired, acked)
      BY <1>2, <2>1, <2>2, <2>4
    <2>9. /\ r.file.ver >= acked /\ Top(dir', r.file)
          /\ \A m \in dir'.main : m # Torn /\ m.gen = r.file.gen
          /\ ~r.keep => r.file \in dir'.orphans
      BY <1>3, <1>6, <2>1, <2>2, <2>4, <2>6
    <2> QED
      BY <1>1, <1>2, <2>2, <2>5, <2>6, <2>7, <2>8, <2>9, ThreadSafe
  <1>7. CASE unl[u].stage = "written" /\ MainReplaced(f, keep) /\ SetUnl(u, to("renamed"))
    <2> DEFINE e == [dir EXCEPT !.main = {f}, !.temps = IF keep THEN @ ELSE @ \ {f}]
    <2>1. /\ e \in Dir /\ e.main = {f} /\ f \in Containers(e)
          /\ Containers(e) \subseteq Containers(dir) \cup {f}
      <3>1. PICK k \in BOOLEAN : k = keep
        BY <1>3
      <3>2. e = [dir EXCEPT !.main = {f}, !.temps = IF k THEN @ ELSE @ \ {f}]
        BY <3>1
      <3> QED
        BY <1>2, <3>2, MainRenamed
    <2>2. dir' = e /\ views' = views \cup {e} /\ unl' = [unl EXCEPT ![u] = to("renamed")]
      BY <1>7 DEF MainReplaced, SetDir, SetUnl
    <2> HIDE DEF e
    <2>3. Containers(e) \subseteq Containers(dir) /\ Top(e, f)
      BY <1>3, <2>1 DEF Top
    <2>4. View(e, lastVer, lastGen, retired, acked)
      BY <1>2, <1>3, <2>1, <2>3, RenamedView
    <2>5. e # EmptyDir
      BY <1>5, <2>1
    <2>6. PICK r \in UnlockWork : /\ r = to("renamed") /\ r.stage = "renamed" /\ r.file = f
                                  /\ r.keep = keep
      BY <1>4
    <2> HIDE DEF to
    <2>7. unl' = [unl EXCEPT ![u] = r]
      BY <2>2, <2>6
    <2>8. views' \subseteq Dir /\ \A v \in views' : View(v, lastVer, lastGen, retired, acked)
      BY <1>2, <2>1, <2>2, <2>4
    <2>9. /\ r.file.ver >= acked /\ Top(dir', r.file) /\ dir'.main = {r.file}
          /\ \A m \in dir'.main : m # Torn /\ m.gen = r.file.gen
      BY <1>2, <1>3, <2>1, <2>2, <2>3, <2>6, FileFacts
    <2> QED
      BY <1>1, <1>2, <2>2, <2>5, <2>6, <2>7, <2>8, <2>9, ThreadSafe
  <1>8. CASE unl[u].stage = "renamed" /\ DirSynced /\ SetUnl(u, to("own"))
    <2>1. dir' = dir /\ views' = {dir} /\ unl' = [unl EXCEPT ![u] = to("own")]
      BY <1>8 DEF DirSynced, SetUnl
    <2>2. PICK r \in UnlockWork : /\ r = to("own") /\ r.stage = "own" /\ r.file = f
                                  /\ r.keep = keep
      BY <1>4
    <2> HIDE DEF to
    <2>3. unl' = [unl EXCEPT ![u] = r]
      BY <2>1, <2>2
    <2>4. /\ r.file.ver >= acked /\ Top(dir', r.file) /\ dir'.main = {r.file}
          /\ \A m \in dir'.main : m # Torn /\ m.gen = r.file.gen
      BY <1>3, <1>8, <2>1, <2>2
    <2>5. /\ dir' \in views' /\ views' \subseteq Dir /\ dir' # EmptyDir
          /\ \A v \in views' : View(v, lastVer, lastGen, retired, acked)
      BY <1>2, <2>1
    <2> QED
      BY <1>1, <1>2, <2>2, <2>3, <2>4, <2>5, ThreadSafe
  <1>9. ASSUME SetUnl(u, to("refused")), dir' \in views', views' \subseteq Dir, dir' # EmptyDir,
               \A v \in views' : View(v, lastVer, lastGen, retired, acked)
        PROVE  IInv'
    <2>1. PICK r \in UnlockWork : r = to("refused") /\ r.stage = "refused"
      BY <1>4
    <2>2. unl' = [unl EXCEPT ![u] = to("refused")]
      BY <1>9 DEF SetUnl
    <2> HIDE DEF to
    <2>3. unl' = [unl EXCEPT ![u] = r]
      BY <2>1, <2>2
    <2> QED
      BY <1>1, <1>2, <1>9, <2>1, <2>3, ThreadSafe
  <1>10. CASE unl[u].stage = "written" /\ TempDropped(f, keep) /\ SetUnl(u, to("refused"))
    <2> DEFINE e == [dir EXCEPT !.temps = @ \ {f}]
    <2>1. CASE dir' = dir /\ views' = views
      BY <1>2, <1>9, <1>10, <2>1
    <2>2. CASE ~keep /\ dir' = e /\ views' = views \cup {e}
      <3>1. f \in dir.orphans
        BY <1>3, <1>10, <2>2
      <3>2. e \in Dir /\ e.main = dir.main /\ Containers(e) = Containers(dir)
        BY <1>2, <3>1, TempRemoved
      <3> HIDE DEF e
      <3>3. View(e, lastVer, lastGen, retired, acked) /\ e # EmptyDir
        BY <1>2, <1>3, <1>5, <3>2, SameView
      <3>4. /\ dir' \in views' /\ views' \subseteq Dir /\ dir' # EmptyDir
            /\ \A v \in views' : View(v, lastVer, lastGen, retired, acked)
        BY <1>2, <2>2, <3>2, <3>3
      <3> QED
        BY <1>9, <1>10, <3>4
    <2> QED
      BY <1>10, <2>1, <2>2 DEF TempDropped, SetDir
  <1>11. CASE UNCHANGED <<dir, views>> /\ SetUnl(u, to("refused"))
    BY <1>2, <1>9, <1>11
  <1> QED
    BY <1>6, <1>7, <1>8, <1>10, <1>11 DEF Promote, f, keep

LEMMA OwnWriterSafe ==
    ASSUME OneUnlockThread, IInv, NEW u \in Unlockers, OwnWriter(u)
    PROVE  IInv'
  <1> DEFINE f == unl[u].file
             to(st) == [unl[u] EXCEPT !.stage = st]
             e == [dir EXCEPT !.temps = @ \ {f}]
  <1>1. /\ unl[u].stage = "own" /\ app' = app /\ await' = await /\ UnchangedByUnlock
    BY DEF OwnWriter
  <1>2. /\ app.phase = "locked" /\ app.blocked = "no" /\ dir # EmptyDir
        /\ dir \in Dir /\ dir \in views /\ views \subseteq Dir
        /\ unl[u] \in UnlockWork
        /\ \A v \in views : View(v, lastVer, lastGen, retired, acked)
        /\ await \in Unlockers \cup {"none", "rekey"}
        /\ Holds(u) /\ f \in File
    BY <1>1, UnlockFacts
  <1>3. /\ f.ver >= acked /\ Top(dir, f) /\ dir.main = {f}
        /\ \A m \in dir.main : m # Torn /\ m.gen = f.gen
    BY <1>1, <1>2 DEF Holds
  <1>4. \/ dir' = dir /\ views' = views
        \/ dir' = e /\ views' = views \cup {e}
    BY <1>3 DEF OwnWriter, SetDir, Happens, Kept
  <1>5. unl' = [unl EXCEPT ![u] = to("opened")]
    BY <1>3 DEF OwnWriter, SetUnl
  <1>6. PICK r \in UnlockWork : r = to("opened") /\ r.stage = "opened" /\ r.file = f
    <2>1. to("opened") \in UnlockWork /\ to("opened").stage = "opened" /\ to("opened").file = f
      BY <1>2 DEF UnlockWork
    <2> HIDE DEF to
    <2> QED
      BY <2>1
  <1> HIDE DEF to
  <1>7. unl' = [unl EXCEPT ![u] = r]
    BY <1>5, <1>6
  <1>8. CASE dir' = dir /\ views' = views
    BY <1>1, <1>2, <1>3, <1>6, <1>7, <1>8, ThreadSafe
  <1>9. CASE dir' = e /\ views' = views \cup {e}
    <2>1. e \in Dir /\ e.main = dir.main /\ Containers(e) = Containers(dir)
      BY <1>2, <1>3, TempRemoved
    <2> HIDE DEF e
    <2>2. View(e, lastVer, lastGen, retired, acked) /\ Top(e, f)
      BY <1>2, <1>3, <2>1, SameView DEF Top
    <2>3. e # EmptyDir
      BY <1>3, <2>1 DEF EmptyDir
    <2>4. views' \subseteq Dir /\ \A v \in views' : View(v, lastVer, lastGen, retired, acked)
      BY <1>2, <1>9, <2>1, <2>2
    <2> QED
      BY <1>1, <1>2, <1>3, <1>6, <1>7, <1>9, <2>1, <2>2, <2>3, <2>4, ThreadSafe
  <1> QED
    BY <1>4, <1>8, <1>9

(* The session that enter_app opens on the newest container, with or       *)
(* without a damaged history, whatever became of its quarantine copy.      *)
LEMMA EnteredSafe ==
    ASSUME OneUnlockThread, IInv, NEW u \in Unlockers, unl[u].stage = "opened",
           unl' = [unl EXCEPT ![u] = IdleUnlock], await' = "none",
           save' = save, acked' = acked, lastVer' = lastVer, lastGen' = lastGen,
           retired' = retired, damaged' \subseteq File,
           app' \in Controller, app'.phase = "unlocked", app'.task = "idle",
           app'.vault = [gen |-> unl[u].file.gen, pw |-> unl[u].file.pw],
           app'.mem = unl[u].file.ver, app'.wctr = unl[u].file.ctr,
           app'.wfile = {unl[u].file}, app'.blocked = "no", app'.flushing = FALSE,
           app'.claim = "none",
           app'.health = "Failed" => ~app'.healthy,
           app'.health # "Failed" => app'.quar = {} /\ ~app'.dirty,
           dir' \in Dir, dir' \in views', views' \subseteq views \cup {dir'},
           dir'.main = dir.main, Containers(dir') = Containers(dir)
    PROVE  IInv'
  <1> DEFINE f == unl[u].file
  <1>1. /\ app.phase = "locked" /\ dir \in Dir /\ dir \in views /\ views \subseteq Dir
        /\ \A v \in views : View(v, lastVer, lastGen, retired, acked)
        /\ Holds(u) /\ f \in File
    BY UnlockFacts
  <1>2. f.ver >= acked /\ Top(dir, f) /\ dir.main = {f} /\ f \in Containers(dir)
    BY <1>1 DEF Holds, Top
  <1>3. Types /\ Saving /\ Outside
    BY <1>1 DEF IInv
  <1>4. View(dir, lastVer, lastGen, retired, acked)
    BY <1>1
  <1>5. View(dir', lastVer, lastGen, retired, acked)
    BY <1>4, SameView
  <1>6. /\ f.gen \in (1..lastGen) \ retired /\ f.ver <= lastVer /\ f.ctr <= lastVer + lastGen
    BY <1>2, <1>4 DEF View, Made
  <1>7. unl' \in [Unlockers -> UnlockWork] /\ \A v \in Unlockers : unl'[v].stage = "idle"
    <2>1. unl' \in [Unlockers -> UnlockWork] /\ unl'[u] = IdleUnlock
      BY <1>3, LockedAppFacts DEF Types
    <2> QED
      BY <2>1, LockedAppFacts DEF OneUnlockThread
  <1>8. Types'
    BY <1>1, <1>3, <1>7 DEF Types
  <1>9. Disk'
    BY <1>1, <1>5 DEF Disk
  <1>10. Inside'
    <2>1. /\ app'.vault.gen = f.gen /\ app'.vault.pw = f.pw /\ app'.vault.pw \in Passwords
          /\ f.ver \in Nat /\ f.ver >= 1 /\ f.ctr \in Nat /\ lastVer \in Nat
      BY <1>1, <1>3, FileFacts, BoundsAssumption DEF Types
    <2> QED
      BY <1>2, <1>6, <2>1 DEF Inside
  <1>11. Ours'
    <2>1. app'.vault.gen = f.gen /\ app'.vault.pw = f.pw
      OBVIOUS
    <2>2. save.stage = "idle"
      BY <1>3 DEF Saving, Outside
    <2>3. \A x \in Containers(dir) : x.gen = f.gen => x.pw = f.pw /\ x.ctr <= f.ctr
      BY <1>2, <1>4 DEF View, Sound, Top
    <2> QED
      BY <1>2, <1>6, <2>1, <2>2, <2>3 DEF Ours
  <1>12. Saving'
    BY <1>3 DEF Saving, Outside
  <1>13. Finding'
    BY <1>7 DEF Finding
  <1> QED
    BY <1>8, <1>9, <1>10, <1>11, <1>12, <1>13 DEF IInv

LEMMA DeliverUnlockSafe ==
    ASSUME OneUnlockThread, IInv, NEW u \in Unlockers, DeliverUnlock(u)
    PROVE  IInv'
  <1> DEFINE f == unl[u].file
  <1>1. /\ unl[u].stage \in {"refused", "opened"} /\ app.blocked = "no"
        /\ unl' = [unl EXCEPT ![u] = IdleUnlock]
        /\ await' = IF await = u THEN "none" ELSE await
        /\ save' = save /\ lastVer' = lastVer /\ lastGen' = lastGen /\ retired' = retired
    BY DEF DeliverUnlock, SetUnl
  <1>2. /\ app.phase = "locked" /\ dir # EmptyDir
        /\ dir \in Dir /\ dir \in views /\ views \subseteq Dir
        /\ \A v \in views : View(v, lastVer, lastGen, retired, acked)
        /\ await \in Unlockers \cup {"none", "rekey"}
        /\ unl[u].stage = "opened" => Holds(u) /\ f \in File
    BY <1>1, UnlockFacts
  <1>3. CASE UNCHANGED <<dir, views, app, acked, damaged, faults>>
    <2>1. UnchangedByUnlock
      BY <1>1, <1>3 DEF UnchangedByUnlock
    <2> QED
      BY <1>1, <1>2, <1>3, <2>1, LockedAppFacts, ThreadSafe
  <1>4. CASE /\ app' = [LockedApp EXCEPT !.blocked = "destroy"]
             /\ acked' = 0 /\ damaged' = {}
             /\ UNCHANGED <<dir, views, faults>>
    <2>1. /\ app' \in Controller /\ app'.phase = "locked" /\ app'.task = "idle"
          /\ app'.blocked = "destroy" /\ app'.flushing = FALSE /\ app'.claim = "none"
      BY <1>4, LockedAppFacts DEF Controller
    <2>2. Types /\ Saving /\ Outside
      BY <1>2 DEF IInv
    <2>3. unl' \in [Unlockers -> UnlockWork] /\ \A v \in Unlockers : unl'[v].stage = "idle"
      <3>1. unl' \in [Unlockers -> UnlockWork] /\ unl'[u] = IdleUnlock
        BY <1>1, <2>2, LockedAppFacts DEF Types
      <3> QED
        BY <3>1, LockedAppFacts DEF OneUnlockThread
    <2>4. Types'
      BY <1>1, <1>2, <1>4, <2>1, <2>2, <2>3, BoundsAssumption DEF Types
    <2>5. Disk'
      BY <1>1, <1>2, <1>4 DEF Disk, View
    <2>6. Outside' /\ Saving'
      BY <1>1, <1>4, <2>1, <2>2 DEF Outside, Saving
    <2>7. Finding'
      BY <2>3 DEF Finding
    <2> QED
      BY <2>1, <2>4, <2>5, <2>6, <2>7 DEF IInv
  <1>5. ASSUME await = u, unl[u].stage = "opened", acked' = acked,
               NEW corrupt \in BOOLEAN,
               damaged' = IF corrupt THEN damaged \cup {f} ELSE damaged,
               NEW r \in EnsureQuarantined(Entered(f, corrupt)), app' = r.app, Happens(r)
        PROVE  IInv'
    <2> DEFINE q == IF corrupt THEN {f} ELSE {}
               h == IF corrupt THEN "QuarantineRequired" ELSE "Ready"
               a == Entered(f, corrupt)
               slot == [gen |-> f.gen, pw |-> f.pw]
    <2>1. /\ f \in File /\ dir.main = {f} /\ await' = "none"
      BY <1>1, <1>2, <1>5 DEF Holds
    <2>2. damaged' \subseteq File
      BY <1>5, <2>1 DEF IInv, Types
    <2>3. /\ slot \in Slot /\ f.ver \in 0..MaxVer /\ f.ctr \in 0..(MaxVer + MaxGen)
          /\ {f} \in SUBSET File
      BY <2>1, FileFacts, BoundsAssumption DEF Slot
    <2>4. /\ q \in SUBSET File /\ h \in {"QuarantineRequired", "Ready"}
          /\ (h = "QuarantineRequired" /\ q = {f}) \/ (h = "Ready" /\ q = {})
      <3>1. CASE corrupt
        <4>1. q = {f} /\ h = "QuarantineRequired"
          BY <3>1
        <4> HIDE DEF q, h, f
        <4> QED
          BY <2>1, <4>1
      <3>2. CASE ~corrupt
        BY <3>2
      <3> QED
        BY <3>1, <3>2
    <2>5. a = [LockedApp EXCEPT !.phase = "unlocked", !.vault = slot, !.mem = f.ver,
                  !.wctr = f.ctr, !.wfile = {f}, !.healthy = TRUE, !.quar = q, !.health = h]
      BY DEF Entered
    <2> HIDE DEF q, h, slot, f
    <2> HIDE DEF a
    <2>6. /\ a \in Controller /\ a.phase = "unlocked" /\ a.vault = slot /\ a.mem = f.ver
          /\ a.wctr = f.ctr /\ a.wfile = {f} /\ a.healthy = TRUE /\ a.quar = q
          /\ a.health = h /\ a.task = "idle" /\ a.blocked = "no" /\ a.flushing = FALSE
          /\ a.claim = "none" /\ a.dirty = FALSE
      BY <2>3, <2>4, <2>5, LockedAppFacts DEF Controller
    <2>7. r \in EnsureQuarantined(a)
      BY <1>5 DEF a
    <2>8. dir' = r.dir /\ views' = r.views
      BY <1>5 DEF Happens
    <2>9. ASSUME NEW e \in Dir, e.main = dir.main, Containers(e) = Containers(dir),
                 dir' = e, e \in views', views' \subseteq views \cup {e},
                 NEW b \in Controller, app' = b, b.phase = "unlocked", b.vault = slot,
                 b.mem = f.ver, b.wctr = f.ctr, b.wfile = {f}, b.task = "idle",
                 b.blocked = "no", b.flushing = FALSE, b.claim = "none",
                 b.health = "Failed" => ~b.healthy,
                 b.health # "Failed" => b.quar = {} /\ ~b.dirty
          PROVE  IInv'
      BY <1>1, <1>5, <2>1, <2>2, <2>9, EnteredSafe DEF slot, f
    <2> DEFINE g == CHOOSE x \in a.quar : TRUE
               failed == [a EXCEPT !.healthy = FALSE, !.health = "Failed", !.dirty = TRUE]
               saved == [a EXCEPT !.quar = {}, !.health = "Ready"]
               linked == [dir EXCEPT !.orphans = @ \cup {f}]
    <2>10. /\ failed \in Controller /\ failed.phase = "unlocked" /\ failed.vault = slot
           /\ failed.mem = f.ver /\ failed.wctr = f.ctr /\ failed.wfile = {f}
           /\ failed.task = "idle" /\ failed.blocked = "no" /\ failed.flushing = FALSE
           /\ failed.claim = "none" /\ failed.health = "Failed" /\ failed.healthy = FALSE
      BY <2>6 DEF Controller
    <2>11. /\ saved \in Controller /\ saved.phase = "unlocked" /\ saved.vault = slot
           /\ saved.mem = f.ver /\ saved.wctr = f.ctr /\ saved.wfile = {f}
           /\ saved.task = "idle" /\ saved.blocked = "no" /\ saved.flushing = FALSE
           /\ saved.claim = "none" /\ saved.health = "Ready" /\ saved.quar = {}
           /\ saved.dirty = FALSE
      BY <2>6 DEF Controller
    <2>12. linked \in Dir /\ linked.main = dir.main /\ Containers(linked) = Containers(dir)
      BY <1>2, <2>1, OrphanAdded
    <2>13. \/ a.quar = {} /\ r.app = a /\ r.dir = dir /\ r.views = views
           \/ r.app = failed /\ r.dir = dir /\ r.views = views
           \/ r.app = failed /\ r.dir = linked /\ r.views = views \cup {linked}
           \/ r.app = saved /\ r.dir = linked /\ r.views = {linked}
      <3>1. CASE a.quar = {}
        <4>1. r = Kept(a)
          BY <2>7, <3>1, NothingToQuarantine
        <4> QED
          BY <3>1, <4>1 DEF Kept
      <3>2. CASE a.quar # {}
        <4>1. g = f
          BY <2>4, <2>6, <3>2
        <4>2. \/ \E n \in {0, 1} : r = [app |-> PersistenceFailed(a), dir |-> dir,
                                        views |-> views, bad |-> n]
              \/ r = [app |-> PersistenceFailed(a), dir |-> WithOrphan(g),
                      views |-> views \cup {WithOrphan(g)}, bad |-> 1]
              \/ r = [app |-> [a EXCEPT !.quar = {}, !.health = "Ready"],
                      dir |-> WithOrphan(g), views |-> {WithOrphan(g)}, bad |-> 0]
          BY <2>7, <3>2 DEF EnsureQuarantined
        <4>3. WithOrphan(g) = linked /\ PersistenceFailed(a) = failed
          BY <4>1 DEF WithOrphan, PersistenceFailed
        <4> QED
          BY <4>2, <4>3
      <3> QED
        BY <3>1, <3>2
    <2> HIDE DEF failed, saved, linked
    <2>14. CASE a.quar = {} /\ r.app = a /\ r.dir = dir /\ r.views = views
      <3>1. a.health = "Ready"
        BY <2>4, <2>6, <2>14
      <3> QED
        BY <1>2, <1>5, <2>6, <2>8, <2>9, <2>14, <3>1
    <2>15. CASE r.app = failed /\ r.dir = dir /\ r.views = views
      BY <1>2, <1>5, <2>8, <2>9, <2>10, <2>15
    <2>16. CASE r.app = failed /\ r.dir = linked /\ r.views = views \cup {linked}
      BY <1>5, <2>8, <2>9, <2>10, <2>12, <2>16
    <2>17. CASE r.app = saved /\ r.dir = linked /\ r.views = {linked}
      BY <1>5, <2>8, <2>9, <2>11, <2>12, <2>17
    <2> QED
      BY <2>13, <2>14, <2>15, <2>16, <2>17
  <1> QED
    BY <1>3, <1>4, <1>5 DEF DeliverUnlock

-----------------------------------------------------------------------------
(* A kill, or a power loss that leaves one of the views.                   *)

LEMMA CrashSafe == IInv /\ Crash => IInv'
  <1> SUFFICES ASSUME IInv, Crash PROVE IInv'
    OBVIOUS
  <1>1. Types /\ Disk /\ dir \in views /\ views \subseteq Dir
    BY DEF IInv, Types
  <1>2. /\ app' = LockedApp /\ save' = NoSave /\ await' = "none"
        /\ unl' = [u \in Unlockers |-> IdleUnlock]
        /\ damaged' = damaged \cap Containers(dir')
        /\ acked' = acked /\ lastVer' = lastVer /\ lastGen' = lastGen /\ retired' = retired
    BY DEF Crash
  <1>3. /\ \E v \in views : dir' \in WithTorn(v)
        /\ dir' \in views' /\ views' \subseteq views \cup {dir'}
    BY <1>1 DEF Crash
  <1>4. PICK v \in views : dir' \in WithTorn(v)
    BY <1>3
  <1>5. dir' \in Dir /\ dir'.main = v.main /\ Containers(dir') = Containers(v)
    BY <1>1, <1>4, TornAdded
  <1>6. View(dir', lastVer, lastGen, retired, acked)
    BY <1>1, <1>4, <1>5, SameView DEF Disk
  <1>7. Types'
    BY <1>1, <1>2, <1>3, <1>5, LockedAppFacts DEF Types
  <1>8. Disk'
    BY <1>1, <1>2, <1>3, <1>6 DEF Disk
  <1>9. Outside' /\ Saving'
    BY <1>2, LockedAppFacts DEF Outside, Saving
  <1>10. Finding'
    BY <1>2, LockedAppFacts DEF Finding
  <1> QED
    BY <1>2, <1>7, <1>8, <1>9, <1>10, LockedAppFacts DEF IInv

-----------------------------------------------------------------------------
(* The theorems.                                                           *)

LEMMA InitInvariant == Init => IInv
  <1> SUFFICES ASSUME Init PROVE IInv
    OBVIOUS
  <1>1. /\ dir = EmptyDir /\ views = {EmptyDir} /\ app = LockedApp /\ save = NoSave
        /\ unl = [u \in Unlockers |-> IdleUnlock] /\ await = "none" /\ acked = 0
        /\ lastVer = 0 /\ lastGen = 0 /\ retired = {} /\ damaged = {}
    BY DEF Init
  <1>2. Types
    BY <1>1, FileFacts, LockedAppFacts, BoundsAssumption DEF Types
  <1>3. Disk
    <2>1. EmptyDir.main = {}
      BY DEF EmptyDir
    <2> QED
      BY <1>1, <2>1, FileFacts DEF Disk, View, Sound, Made
  <1>4. Outside /\ Saving /\ Finding
    BY <1>1, LockedAppFacts DEF Outside, Saving, Finding
  <1> QED
    BY <1>1, <1>2, <1>3, <1>4, LockedAppFacts DEF IInv

LEMMA StutterSafe == IInv /\ UNCHANGED vars => IInv'
  <1> SUFFICES ASSUME IInv, UNCHANGED vars PROVE IInv'
    OBVIOUS
  <1>1. Types' /\ Disk' /\ Saving'
    BY DEF IInv, vars, Types, Disk, Saving
  <1>2. (app.phase = "locked" => Outside)' /\ (app.phase = "unlocked" /\ app.healthy => Ours)'
    BY DEF IInv, vars, Outside, Ours
  <1>3. (app.phase = "unlocked" => Inside)'
    BY DEF IInv, vars, Inside
  <1>4. Finding'
    BY DEF IInv, vars, Finding, Holds
  <1> QED
    BY <1>1, <1>2, <1>3, <1>4 DEF IInv

LEMMA NextSafe ==
    ASSUME OneUnlockThread
    PROVE  IInv /\ [Next]_vars => IInv'
  <1> SUFFICES ASSUME IInv, [Next]_vars PROVE IInv'
    OBVIOUS
  <1>1. CASE UNCHANGED vars
    BY <1>1, StutterSafe
  <1>2. CASE \/ Create \/ Edit \/ FlushSave \/ Barrier \/ RequestLock
             \/ StartRekey \/ RekeyReady \/ InvalidateKeyOps
    BY <1>2, CreateSafe, EditSafe, FlushSaveSafe, BarrierSafe, RequestLockSafe,
       StartRekeySafe, RekeyReadySafe, InvalidateKeyOpsSafe
  <1>3. CASE FlushBlocked \/ FinishFlush \/ DestroyOne \/ Crash
    BY <1>3, FlushBlockedSafe, FinishFlushSafe, DestroyOneSafe, CrashSafe
  <1>4. CASE PrepareSave \/ WriteSaveTemp \/ RenameSave \/ SyncSave \/ FailSave
    BY <1>4, PrepareSaveSafe, WriteSaveTempSafe, RenameSaveSafe, SyncSaveSafe, FailSaveSafe
  <1>5. ASSUME NEW u \in Unlockers,
               \/ SpawnUnlock(u) \/ ReadCandidates(u) \/ Promote(u)
               \/ OwnWriter(u) \/ DeliverUnlock(u)
        PROVE  IInv'
    BY <1>5, SpawnUnlockSafe, ReadCandidatesSafe, PromoteSafe, OwnWriterSafe, DeliverUnlockSafe
  <1> QED
    BY <1>1, <1>2, <1>3, <1>4, <1>5 DEF Next

\* With one unlock thread at work the invariant holds of every reachable
\* state, for every number of passwords, payloads, keyslots and faults.
THEOREM VaultInvariant ==
    ASSUME OneUnlockThread
    PROVE  Spec => []IInv
  <1>1. IInv /\ [Next]_vars => IInv'
    BY NextSafe
  <1> QED
    BY <1>1, InitInvariant, PTL DEF Spec

\* save.rs, atomic.rs, vault_store.rs: a save that was reported as done
\* survives every kill, power loss and I/O error.
THEOREM VaultAckedSurvives ==
    ASSUME OneUnlockThread
    PROVE  Spec => []AckedSurvives
  <1>1. IInv => AckedSurvives
    <2> SUFFICES ASSUME IInv, acked > 0, NEW v \in views
                 PROVE  /\ v.main # {}
                        /\ \A m \in v.main : \E w \in Selected(v, m.pw) : w.ver >= acked
      BY DEF AckedSurvives
    <2>1. v \in Dir /\ Sound(v) /\ Safe(v, acked)
      BY DEF IInv, Types, Disk, View
    <2> QED
      BY <2>1, SafeOpens
  <1> QED
    BY <1>1, VaultInvariant, PTL

\* shred_foreign_keyslot_residue: once the app has said that the password is
\* changed, no copy under an earlier keyslot can come back.
THEOREM VaultRetiredSlotsGone ==
    ASSUME OneUnlockThread
    PROVE  Spec => []RetiredSlotsGone
  <1>1. IInv => TypeOK
    <2> SUFFICES ASSUME IInv PROVE TypeOK
      OBVIOUS
    <2>1. Types /\ Disk /\ Saving
      BY DEF IInv
    <2>2. ASSUME NEW v \in views PROVE Cardinality(v.main) <= 1
      <3>1. \A f, g \in v.main : f = g
        BY <2>1 DEF Disk, View, Sound
      <3>2. CASE v.main = {}
        BY <3>2, FS_EmptySet
      <3>3. CASE v.main # {}
        <4>1. PICK f : v.main = {f}
          BY <3>1, <3>3
        <4> QED
          BY <4>1, FS_Singleton
      <3> QED
        BY <3>2, <3>3
    <2>3. lastGen \in 0..MaxGen /\ retired \subseteq 1..lastGen
      BY <2>1 DEF Types
    <2>4. retired \subseteq 1..MaxGen
      BY <2>3, BoundsAssumption
    <2>5. /\ dir \in Dir /\ views \subseteq Dir /\ dir \in views
          /\ await \in Unlockers \cup {"none", "rekey"}
          /\ acked \in 0..MaxVer /\ lastVer \in 0..MaxVer /\ damaged \subseteq File
          /\ app \in Controller /\ save \in SaveWork
      BY <2>1 DEF Types
    <2>6. /\ app.phase \in {"locked", "unlocked"}
          /\ app.vault \in Slot /\ app.prev \in Slot
          /\ app.health \in {"Ready", "WritePending", "QuarantineRequired", "Failed"}
          /\ app.dirty \in BOOLEAN /\ app.healthy \in BOOLEAN /\ app.flushing \in BOOLEAN
          /\ app.mem \in 0..MaxVer /\ app.quar \subseteq File
          /\ app.task \in {"idle", "running", "ok", "failed"}
          /\ app.wctr \in 0..(MaxVer + MaxGen) /\ app.wfile \subseteq File
          /\ app.blocked \in {"no", "barrier", "lock", "delete", "rekey", "destroy"}
          /\ app.claim \in {"none", "changed", "residue", "notChanged", "deleted"}
      BY <2>5 DEF Controller
    <2>7. /\ save.file \in File \cup {NoFile}
          /\ (app.task = "running") = (save.stage # "idle")
      BY <2>1, <2>5 DEF SaveWork, Saving
    <2> QED
      BY <2>2, <2>3, <2>4, <2>5, <2>6, <2>7 DEF TypeOK
  <1>2. IInv => \A v \in views : \A f \in Containers(v) : f.gen \notin retired
    BY DEF IInv, Disk, View, Made
  <1>3. IInv => RetiredSlotsGone
    BY <1>1, <1>2 DEF RetiredSlotsGone
  <1> QED
    BY <1>3, VaultInvariant, PTL

\* destroy: once the app has said that the wallet is deleted, nothing of it
\* is left, and no unlock thread puts anything back.
THEOREM VaultDeletedMeansGone ==
    ASSUME OneUnlockThread
    PROVE  Spec => []DeletedMeansGone
  <1>1. IInv => DeletedMeansGone
    BY DEF IInv, Types, Controller, Outside, Inside, DeletedMeansGone
  <1> QED
    BY <1>1, VaultInvariant, PTL

-----------------------------------------------------------------------------
(* Damaged histories: a second invariant, on top of the first.             *)

\* What has been found damaged is not ahead of the main file's keyslot, and
\* a session that can save has a durable copy of it aside.
Preserved ==
    /\ \A x \in damaged : x.gen \in 1..lastGen
    /\ \A x \in damaged : (\A m \in dir.main : m.gen = x.gen) =>
          \E y \in Containers(dir) : y.gen = x.gen /\ y.ctr >= x.ctr
    /\ app.blocked = "destroy" => damaged = {}
    /\ app.phase = "unlocked" /\ app.healthy =>
          /\ \A x \in damaged : x.gen = app.vault.gen => x.ctr <= app.wctr
          /\ \A m \in app.wfile : m.gen = app.vault.gen => m.ctr = app.wctr
          /\ app.wfile = {} => damaged = {}
          /\ \A f \in dir.main \cap damaged : \A v \in views : f \in v.orphans

(* A step that leaves the directory alone, and the writer if it is usable. *)
LEMMA PreservedFrame ==
    ASSUME Preserved, dir' = dir, views' = views, damaged' \in {damaged, {}},
           lastGen' = lastGen, app'.blocked = "destroy" => app.blocked = "destroy" \/ damaged' = {},
           app'.phase = "unlocked" /\ app'.healthy =>
              /\ app.phase = "unlocked" /\ app.healthy /\ app'.vault = app.vault
              /\ app'.wctr = app.wctr /\ app'.wfile = app.wfile
    PROVE  Preserved'
  <1>1. CASE damaged' = {}
    <2>1. app'.phase = "unlocked" /\ app'.healthy =>
             \A m \in app'.wfile : m.gen = app'.vault.gen => m.ctr = app'.wctr
      BY DEF Preserved
    <2> QED
      BY <1>1, <2>1 DEF Preserved
  <1>2. CASE damaged' = damaged
    BY <1>2 DEF Preserved
  <1> QED
    BY <1>1, <1>2

(* The steps of the UI thread that only drain a task or start a write.     *)
LEMMA FlushedFrame ==
    ASSUME IInv, app.phase = "unlocked", app.task # "running",
           NEW started, Flushed(app, started)
    PROVE  /\ dir' = dir /\ views' = views /\ app'.phase = "unlocked"
           /\ app'.vault = app.vault /\ app'.wctr = app.wctr /\ app'.wfile = app.wfile
           /\ app'.blocked = app.blocked /\ (app'.healthy => app.healthy)
  <1> DEFINE d == Drained(app)
  <1>1. /\ d \in Controller /\ d.phase = "unlocked"
        /\ d.vault = app.vault /\ d.quar = app.quar /\ d.wctr = app.wctr
        /\ d.wfile = app.wfile /\ d.blocked = app.blocked
        /\ d.health = "Failed" => ~d.healthy
        /\ d.health # "Failed" => d.healthy = app.healthy /\ d.quar = {}
    BY DrainedFacts
  <1>2. PICK r \in (IF d.health = "Failed" \/ ~d.dirty THEN {Kept(d)}
                    ELSE EnsureQuarantined(d)) :
          /\ Happens(r)
          /\ \/ app' = r.app
             \/ app' = [r.app EXCEPT !.task = "running", !.dirty = started.dirty,
                                     !.health = started.health,
                                     !.flushing = started.flushing]
    BY DEF Flushed
  <1> HIDE DEF d
  <1>3. r = Kept(d)
    BY <1>1, <1>2, NothingToQuarantine
  <1>4. r.app = d /\ dir' = dir /\ views' = views
    BY <1>2, <1>3 DEF Kept, Happens
  <1>5. /\ app'.phase = d.phase /\ app'.vault = d.vault /\ app'.wctr = d.wctr
        /\ app'.wfile = d.wfile /\ app'.blocked = d.blocked /\ app'.healthy = d.healthy
    BY <1>1, <1>2, <1>4 DEF Controller
  <1> QED
    BY <1>1, <1>4, <1>5

LEMMA SessionPreserved ==
    ASSUME IInv, Preserved,
           \/ Edit \/ Barrier \/ RequestLock \/ InvalidateKeyOps
           \/ FlushSave \/ FlushBlocked \/ StartRekey
    PROVE  Preserved'
  <1>1. app \in Controller
    BY DEF IInv, Types
  <1>2. CASE Edit \/ Barrier \/ RequestLock
    <2>1. /\ dir' = dir /\ views' = views /\ damaged' = damaged /\ lastGen' = lastGen
          /\ app.phase = "unlocked"
      BY <1>2 DEF Edit, Barrier, RequestLock, Unlocked
    <2>2. /\ app'.vault = app.vault /\ app'.wctr = app.wctr /\ app'.wfile = app.wfile
          /\ app'.healthy = app.healthy /\ app'.blocked # "destroy"
      <3>1. CASE Edit
        BY <1>1, <3>1 DEF Edit, Unlocked, MarkDirty, Controller
      <3>2. CASE Barrier
        BY <1>1, <3>2 DEF Barrier, Unlocked, Controller
      <3>3. CASE RequestLock
        <4>1. PICK k \in {"lock", "delete"} : app' = [app EXCEPT !.blocked = k]
          BY <3>3 DEF RequestLock
        <4> QED
          BY <1>1, <4>1 DEF Controller
      <3> QED
        BY <1>2, <3>1, <3>2, <3>3
    <2> QED
      BY <2>1, <2>2, PreservedFrame
  <1>3. CASE InvalidateKeyOps
    BY <1>3, PreservedFrame DEF InvalidateKeyOps
  <1>4. CASE FlushSave \/ FlushBlocked
    <2>1. /\ app.task # "running" /\ damaged' = damaged /\ lastGen' = lastGen
          /\ app.blocked # "destroy" /\ app.phase = "unlocked"
      BY <1>1, <1>4 DEF FlushSave, FlushBlocked, Unlocked, IInv, Outside, Controller
    <2>2. \E started : Flushed(app, started)
      BY <1>4 DEF FlushSave, FlushBlocked
    <2> QED
      BY <2>1, <2>2, FlushedFrame, PreservedFrame
  <1>5. CASE StartRekey
    <2> DEFINE d == Drained(app)
    <2>1. /\ app.phase = "unlocked" /\ app.task # "running" /\ app.blocked = "no"
          /\ lastGen' = lastGen /\ damaged' = damaged
      BY <1>5 DEF StartRekey, Unlocked
    <2>2. /\ d.vault = app.vault /\ d.quar = app.quar /\ d.wctr = app.wctr
          /\ d.wfile = app.wfile /\ d.blocked = app.blocked
          /\ d.health = "Failed" => ~d.healthy
          /\ d.health # "Failed" => d.healthy = app.healthy /\ d.quar = {}
      BY <2>1, DrainedFacts
    <2>3. PICK r \in (IF d.health = "Failed" THEN {Kept(d)} ELSE EnsureQuarantined(d)) :
            app' = r.app /\ Happens(r)
      BY <1>5 DEF StartRekey
    <2> HIDE DEF d
    <2>4. r = Kept(d)
      BY <2>2, <2>3, NothingToQuarantine
    <2>5. app' = d /\ dir' = dir /\ views' = views
      BY <2>3, <2>4 DEF Kept, Happens
    <2> QED
      BY <2>1, <2>2, <2>5, PreservedFrame
  <1> QED
    BY <1>2, <1>3, <1>4, <1>5

LEMMA NewSlotPreserved ==
    ASSUME IInv, Preserved, Create \/ RekeyReady
    PROVE  Preserved'
  <1>1. /\ Types /\ Disk /\ lastGen \in Nat /\ app \in Controller /\ dir \in views
        /\ views \subseteq Dir /\ damaged \subseteq File
    BY BoundsAssumption DEF IInv, Types
  <1>2. /\ lastGen' = lastGen + 1 /\ damaged' = damaged /\ dir' = dir /\ views' = views
    BY DEF Create, RekeyReady
  <1>3. \A x \in damaged : x.gen \in 1..lastGen' /\ x.gen # lastGen'
    BY <1>1, <1>2 DEF Preserved
  <1>4. \A x \in damaged : (\A m \in dir.main : m.gen = x.gen) =>
          \E y \in Containers(dir) : y.gen = x.gen /\ y.ctr >= x.ctr
    BY DEF Preserved
  <1>5. CASE Create
    <2>1. dir = EmptyDir
      BY <1>5 DEF Create, Fresh
    <2>2. damaged = {}
      <3>1. EmptyDir.main = {} /\ Containers(EmptyDir) = {}
        BY FileFacts DEF EmptyDir
      <3> QED
        BY <1>4, <2>1, <3>1
    <2>3. app'.wfile = {}
      BY <1>5, LockedAppFacts DEF Create, LockedApp
    <2> QED
      BY <1>2, <2>2, <2>3 DEF Preserved
  <1>6. CASE RekeyReady
    <2>1. app.phase = "unlocked" /\ app.task = "idle"
      BY <1>6 DEF RekeyReady, Unlocked, IInv, Inside
    <2>2. PICK pw \in Passwords :
            app' = [app EXCEPT !.prev = app.vault, !.vault = [gen |-> lastGen', pw |-> pw],
                               !.dirty = TRUE, !.blocked = "rekey"]
      BY <1>2, <1>6 DEF RekeyReady
    <2>3. /\ app'.vault.gen = lastGen' /\ app'.wctr = app.wctr /\ app'.wfile = app.wfile
          /\ app'.healthy = app.healthy /\ app'.blocked = "rekey"
      BY <1>1, <2>2 DEF Controller
    <2>4. ASSUME app.healthy, NEW m \in app.wfile PROVE m.gen # lastGen'
      <3>1. app.wfile = dir.main
        BY <1>1, <2>1, <2>4 DEF IInv, Ours, Saving, Types, SaveWork
      <3>2. m \in Containers(dir)
        <4>1. m \in File
          BY <1>1, <2>4 DEF Controller
        <4> QED
          BY <2>4, <3>1, <4>1, FileFacts DEF Containers
      <3>3. m.gen \in 1..lastGen
        BY <1>1, <3>2 DEF Disk, View, Made
      <3> QED
        BY <1>1, <1>2, <3>3
    <2>5. app.healthy =>
            /\ app.wfile = {} => damaged = {}
            /\ \A f \in dir.main \cap damaged : \A v \in views : f \in v.orphans
      BY <2>1 DEF Preserved
    <2> QED
      BY <1>2, <1>3, <1>4, <2>3, <2>4, <2>5 DEF Preserved
  <1> QED
    BY <1>5, <1>6

LEMMA FinishFlushPreserved == IInv /\ Preserved /\ FinishFlush => Preserved'
  <1> SUFFICES ASSUME IInv, Preserved, FinishFlush PROVE Preserved'
    OBVIOUS
  <1> DEFINE d == Drained(app)
             ok == d.health # "Failed"
             dirty == d.dirty /\ ~(app.flushing /\ ok)
             a == [d EXCEPT !.dirty = dirty, !.blocked = "no", !.flushing = FALSE]
  <1>1. /\ app.blocked \in {"barrier", "lock", "delete", "rekey"} /\ app.task # "running"
        /\ app.flushing \/ ~ok \/ ~d.dirty
        /\ lastGen' = lastGen
    BY DEF FinishFlush
  <1>2. app.phase = "unlocked" /\ Types /\ Inside /\ app \in Controller
    BY <1>1 DEF IInv, Types, Controller, Outside
  <1>3. /\ d \in Controller /\ d.phase = "unlocked" /\ d.vault = app.vault
        /\ d.prev = app.prev /\ d.wctr = app.wctr /\ d.wfile = app.wfile
        /\ d.health = "Failed" => ~d.healthy
        /\ d.health # "Failed" =>
              d.healthy = app.healthy /\ d.dirty = app.dirty /\ app.task # "failed"
    BY <1>1, <1>2, DrainedFacts
  <1>4. a = [d EXCEPT !.dirty = @ /\ ~(app.flushing /\ ok), !.blocked = "no", !.flushing = FALSE]
    BY <1>3 DEF Controller
  <1>5. CASE app.blocked = "lock" \/ app.blocked = "delete"
    <2>1. /\ dir' = dir /\ views' = views /\ app'.phase = "locked"
          /\ damaged' \in {damaged, {}} /\ (app'.blocked = "destroy" => damaged' = {})
      BY <1>5, LockedAppFacts DEF FinishFlush, LockedApp
    <2> QED
      BY <1>1, <2>1, PreservedFrame
  <1>6. CASE app.blocked = "barrier"
    <2>1. app' = a /\ dir' = dir /\ views' = views /\ damaged' = damaged
      BY <1>4, <1>6 DEF FinishFlush
    <2> HIDE DEF d, dirty
    <2>2. /\ a.phase = "unlocked" /\ a.vault = app.vault /\ a.wctr = app.wctr
          /\ a.wfile = app.wfile /\ (a.healthy => app.healthy) /\ a.blocked = "no"
      BY <1>3 DEF Controller
    <2> HIDE DEF a
    <2> QED
      BY <1>1, <1>2, <2>1, <2>2, PreservedFrame
  <1>7. CASE app.blocked = "rekey" /\ ~ok
    <2>1. app' = RekeyUndone(a) /\ dir' = dir /\ views' = views /\ damaged' = damaged
      BY <1>4, <1>7 DEF FinishFlush
    <2> HIDE DEF d, dirty
    <2>2. a \in Controller /\ a.blocked = "no" /\ a.healthy = FALSE
      <3>1. dirty \in BOOLEAN
        BY <1>3 DEF dirty, Controller
      <3> QED
        BY <1>3, <1>7, <3>1 DEF Controller
    <2> HIDE DEF a
    <2>3. app'.blocked = "no" /\ app'.healthy = FALSE
      BY <2>1, <2>2 DEF RekeyUndone, Controller
    <2> QED
      BY <1>1, <2>1, <2>3, PreservedFrame
  <1>8. CASE app.blocked = "rekey" /\ ok
    <2>1. PICK S \in SUBSET Foreign(dir), clean \in BOOLEAN :
            LET all == clean /\ S = Foreign(dir) IN
            /\ Happens([dir |-> Without(dir, S), bad |-> IF all THEN 0 ELSE 1,
                        views |-> IF S = {} THEN views
                                  ELSE IF all THEN {Without(dir, S)}
                                  ELSE views \cup {Without(dir, S)}])
            /\ app' = [a EXCEPT !.prev = NoSlot,
                                !.claim = IF all THEN "changed" ELSE "residue"]
            /\ UNCHANGED <<await, damaged>>
      BY <1>4, <1>8 DEF FinishFlush
    <2> DEFINE e == Without(dir, S)
    <2>2. /\ dir' = e /\ views' \subseteq views \cup {e} /\ damaged' = damaged
      BY <2>1 DEF Happens
    <2>3. PICK c : app' = [a EXCEPT !.prev = NoSlot, !.claim = c]
      BY <2>1
    <2>4. app.dirty /\ app.flushing /\ app.task = "ok"
      BY <1>1, <1>2, <1>3, <1>8 DEF Inside, Controller
    <2> HIDE DEF d, dirty
    <2>5. /\ app'.vault = app.vault /\ app'.wctr = app.wctr /\ app'.wfile = app.wfile
          /\ (app'.healthy => app.healthy) /\ app'.blocked = "no"
      BY <1>3, <1>8, <2>3 DEF Controller
    <2>6. /\ save.file \in File /\ views = {dir} /\ dir.main = {save.file} /\ dir \in Dir
      BY <1>2, <2>4 DEF IInv, Saving, Types
    <2>7. /\ e.main = dir.main \ S /\ Containers(e) = Containers(dir) \ S
          /\ e.orphans = dir.orphans \ S
      BY <2>6, Unlinked DEF Without
    <2> HIDE DEF e
    <2>8. \A x \in S : x.gen # save.file.gen
      BY <2>6 DEF Foreign
    <2>9. e.main = {save.file}
      BY <2>6, <2>7, <2>8
    <2>10. ASSUME NEW x \in damaged, \A m \in e.main : m.gen = x.gen
           PROVE  \E y \in Containers(e) : y.gen = x.gen /\ y.ctr >= x.ctr
      <3>1. PICK y \in Containers(dir) : y.gen = x.gen /\ y.ctr >= x.ctr
        BY <2>6, <2>9, <2>10 DEF Preserved
      <3>2. y \in Containers(e)
        BY <2>7, <2>8, <2>9, <2>10, <3>1
      <3> QED
        BY <3>1, <3>2
    <2>11. ASSUME app.healthy, NEW f \in e.main \cap damaged, NEW v \in views'
           PROVE  f \in v.orphans
      <3>1. f \in dir.orphans
        BY <1>2, <2>6, <2>9, <2>11 DEF Preserved
      <3>2. f \in e.orphans
        BY <2>7, <2>8, <2>9, <2>11, <3>1
      <3> QED
        BY <2>2, <2>6, <2>11, <3>1, <3>2
    <2>12. app'.healthy =>
             /\ \A x \in damaged : x.gen = app.vault.gen => x.ctr <= app.wctr
             /\ \A m \in app.wfile : m.gen = app.vault.gen => m.ctr = app.wctr
             /\ app.wfile = {} => damaged = {}
      BY <1>2, <2>5 DEF Preserved
    <2>13. \A x \in damaged : x.gen \in 1..lastGen
      BY DEF Preserved
    <2> QED
      BY <1>1, <2>2, <2>5, <2>10, <2>11, <2>12, <2>13 DEF Preserved
  <1> QED
    BY <1>1, <1>5, <1>6, <1>7, <1>8

LEMMA DestroyOnePreserved == IInv /\ Preserved /\ DestroyOne => Preserved'
  <1> SUFFICES ASSUME IInv, Preserved, DestroyOne PROVE Preserved'
    OBVIOUS
  <1>1. app.blocked = "destroy" /\ damaged' = damaged /\ lastGen' = lastGen
    BY DEF DestroyOne
  <1>2. damaged = {} /\ app.phase = "locked" /\ app \in Controller
    BY <1>1 DEF Preserved, IInv, Inside, Types, Controller
  <1>3. app'.phase = "locked"
    BY <1>2 DEF DestroyOne, Controller
  <1> QED
    BY <1>1, <1>2, <1>3 DEF Preserved

-----------------------------------------------------------------------------
(* The save thread never writes a container that was found damaged.        *)

LEMMA SavePreserved ==
    ASSUME IInv, Preserved, PrepareSave \/ WriteSaveTemp \/ RenameSave \/ SyncSave \/ FailSave
    PROVE  Preserved'
  <1> DEFINE f == save.file
  <1>1. /\ save.stage # "idle" /\ damaged' = damaged /\ lastGen' = lastGen
    BY DEF PrepareSave, WriteSaveTemp, RenameSave, SyncSave, FailSave, UnchangedBySave
  <1>2. /\ Types /\ Saving /\ app.phase = "unlocked" /\ app \in Controller /\ Inside
        /\ dir \in Dir /\ dir \in views /\ f \in File /\ f.gen = app.vault.gen
        /\ f.ctr = app.wctr + 1 /\ app.wctr \in Nat /\ damaged \subseteq File
    BY <1>1, SaveFacts DEF Types
  <1>3. \A x \in damaged : x.gen \in 1..lastGen
    BY DEF Preserved
  <1>4. \A x \in damaged : (\A m \in dir.main : m.gen = x.gen) =>
          \E y \in Containers(dir) : y.gen = x.gen /\ y.ctr >= x.ctr
    BY DEF Preserved
  <1>5. app.healthy =>
          /\ \A x \in damaged : x.gen = app.vault.gen => x.ctr <= app.wctr
          /\ \A m \in app.wfile : m.gen = app.vault.gen => m.ctr = app.wctr
          /\ app.wfile = {} => damaged = {}
          /\ \A x \in dir.main \cap damaged : \A v \in views : x \in v.orphans
    BY <1>2 DEF Preserved
  <1>6. app.healthy => f \notin damaged
    BY <1>2, <1>5
  <1>7. app.blocked # "destroy"
    BY <1>2 DEF Inside
  <1>8. CASE PrepareSave
    <2>1. /\ dir' = dir /\ views' = views
          /\ app' = app \/ app' = [app EXCEPT !.task = "failed"]
      BY <1>8 DEF PrepareSave
    <2>2. /\ app'.vault = app.vault /\ app'.wctr = app.wctr /\ app'.wfile = app.wfile
          /\ app'.healthy = app.healthy /\ app'.blocked = app.blocked
      BY <1>2, <2>1 DEF Controller
    <2> QED
      BY <1>1, <1>2, <2>1, <2>2, PreservedFrame
  <1>9. CASE WriteSaveTemp
    <2> DEFINE e == [dir EXCEPT !.temps = @ \cup {f}]
    <2>1. dir' = e /\ views' = views \cup {e} /\ app' = app
      BY <1>9 DEF WriteSaveTemp, TempWritten, SetDir
    <2>2. /\ e.main = dir.main /\ e.orphans = dir.orphans
          /\ Containers(e) = Containers(dir) \cup {f}
      BY <1>2, TempAdded
    <2> HIDE DEF e
    <2>3. \A x \in damaged : (\A m \in e.main : m.gen = x.gen) =>
            \E y \in Containers(e) : y.gen = x.gen /\ y.ctr >= x.ctr
      BY <1>4, <2>2
    <2>4. app.healthy => \A x \in e.main \cap damaged : \A v \in views' : x \in v.orphans
      BY <1>2, <1>5, <2>1, <2>2
    <2> QED
      BY <1>1, <1>2, <1>3, <1>5, <1>7, <2>1, <2>3, <2>4 DEF Preserved
  <1>10. CASE RenameSave
    <2> DEFINE e == [dir EXCEPT !.main = {f}, !.temps = IF FALSE THEN @ ELSE @ \ {f}]
    <2>1. app.healthy /\ dir.main = app.wfile
      BY <1>2, <1>10 DEF RenameSave, IInv, Saving, Ours
    <2>2. dir' = e /\ app' = app
      BY <1>10, <2>1 DEF RenameSave, MainReplaced, SetDir
    <2>3. e.main = {f} /\ f \in Containers(e)
      BY <1>2, MainRenamed
    <2> HIDE DEF e
    <2>4. ASSUME NEW x \in damaged, \A m \in e.main : m.gen = x.gen
          PROVE  \E y \in Containers(e) : y.gen = x.gen /\ y.ctr >= x.ctr
      <3>1. x.gen = f.gen /\ x.ctr \in Nat /\ x.ctr <= app.wctr
        BY <1>2, <1>5, <2>1, <2>3, <2>4, FileFacts
      <3>2. f.ctr >= x.ctr
        BY <1>2, <3>1
      <3> QED
        BY <2>3, <3>1, <3>2
    <2>5. e.main \cap damaged = {}
      BY <1>6, <2>1, <2>3
    <2> QED
      BY <1>1, <1>2, <1>3, <1>5, <1>7, <2>2, <2>4, <2>5 DEF Preserved
  <1>11. CASE SyncSave
    <2>1. app.healthy /\ dir.main = {f}
      BY <1>2, <1>11 DEF SyncSave, IInv, Saving, Ours
    <2>2. dir' = dir /\ app' = [app EXCEPT !.task = "ok", !.wctr = f.ctr, !.wfile = {f}]
      BY <1>11, <2>1 DEF SyncSave, DirSynced, Committed
    <2>3. /\ app'.vault = app.vault /\ app'.wctr = f.ctr /\ app'.wfile = {f}
          /\ app'.blocked = app.blocked
      BY <1>2, <2>2 DEF Controller
    <2>4. \A x \in damaged : x.gen = app.vault.gen => x.ctr <= f.ctr
      <3>1. \A x \in damaged : x.ctr \in Nat
        BY <1>2, FileFacts
      <3> QED
        BY <1>2, <1>5, <2>1, <3>1
    <2>5. dir.main \cap damaged = {}
      BY <1>6, <2>1
    <2> QED
      BY <1>1, <1>3, <1>4, <1>7, <2>2, <2>3, <2>4, <2>5 DEF Preserved
  <1>12. CASE FailSave
    <2> DEFINE e == [dir EXCEPT !.temps = @ \ {f}]
    <2>1. app' = [app EXCEPT !.task = "failed", !.healthy = FALSE]
      BY <1>12 DEF FailSave, Poisoned
    <2>2. app'.healthy = FALSE /\ app'.blocked = app.blocked
      BY <1>2, <2>1 DEF Controller
    <2>3. CASE dir' = dir
      BY <1>1, <1>3, <1>4, <1>7, <2>2, <2>3 DEF Preserved
    <2>4. CASE save.stage = "written" /\ dir' = e
      <3>1. app.healthy /\ dir.main = app.wfile
        BY <1>2, <2>4 DEF IInv, Saving, Ours
      <3>2. e.main = dir.main /\ Containers(dir) \subseteq Containers(e) \cup {f}
        BY <1>2, TempRemoved
      <3>3. \A m \in dir.main : m \in Containers(e)
        <4>1. \A m \in dir.main : m # Torn
          BY <1>2, <3>1, FileFacts DEF Controller
        <4> QED
          BY <3>2, <4>1 DEF Containers
      <3> HIDE DEF e
      <3>4. ASSUME NEW x \in damaged, \A m \in e.main : m.gen = x.gen
            PROVE  \E y \in Containers(e) : y.gen = x.gen /\ y.ctr >= x.ctr
        <4>1. PICK y \in Containers(dir) : y.gen = x.gen /\ y.ctr >= x.ctr
          BY <1>4, <3>2, <3>4
        <4>2. CASE y # f
          BY <3>2, <4>1, <4>2
        <4>3. CASE y = f
          <5>1. x.gen = app.vault.gen /\ x.ctr <= app.wctr
            BY <1>2, <1>5, <3>1, <4>1, <4>3
          <5>2. PICK m \in app.wfile : TRUE
            BY <1>5, <3>1
          <5>3. m.gen = x.gen /\ m.ctr = app.wctr
            BY <1>5, <3>1, <3>2, <3>4, <5>1, <5>2
          <5>4. m.ctr >= x.ctr
            BY <1>2, <5>1, <5>3, FileFacts
          <5> QED
            BY <3>1, <3>3, <5>2, <5>3, <5>4
        <4> QED
          BY <4>2, <4>3
      <3> QED
        BY <1>1, <1>3, <1>7, <2>2, <2>4, <3>4 DEF Preserved
    <2> QED
      BY <1>12, <2>3, <2>4 DEF FailSave, TempDropped, SetDir
  <1> QED
    BY <1>8, <1>9, <1>10, <1>11, <1>12

-----------------------------------------------------------------------------
(* The unlock threads, the delivery that finds the damage, and the crash.  *)

(* While the app is locked only the directory matters, and what is newest. *)
LEMMA LockedPreserved ==
    ASSUME Preserved, app.phase = "locked", app' = app, damaged' = damaged,
           lastGen' = lastGen, dir'.main = dir.main,
           Containers(dir) \subseteq Containers(dir')
    PROVE  Preserved'
  BY DEF Preserved

LEMMA ThreadPreserved ==
    ASSUME IInv, Preserved, NEW u \in Unlockers,
           SpawnUnlock(u) \/ ReadCandidates(u) \/ Promote(u) \/ OwnWriter(u)
    PROVE  Preserved'
  <1> DEFINE f == unl[u].file
  <1>1. app' = app /\ damaged' = damaged /\ lastGen' = lastGen
    BY DEF SpawnUnlock, ReadCandidates, Promote, OwnWriter, UnchangedByUnlock
  <1>2. CASE SpawnUnlock(u)
    BY <1>1, <1>2, LockedPreserved DEF SpawnUnlock
  <1>3. CASE ReadCandidates(u)
    <2>1. app.phase = "locked" /\ dir' = dir
      BY <1>3, UnlockFacts DEF ReadCandidates
    <2> QED
      BY <1>1, <2>1, LockedPreserved
  <1>4. CASE Promote(u)
    <2>1. unl[u].stage \in {"start", "written", "renamed"}
      BY <1>4 DEF Promote
    <2>2. /\ app.phase = "locked" /\ dir \in Dir /\ unl[u] \in UnlockWork
          /\ Holds(u) /\ f \in File /\ unl[u].keep \in BOOLEAN
      BY <2>1, UnlockFacts DEF UnlockWork
    <2>3. /\ Top(dir, f) /\ f \in Containers(dir) /\ \A m \in dir.main : m.gen = f.gen
          /\ unl[u].stage \in {"start", "written"} /\ ~unl[u].keep => f \in dir.orphans
      BY <2>2 DEF Holds, Top
    <2>4. CASE TempWritten(f)
      <3>1. dir' = [dir EXCEPT !.temps = @ \cup {f}]
        BY <2>4 DEF TempWritten, SetDir
      <3>2. dir'.main = dir.main /\ Containers(dir) \subseteq Containers(dir')
        BY <2>2, <3>1, TempAdded
      <3> QED
        BY <1>1, <2>2, <3>2, LockedPreserved
    <2>5. CASE MainReplaced(f, unl[u].keep)
      <3>1. PICK k \in BOOLEAN : k = unl[u].keep
        BY <2>2
      <3>2. dir' = [dir EXCEPT !.main = {f}, !.temps = IF k THEN @ ELSE @ \ {f}]
        BY <2>5, <3>1 DEF MainReplaced, SetDir
      <3> HIDE DEF f
      <3> DEFINE e == [dir EXCEPT !.main = {f}, !.temps = IF k THEN @ ELSE @ \ {f}]
      <3>3. dir'.main = {f} /\ f \in Containers(dir')
        <4>1. e.main = {f} /\ f \in Containers(e)
          BY <2>2, MainRenamed
        <4>2. dir' = e
          BY <3>2
        <4> HIDE DEF e
        <4> QED
          BY <4>1, <4>2
      <3>4. ASSUME NEW x \in damaged, \A m \in dir'.main : m.gen = x.gen
            PROVE  \E y \in Containers(dir') : y.gen = x.gen /\ y.ctr >= x.ctr
        <4>1. x.gen = f.gen
          BY <3>3, <3>4
        <4>2. PICK y \in Containers(dir) : y.gen = x.gen /\ y.ctr >= x.ctr
          BY <2>3, <4>1 DEF Preserved
        <4>3. y.ctr <= f.ctr
          BY <2>3, <4>1, <4>2 DEF Top
        <4>4. x.ctr \in Nat /\ y.ctr \in Nat /\ f.ctr \in Nat
          BY <2>2, <4>2, ContainersAreFiles, FileFacts DEF IInv, Types
        <4>5. f.ctr >= x.ctr
          BY <4>2, <4>3, <4>4
        <4> QED
          BY <3>3, <4>1, <4>5
      <3> QED
        BY <1>1, <2>2, <3>4 DEF Preserved
    <2>6. CASE dir' = dir
      BY <1>1, <2>2, <2>6, LockedPreserved
    <2>7. CASE unl[u].stage = "written" /\ ~unl[u].keep /\ dir' = [dir EXCEPT !.temps = @ \ {f}]
      <3>1. f \in dir.main \cup dir.orphans
        BY <2>3, <2>7
      <3>2. dir'.main = dir.main /\ Containers(dir) \subseteq Containers(dir')
        BY <2>2, <2>7, <3>1, TempRemoved
      <3> QED
        BY <1>1, <2>2, <3>2, LockedPreserved
    <2> QED
      BY <1>4, <2>4, <2>5, <2>6, <2>7 DEF Promote, DirSynced, TempDropped, SetDir
  <1>5. CASE OwnWriter(u)
    <2>1. unl[u].stage = "own"
      BY <1>5 DEF OwnWriter
    <2>2. app.phase = "locked" /\ dir \in Dir /\ f \in File /\ dir.main = {f}
      BY <2>1, UnlockFacts DEF Holds
    <2>3. dir' = dir \/ dir' = [dir EXCEPT !.temps = @ \ {f}]
      BY <1>5 DEF OwnWriter, SetDir, Happens, Kept
    <2>4. dir'.main = dir.main /\ Containers(dir) \subseteq Containers(dir')
      <3> DEFINE e == [dir EXCEPT !.temps = @ \ {f}]
      <3>1. e.main = dir.main /\ Containers(e) = Containers(dir)
        BY <2>2, TempRemoved
      <3>2. dir' \in {dir, e}
        BY <2>3
      <3> HIDE DEF e
      <3> QED
        BY <3>1, <3>2
    <2> QED
      BY <1>1, <2>2, <2>4, LockedPreserved
  <1> QED
    BY <1>2, <1>3, <1>4, <1>5

LEMMA DeliverPreserved ==
    ASSUME IInv, Preserved, NEW u \in Unlockers, DeliverUnlock(u)
    PROVE  Preserved'
  <1> DEFINE f == unl[u].file
  <1>1. unl[u].stage \in {"refused", "opened"} /\ lastGen' = lastGen
    BY DEF DeliverUnlock
  <1>2. /\ app.phase = "locked" /\ dir \in Dir /\ dir \in views
        /\ \A v \in views : View(v, lastVer, lastGen, retired, acked)
        /\ unl[u].stage = "opened" => Holds(u) /\ f \in File
    BY <1>1, UnlockFacts
  <1>3. CASE UNCHANGED <<dir, views, app, acked, damaged, faults>>
    BY <1>1, <1>2, <1>3, LockedPreserved
  <1>4. CASE app' = [LockedApp EXCEPT !.blocked = "destroy"] /\ damaged' = {}
    <2>1. app'.phase = "locked"
      BY <1>4, LockedAppFacts DEF Controller
    <2> QED
      BY <1>4, <2>1 DEF Preserved
  <1>5. ASSUME unl[u].stage = "opened", NEW corrupt \in BOOLEAN, f \in damaged => corrupt,
               damaged' = IF corrupt THEN damaged \cup {f} ELSE damaged,
               NEW r \in EnsureQuarantined(Entered(f, corrupt)), app' = r.app, Happens(r)
        PROVE  Preserved'
    <2> DEFINE a == Entered(f, corrupt)
               g == CHOOSE x \in a.quar : TRUE
               e == WithOrphan(f)
    <2>1. /\ f \in File /\ dir.main = {f} /\ Top(dir, f) /\ f \in Containers(dir)
          /\ damaged \subseteq File
      BY <1>2, <1>5 DEF Holds, Top, IInv, Types
    <2>2. f.gen \in 1..lastGen
      BY <1>2, <2>1 DEF View, Made
    <2>3. /\ a.vault.gen = f.gen /\ a.wctr = f.ctr /\ a.wfile = {f} /\ a.blocked = "no"
          /\ (corrupt => a.quar = {f}) /\ (~corrupt => a.quar = {})
      BY DEF Entered, LockedApp
    <2>4. dir' = r.dir /\ views' = r.views
      BY <1>5 DEF Happens
    <2>5. /\ e.main = dir.main /\ f \in e.orphans /\ Containers(e) = Containers(dir)
      <3>1. e.main = dir.main /\ Containers(e) = Containers(dir)
        BY <1>2, <2>1, OrphanAdded DEF WithOrphan
      <3>2. f \in e.orphans
        BY <1>2 DEF WithOrphan, Dir
      <3> QED
        BY <3>1, <3>2
    <2> HIDE DEF e
    <2>6. /\ app'.vault.gen = f.gen /\ app'.wctr = f.ctr /\ app'.wfile = {f}
          /\ app'.blocked = "no"
          /\ dir' \in {dir, e}
          /\ app'.healthy /\ corrupt => views' = {e}
      <3> HIDE DEF a
      <3>1. CASE ~corrupt
        <4>1. r = Kept(a)
          BY <1>5, <2>3, <3>1, NothingToQuarantine DEF a
        <4> QED
          BY <1>5, <2>3, <2>4, <3>1, <4>1 DEF Kept
      <3>2. CASE corrupt
        <4>1. g = f /\ a.quar # {}
          BY <2>3, <3>2
        <4>2. r \in EnsureQuarantined(a)
          BY <1>5 DEF a
        <4>3. \/ \E n \in {0, 1} : r = [app |-> PersistenceFailed(a), dir |-> dir,
                                        views |-> views, bad |-> n]
              \/ r = [app |-> PersistenceFailed(a), dir |-> WithOrphan(g),
                      views |-> views \cup {WithOrphan(g)}, bad |-> 1]
              \/ r = [app |-> [a EXCEPT !.quar = {}, !.health = "Ready"],
                      dir |-> WithOrphan(g), views |-> {WithOrphan(g)}, bad |-> 0]
          BY <4>1, <4>2 DEF EnsureQuarantined
        <4>4. WithOrphan(g) = e
          BY <4>1 DEF e
        <4>5. /\ LET b == PersistenceFailed(a) IN
                   b.vault.gen = f.gen /\ b.wctr = f.ctr /\ b.wfile = {f} /\ b.blocked = "no"
              /\ LET b == [a EXCEPT !.quar = {}, !.health = "Ready"] IN
                   b.vault.gen = f.gen /\ b.wctr = f.ctr /\ b.wfile = {f} /\ b.blocked = "no"
          BY DEF PersistenceFailed, a, Entered, LockedApp
        <4>6. PersistenceFailed(a).healthy = FALSE
          BY DEF PersistenceFailed, a, Entered, LockedApp
        <4>7. \/ r.app = PersistenceFailed(a) /\ r.dir \in {dir, e}
              \/ r.app = [a EXCEPT !.quar = {}, !.health = "Ready"] /\ r.dir = e /\ r.views = {e}
          BY <4>3, <4>4
        <4> QED
          BY <1>5, <2>4, <4>5, <4>6, <4>7
      <3> QED
        BY <3>1, <3>2
    <2>7. dir'.main = {f} /\ Containers(dir') = Containers(dir)
      BY <2>1, <2>5, <2>6
    <2>8. \A x \in damaged' : x \in damaged \/ x = f
      BY <1>5
    <2>9. \A x \in damaged' : x.gen \in 1..lastGen
      BY <2>2, <2>8 DEF Preserved
    <2>10. ASSUME NEW x \in damaged', x.gen = f.gen PROVE x.ctr <= f.ctr
      <3>1. CASE x = f
        BY <2>1, <3>1, FileFacts
      <3>2. CASE x \in damaged
        <4>1. PICK y \in Containers(dir) : y.gen = x.gen /\ y.ctr >= x.ctr
          BY <2>1, <2>10, <3>2 DEF Preserved
        <4>2. y.ctr <= f.ctr
          BY <2>1, <2>10, <4>1 DEF Top
        <4>3. x.ctr \in Nat /\ y.ctr \in Nat /\ f.ctr \in Nat
          BY <1>2, <2>1, <3>2, <4>1, ContainersAreFiles, FileFacts
        <4> QED
          BY <4>1, <4>2, <4>3
      <3> QED
        BY <2>8, <3>1, <3>2
    <2>11. ASSUME NEW x \in damaged', \A m \in dir'.main : m.gen = x.gen
           PROVE  \E y \in Containers(dir') : y.gen = x.gen /\ y.ctr >= x.ctr
      <3>1. x.gen = f.gen /\ x.ctr <= f.ctr
        BY <2>7, <2>10, <2>11
      <3>2. f.ctr >= x.ctr
        BY <2>1, <2>8, <3>1, FileFacts
      <3> QED
        BY <2>1, <2>7, <3>1, <3>2
    <2>12. ASSUME app'.healthy, NEW x \in dir'.main \cap damaged', NEW v \in views'
           PROVE  x \in v.orphans
      <3>1. x = f /\ corrupt
        BY <1>5, <2>7, <2>12
      <3> QED
        BY <2>5, <2>6, <2>12, <3>1
    <2> QED
      BY <1>1, <2>6, <2>9, <2>10, <2>11, <2>12 DEF Preserved
  <1> QED
    BY <1>3, <1>4, <1>5 DEF DeliverUnlock

LEMMA CrashPreserved == IInv /\ Preserved /\ Crash => Preserved'
  <1> SUFFICES ASSUME IInv, Preserved, Crash PROVE Preserved'
    OBVIOUS
  <1>1. /\ app' = LockedApp /\ damaged' = damaged \cap Containers(dir') /\ lastGen' = lastGen
    BY DEF Crash
  <1>2. \A x \in damaged : x.ctr \in Nat
    BY FileFacts DEF IInv, Types
  <1> QED
    BY <1>1, <1>2, LockedAppFacts DEF Preserved

\* ensure_activity_quarantined: a session never saves over a container whose
\* history it could not read before a durable copy of it is aside.
THEOREM VaultDamagedHistoryKept ==
    ASSUME OneUnlockThread
    PROVE  Spec => DamagedHistoryKept
  <1>1. Init => Preserved
    BY LockedAppFacts DEF Init, Preserved
  <1>2. IInv /\ Preserved /\ [Next]_vars => Preserved'
    <2> SUFFICES ASSUME IInv, Preserved, [Next]_vars PROVE Preserved'
      OBVIOUS
    <2>1. CASE UNCHANGED vars
      BY <2>1, PreservedFrame DEF vars
    <2>2. CASE \/ Create \/ Edit \/ FlushSave \/ Barrier \/ RequestLock
               \/ StartRekey \/ RekeyReady \/ InvalidateKeyOps \/ FlushBlocked
      BY <2>2, SessionPreserved, NewSlotPreserved
    <2>3. CASE FinishFlush \/ DestroyOne \/ Crash
      BY <2>3, FinishFlushPreserved, DestroyOnePreserved, CrashPreserved
    <2>4. CASE PrepareSave \/ WriteSaveTemp \/ RenameSave \/ SyncSave \/ FailSave
      BY <2>4, SavePreserved
    <2>5. ASSUME NEW u \in Unlockers,
                 \/ SpawnUnlock(u) \/ ReadCandidates(u) \/ Promote(u)
                 \/ OwnWriter(u) \/ DeliverUnlock(u)
          PROVE  Preserved'
      BY <2>5, ThreadPreserved, DeliverPreserved
    <2> QED
      BY <2>1, <2>2, <2>3, <2>4, <2>5 DEF Next
  <1>3. IInv /\ Preserved =>
          [ (save.stage = "written" /\ save'.stage = "renamed") =>
            \A f \in dir.main \cap damaged : \A v \in views : f \in v.orphans ]_vars
    <2> SUFFICES ASSUME IInv, Preserved, save.stage = "written"
                 PROVE  \A f \in dir.main \cap damaged : \A v \in views : f \in v.orphans
      OBVIOUS
    <2>1. app.phase = "unlocked" /\ app.healthy
      BY SaveFacts DEF Saving
    <2> QED
      BY <2>1 DEF Preserved
  <1> QED
    BY <1>1, <1>2, <1>3, VaultInvariant, PTL DEF Spec, DamagedHistoryKept

=============================================================================
