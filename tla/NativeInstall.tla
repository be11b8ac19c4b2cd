---------------------------- MODULE NativeInstall ----------------------------
(***************************************************************************)
(* The cache directory of the native runtime, shared by processes          *)
(* (src/internal/native/runtime.go, Prepare), and the loading of the DLL   *)
(* from it (src/sdk/native_starter_windows.go, defaultNativeStarter).      *)
(*                                                                         *)
(* A build accepts one runtime, the one its compiled manifest names.       *)
(* Prepare holds a file lock of the operating system from before it looks  *)
(* at the cache until it returns.  An install puts the manifest in place,  *)
(* then the DLL; if the DLL cannot be put in place the manifest is put     *)
(* back.  The starter opens the DLL so that nobody can write or replace    *)
(* it, checks it, loads it and keeps it open while the session lives.      *)
(* Any step on the disk may fail, and a process may die at any time.       *)
(***************************************************************************)
EXTENDS Naturals

CONSTANTS
  Procs,       \* processes that share a cache directory
  Versions,    \* runtimes: a manifest and a DLL that belong together
  Want,        \* the runtime each process's build accepts
  Missing,     \* a file that is not there
  Junk,        \* a file that is no runtime of any build
  MaxDeaths    \* bound: processes that die

ASSUME WantAssumption == Want \in [Procs -> Versions]

ASSUME FilesAssumption == Missing \notin Versions /\ Junk \notin Versions /\ Missing # Junk

ASSUME MaxDeathsAssumption == MaxDeaths \in Nat

Contents == Versions \union {Missing, Junk}

Free == "free"

ASSUME FreeAssumption == Free \notin Procs

VARIABLES
  manifest,  \* manifest.json
  dll,       \* the DLL
  lock,      \* the process that holds the file lock, or Free
  pc,        \* where each process is
  old,       \* the manifest extractArchive read before it replaced it
  result,    \* what Prepare is about to return
  lease,     \* the processes that hold the DLL open
  loaded,    \* the DLL each process has loaded
  deaths,    \* processes that have died
  before,    \* history: both files when the process got the lock
  vouched    \* history: the runtimes Prepare has returned since another one's
             \* manifest was put in place

files == <<manifest, dll>>
installVars == <<manifest, dll, lock, pc, old, result, lease, loaded, deaths, before, vouched>>

Places == {"idle", "waiting", "locked", "missed", "staged", "manifestIn", "dllRefused",
           "returning", "vetted", "opened", "checked", "running"}

InstallTypeOK ==
  /\ {manifest, dll} \subseteq Contents
  /\ lock \in Procs \union {Free}
  /\ pc \in [Procs -> Places]
  /\ old \in [Procs -> Contents]
  /\ result \in [Procs -> {"none", "ok", "failed", "unrestored"}]
  /\ lease \subseteq Procs
  /\ loaded \in [Procs -> Contents]
  /\ deaths \in 0..MaxDeaths
  /\ before \in [Procs -> Contents \X Contents]
  /\ vouched \subseteq Versions

\* A cache left behind by anybody.
InstallInit ==
  /\ manifest \in Contents
  /\ dll \in Contents
  /\ lock = Free
  /\ pc = [p \in Procs |-> "idle"]
  /\ old = [p \in Procs |-> Missing]
  /\ result = [p \in Procs |-> "none"]
  /\ lease = {}
  /\ loaded = [p \in Procs |-> Missing]
  /\ deaths = 0
  /\ before = [p \in Procs |-> <<Missing, Missing>>]
  /\ vouched = {}

At(p, from, to) == pc[p] = from /\ pc' = [pc EXCEPT ![p] = to]

Ready(v) == manifest = v /\ dll = v

-----------------------------------------------------------------------------
(***************************************************************************)
(* Prepare.                                                                *)
(***************************************************************************)
Call(p) ==
  /\ At(p, "idle", "waiting")
  /\ UNCHANGED <<files, lock, old, result, lease, loaded, deaths, before, vouched>>

\* acquireLock polls until it has the lock.
AcquireLock(p) ==
  /\ lock = Free
  /\ At(p, "waiting", "locked")
  /\ lock' = p
  /\ before' = [before EXCEPT ![p] = <<manifest, dll>>]
  /\ UNCHANGED <<files, old, result, lease, loaded, deaths, vouched>>

\* ... its context ends, or the lock file fails.
GiveUpLock(p) ==
  /\ At(p, "waiting", "idle")
  /\ UNCHANGED <<files, lock, old, result, lease, loaded, deaths, before, vouched>>

\* Mutant of VerifyCachedRuntime: the DLL is there, so it is what the manifest says.
TrustManifest(p) ==
  /\ IF manifest = Want[p] /\ dll # Missing
     THEN At(p, "locked", "returning") /\ result' = [result EXCEPT ![p] = "ok"]
     ELSE At(p, "locked", "missed") /\ UNCHANGED result
  /\ UNCHANGED <<files, lock, old, lease, loaded, deaths, before, vouched>>

\* The cached manifest is the expected one and the DLL has its size and hash.
VerifyCachedRuntime(p) ==
  /\ IF Ready(Want[p])
     THEN At(p, "locked", "returning") /\ result' = [result EXCEPT ![p] = "ok"]
     ELSE At(p, "locked", "missed") /\ UNCHANGED result
  /\ UNCHANGED <<files, lock, old, lease, loaded, deaths, before, vouched>>

\* Mutant of Stage: the lock is held for the look at the cache only.
StageUnlocked(p) ==
  /\ At(p, "missed", "staged")
  /\ old' = [old EXCEPT ![p] = manifest]
  /\ lock' = Free
  /\ UNCHANGED <<files, result, lease, loaded, deaths, before, vouched>>

\* The archive is downloaded and its hash checked, its manifest and DLL are
\* unpacked into a directory of their own and checked, and the manifest in the
\* cache is read.
Stage(p) ==
  /\ At(p, "missed", "staged")
  /\ old' = [old EXCEPT ![p] = manifest]
  /\ UNCHANGED <<files, lock, result, lease, loaded, deaths, before, vouched>>

\* Offline, or one of these fails.
StageFails(p) ==
  /\ At(p, "missed", "returning")
  /\ result' = [result EXCEPT ![p] = "failed"]
  /\ UNCHANGED <<files, lock, old, lease, loaded, deaths, before, vouched>>

ReplaceManifest(p) ==
  /\ \/ /\ At(p, "staged", "manifestIn")
        /\ manifest' = Want[p]
        /\ vouched' = vouched \intersect {Want[p]}
        /\ UNCHANGED result
     \/ /\ At(p, "staged", "returning")
        /\ result' = [result EXCEPT ![p] = "failed"]
        /\ UNCHANGED <<manifest, vouched>>
  /\ UNCHANGED <<dll, lock, old, lease, loaded, deaths, before>>

\* A DLL that somebody holds open cannot be replaced.
Replaceable == lease = {}

\* Mutant of ReplaceDll: the handles of other processes do not stop it.
ReplaceOpenDll(p) ==
  /\ \/ /\ At(p, "manifestIn", "returning")
        /\ dll' = Want[p]
        /\ result' = [result EXCEPT ![p] = "ok"]
     \/ /\ At(p, "manifestIn", "dllRefused")
        /\ UNCHANGED <<dll, result>>
  /\ UNCHANGED <<manifest, lock, old, lease, loaded, deaths, before, vouched>>

ReplaceDll(p) ==
  /\ \/ /\ Replaceable
        /\ At(p, "manifestIn", "returning")
        /\ dll' = Want[p]
        /\ result' = [result EXCEPT ![p] = "ok"]
     \/ /\ At(p, "manifestIn", "dllRefused")
        /\ UNCHANGED <<dll, result>>
  /\ UNCHANGED <<manifest, lock, old, lease, loaded, deaths, before, vouched>>

\* Mutant of RestoreManifest: the new manifest is removed, whatever was there.
RemoveManifest(p) ==
  /\ At(p, "dllRefused", "returning")
  /\ \/ /\ manifest' = Missing
        /\ result' = [result EXCEPT ![p] = "failed"]
     \/ /\ result' = [result EXCEPT ![p] = "unrestored"]
        /\ UNCHANGED manifest
  /\ UNCHANGED <<dll, lock, old, lease, loaded, deaths, before, vouched>>

\* The manifest that was there is written back, or the new one removed.  A
\* failure of that is joined to the error that is returned.
RestoreManifest(p) ==
  /\ At(p, "dllRefused", "returning")
  /\ \/ /\ manifest' = old[p]
        /\ result' = [result EXCEPT ![p] = "failed"]
     \/ /\ result' = [result EXCEPT ![p] = "unrestored"]
        /\ UNCHANGED manifest
  /\ UNCHANGED <<dll, lock, old, lease, loaded, deaths, before, vouched>>

\* The deferred unlock, and the return.
Unlock(p) ==
  /\ At(p, "returning", "idle")
  /\ lock' = IF lock = p THEN Free ELSE lock
  /\ vouched' = IF result[p] = "ok" THEN vouched \union {Want[p]} ELSE vouched
  /\ result' = [result EXCEPT ![p] = "none"]
  /\ old' = [old EXCEPT ![p] = Missing]
  /\ before' = [before EXCEPT ![p] = <<Missing, Missing>>]
  /\ UNCHANGED <<files, lease, loaded, deaths>>

-----------------------------------------------------------------------------
(***************************************************************************)
(* The starter.  It may run at any time, on any path; nothing makes it     *)
(* follow a Prepare at once.                                               *)
(***************************************************************************)
\* loadNativeManifest: the manifest beside the DLL must be the expected one.
LoadManifest(p) ==
  /\ manifest = Want[p]
  /\ At(p, "idle", "vetted")
  /\ UNCHANGED <<files, lock, old, result, lease, loaded, deaths, before, vouched>>

\* Opened for reading and shared for reading only.
OpenTrustedRuntime(p) ==
  /\ IF dll = Missing
     THEN At(p, "vetted", "idle") /\ UNCHANGED lease
     ELSE At(p, "vetted", "opened") /\ lease' = lease \union {p}
  /\ UNCHANGED <<files, lock, old, result, loaded, deaths, before, vouched>>

\* Mutant of CheckNativeRuntime: the handle is given up once the file is checked.
CheckAndLetGo(p) ==
  /\ IF dll = Want[p]
     THEN At(p, "opened", "checked")
     ELSE At(p, "opened", "idle")
  /\ lease' = lease \ {p}
  /\ UNCHANGED <<files, lock, old, result, loaded, deaths, before, vouched>>

CheckNativeRuntime(p) ==
  /\ IF dll = Want[p]
     THEN At(p, "opened", "checked") /\ UNCHANGED lease
     ELSE At(p, "opened", "idle") /\ lease' = lease \ {p}
  /\ UNCHANGED <<files, lock, old, result, loaded, deaths, before, vouched>>

\* openNativeDevice loads the file at the path.
LoadRuntime(p) ==
  /\ At(p, "checked", "running")
  /\ loaded' = [loaded EXCEPT ![p] = dll]
  /\ UNCHANGED <<files, lock, old, result, lease, deaths, before, vouched>>

\* The load or the attachment fails, or the session is closed.
CloseRuntime(p) ==
  /\ At(p, "checked", "idle") \/ At(p, "running", "idle")
  /\ lease' = lease \ {p}
  /\ loaded' = [loaded EXCEPT ![p] = Missing]
  /\ UNCHANGED <<files, lock, old, result, deaths, before, vouched>>

\* A process dies; the system closes its files, which frees its lock.
Die(p) ==
  /\ deaths < MaxDeaths
  /\ pc[p] # "idle"
  /\ pc' = [pc EXCEPT ![p] = "idle"]
  /\ lock' = IF lock = p THEN Free ELSE lock
  /\ lease' = lease \ {p}
  /\ loaded' = [loaded EXCEPT ![p] = Missing]
  /\ old' = [old EXCEPT ![p] = Missing]
  /\ result' = [result EXCEPT ![p] = "none"]
  /\ before' = [before EXCEPT ![p] = <<Missing, Missing>>]
  /\ deaths' = deaths + 1
  /\ UNCHANGED <<files, vouched>>

InstallNext ==
  \E p \in Procs :
    \/ Call(p) \/ AcquireLock(p) \/ GiveUpLock(p) \/ VerifyCachedRuntime(p)
    \/ Stage(p) \/ StageFails(p) \/ ReplaceManifest(p) \/ ReplaceDll(p) \/ RestoreManifest(p)
    \/ Unlock(p)
    \/ LoadManifest(p) \/ OpenTrustedRuntime(p) \/ CheckNativeRuntime(p) \/ LoadRuntime(p) \/ CloseRuntime(p)
    \/ Die(p)

InstallSpec == InstallInit /\ [][InstallNext]_installVars

-----------------------------------------------------------------------------
\* When Prepare returns a path, both files in the cache are the runtime the build
\* asked for, even if an install died between the manifest and the DLL or somebody
\* left anything there ("an interrupted install cannot become a cache hit").
ReturnedIsWanted ==
  \A p \in Procs : result[p] = "ok" => Ready(Want[p])

\* An install that fails leaves both files as it found them, unless putting the
\* manifest back failed too, which is then reported (restoreManifest).
FailedInstallRestores ==
  \A p \in Procs : result[p] = "failed" => <<manifest, dll>> = before[p]

\* A runtime that Prepare has returned stays in the cache whatever the processes
\* that want the same one do, fail to do, or die doing; only an install of another
\* runtime ends it (the lock, verifyCachedRuntime and restoreManifest together).
VouchedStays == \A v \in vouched : Ready(v)

\* The code a process has loaded is the runtime its build accepts, whatever other
\* processes install between its check and its load (the trusted runtime lease).
LoadedIsTrusted ==
  \A p \in Procs : pc[p] = "running" => loaded[p] = Want[p]
=============================================================================
