--------------------------- MODULE SettingsProofs ---------------------------
(***************************************************************************)
(* Proofs about DashboardSettings: no change an endpoint made is lost, the *)
(* settings follow the files, for all clients, requests and contents and   *)
(* any number of runs of kite-login and crashes.                           *)
(***************************************************************************)
EXTENDS DashboardSettings, SequenceTheorems, TLAPS

-----------------------------------------------------------------------------
(* The invariant                                                           *)

Files == {"config", "env", "universe", "enabled"}

\* What a writer may write to a file, and what a file may be.
Content(f) ==
  IF f = "config" THEN Config
  ELSE IF f = "env" THEN EnvVars
  ELSE IF f = "universe" THEN SUBSET Symbols
  ELSE BOOLEAN
Text(f) == Content(f) \cup (IF f = "enabled" THEN {} ELSE {Missing, Empty})
Disk ==
  [config : Text("config"), bak : Text("config"), env : Text("env"),
   universe : Text("universe"), enabled : Text("enabled")]

NoRequest == [kind |-> "none"]
Stages ==
  {"idle", "waiting", "replace", "reload", "read", "fetch", "truncate", "write",
   "delete", "insert", "stamp"}
Handler ==
  [at : Stages, request : Requests \cup {NoRequest}, path : Paths, token : Nat,
   text : Config \cup EnvVars \cup (SUBSET Symbols) \cup BOOLEAN \cup {Unset}]

Typed ==
  /\ disk \in Disk /\ want \in Disk
  /\ cache \in [rows : Nat, stamp : Nat]
  /\ settings \in [config : Config, env : EnvVars]
  /\ queue \in Seq(Clients)
  /\ client \in [Clients -> Handler] /\ login \in Handler
  /\ issued \in Nat /\ logins \in Nat
  /\ environ \in EnvVars /\ crossed \in BOOLEAN

\* The requests that have a file.
Edits == InPlace \cup {"exchange", "toggle"}

\* Only the handler whose turn it is has begun.
Locked == \A c \in Clients : client[c].at \notin {"idle", "waiting"} => Turn(c)

\* Nothing is claimed of a file a crash truncated or two processes wrote, nor of
\* the switches once a toggle was given the row of another statement.
Claimed(f) == f \notin torn /\ ~(f = "env" /\ raced) /\ ~(f = "enabled" /\ crossed)

\* The text a handler or kite-login is about to write is the change it was asked
\* for, made to the file as it should be.
Writes(h) == h.at \in {"truncate", "write"}
Pending(c) ==
  LET h == client[c]
      f == FileOf(h.request.kind)
  IN  /\ h.at = "replace" => h.request.kind = "save" /\ h.request.config \in Config
      /\ Writes(h) =>
           /\ h.request.kind \in Edits
           /\ h.at = "truncate" => h.request.kind # "toggle"
           /\ h.text \in Content(f)
           /\ Claimed(f) => h.text = Edit(h.request, h.token, want[f])
LoginPending ==
  /\ login.at \in {"idle", "truncate", "write"}
  /\ login.at # "idle" =>
       /\ login.text \in EnvVars
       /\ Claimed("env") => login.text = PutToken(want.env, login.token)

\* A file is as it should be, unless its writer has just emptied it.
Emptied(f) ==
  \/ \E c \in Clients :
       client[c].at = "write" /\ FileOf(client[c].request.kind) = f /\ f # "enabled"
  \/ f = "env" /\ login.at = "write"
Kept(f) == Claimed(f) => disk[f] = want[f] \/ (disk[f] = Empty /\ Emptied(f))

\* The writers of .env that do not know of each other are known to have raced.
Apart == login.at # "idle" /\ ~raced => \A c \in Clients : ~WritesEnv(c)

\* Whoever changed a file that the settings come from is about to reload them.
Unloaded(c, kinds) ==
  \/ client[c].request.kind \in kinds /\ client[c].at \in {"write", "reload"}
  \/ "models" \in kinds /\ client[c].request.kind = "save" /\ client[c].at = "reload"
Loaded ==
  /\ settings.config = Load(disk, environ).config \/ \E c \in Clients : Unloaded(c, {"models"})
  /\ logins = 0 =>
       settings.env = Load(disk, environ).env \/ \E c \in Clients : Unloaded(c, {"keys", "exchange"})
  /\ login.at # "idle" => logins > 0

\* The rows and the stamp of a refresh under way.
Cached ==
  /\ cache.stamp <= issued /\ (cache.rows = 0 \/ cache.rows >= cache.stamp)
  /\ \A c \in Clients :
       /\ client[c].at \in {"delete", "insert", "stamp"} =>
            cache.stamp < client[c].token /\ client[c].token <= issued
       /\ client[c].at = "stamp" => cache.rows = client[c].token

IInv ==
  /\ Typed /\ Locked /\ LoginPending /\ Apart /\ Loaded /\ Cached
  /\ \A c \in Clients : Pending(c)
  /\ \A f \in Files : Kept(f)
  /\ WholeConfigs

-----------------------------------------------------------------------------
(* Requests and edits                                                      *)

LEMMA RequestFields ==
  ASSUME NEW r \in Requests
  PROVE  /\ r.kind = "save" => r.config \in Config \cup {Invalid}
         /\ r.kind = "models" => r.model \in Models
         /\ r.kind = "keys" => r.key \in Keys \cup {Unset}
         /\ r.kind \in {"add", "remove"} => r.symbol \in Symbols
         /\ r.kind # "none"
<1>1. r \in Request
  BY RequestsAssumption
<1>2. CASE r \in [kind : {"save"}, config : Config \cup {Invalid}]
  BY <1>2
<1>3. CASE r \in [kind : {"models"}, model : Models]
  BY <1>3
<1>4. CASE r \in [kind : {"keys"}, key : Keys \cup {Unset}]
  BY <1>4
<1>5. CASE r \in [kind : {"kill"}, engage : BOOLEAN]
  BY <1>5
<1>6. CASE r \in [kind : {"add", "remove"}, symbol : Symbols]
  BY <1>6
<1>7. CASE r \in [kind : {"seed", "toggle", "exchange", "refresh", "ask"}]
  BY <1>7
<1> QED
  BY <1>1, <1>2, <1>3, <1>4, <1>5, <1>6, <1>7 DEF Request

LEMMA FileOfKind ==
  /\ FileOf("models") = "config"
  /\ FileOf("keys") = "env" /\ FileOf("exchange") = "env"
  /\ FileOf("add") = "universe" /\ FileOf("remove") = "universe" /\ FileOf("seed") = "universe"
  /\ FileOf("toggle") = "enabled"
  /\ FileOf("save") = "none" /\ FileOf("kill") = "none" /\ FileOf("none") = "none"
  /\ FileOf("refresh") = "none" /\ FileOf("ask") = "none"
BY DEF FileOf

\* What update_env_access_token makes of a .env.
LEMMA PutTokenContent ==
  ASSUME NEW env \in Text("env"), env # Missing, NEW token \in Nat
  PROVE  PutToken(env, token) \in EnvVars
<1>1. CASE env = Empty
  BY <1>1, NullsAssumption DEF PutToken, Vars, NoVars, EnvVars
<1>2. CASE env \in EnvVars
  <2>1. env # Empty
    BY <1>2, NullsAssumption
  <2> QED
    BY <1>2, <2>1 DEF PutToken, Vars, EnvVars
<1> QED
  BY <1>1, <1>2 DEF Text, Content

\* An edit that is not refused makes a content of the file it edits.
LEMMA EditContent ==
  ASSUME NEW r \in Requests, r.kind \in Edits, NEW token \in Nat,
         NEW text \in Text(FileOf(r.kind)), Edit(r, token, text) # Refused
  PROVE  Edit(r, token, text) \in Content(FileOf(r.kind))
<1>1. CASE r.kind = "models"
  <2>1. Parsed(text) \in Config
    <3>1. text \in Config \cup {Missing, Empty}
      BY <1>1, FileOfKind DEF Text, Content
    <3> QED
      BY <3>1, DefaultsAssumption DEF Parsed, Defaults, Config
  <2>2. Edit(r, token, text) = MergeModel(text, r.model)
    BY <1>1 DEF Edit
  <2>3. MergeModel(text, r.model) \in Config
    BY <1>1, <2>1, RequestFields DEF MergeModel, Config
  <2> QED
    BY <1>1, <2>2, <2>3, FileOfKind DEF Content
<1>2. CASE r.kind = "keys"
  <2> DEFINE before == Vars(text)
  <2>1. before \in EnvVars
    <3>1. text \in EnvVars \cup {Missing, Empty}
      BY <1>2, FileOfKind DEF Text, Content
    <3> QED
      BY <3>1 DEF Vars, NoVars, EnvVars
  <2>2. Edit(r, token, text) = PutKey(text, r.key)
    BY <1>2 DEF Edit
  <2>3. PutKey(text, r.key) \in EnvVars \cup {Refused}
    <3> HIDE DEF before
    <3>1. [before EXCEPT !.key = r.key] \in EnvVars
      BY <1>2, <2>1, RequestFields DEF EnvVars
    <3> QED
      BY <3>1 DEF PutKey, before
  <2> QED
    BY <1>2, <2>2, <2>3, FileOfKind DEF Content
<1>3. CASE r.kind = "exchange"
  <2>1. Edit(r, token, text) = PutToken(text, token) /\ text \in Text("env")
    BY <1>3, FileOfKind DEF Edit
  <2>2. text # Missing
    BY <2>1 DEF PutToken
  <2> QED
    BY <1>3, <2>1, <2>2, PutTokenContent, FileOfKind DEF Content
<1>4. CASE r.kind \in {"add", "remove", "seed"}
  <2>1. text \in (SUBSET Symbols) \cup {Missing, Empty}
    BY <1>4, FileOfKind DEF Text, Content
  <2>2. text # Empty => Current(text) \in SUBSET Symbols
    BY <2>1, UniverseAssumption DEF Current
  <2>3. Edit(r, token, text) =
          IF r.kind = "add" THEN Added(text, r.symbol)
          ELSE IF r.kind = "remove" THEN Removed(text, r.symbol) ELSE Seeded(text)
    BY <1>4 DEF Edit
  <2>4. Edit(r, token, text) \in (SUBSET Symbols) \cup {Refused}
    BY <1>4, <2>1, <2>2, <2>3, RequestFields, UniverseAssumption DEF Added, Removed, Seeded
  <2> QED
    BY <1>4, <2>4, FileOfKind DEF Content
<1>5. CASE r.kind = "toggle"
  <2>1. text \in BOOLEAN /\ Edit(r, token, text) = ~text
    BY <1>5, FileOfKind DEF Text, Content, Edit
  <2> QED
    BY <1>5, <2>1, FileOfKind DEF Content
<1> QED
  BY <1>1, <1>2, <1>3, <1>4, <1>5 DEF Edits, InPlace

\* The requests that have a file, and their files.
LEMMA FileOfInPlace ==
  ASSUME NEW kind \in Edits
  PROVE  /\ FileOf(kind) \in Files
         /\ FileOf(kind) = "config" <=> kind = "models"
         /\ FileOf(kind) = "env" <=> kind \in {"keys", "exchange"}
         /\ FileOf(kind) = "enabled" <=> kind = "toggle"
BY FileOfKind DEF Edits, InPlace, Files

-----------------------------------------------------------------------------
(* The lock                                                                *)

\* A handler that keeps the lock, or gives it to the next.
LEMMA LockKept ==
  ASSUME IInv, NEW c \in Clients, Turn(c), NEW h \in Handler,
         client' = [client EXCEPT ![c] = h],
         UNCHANGED queue \/ (queue' = Tail(queue) /\ h.at = "idle")
  PROVE  /\ client' \in [Clients -> Handler] /\ client'[c] = h
         /\ \A d \in Clients : d # c => client'[d] = client[d]
         /\ \A d \in Clients : d # c => client[d].at \in {"idle", "waiting"}
         /\ queue' \in Seq(Clients) /\ Locked'
<1>1. client \in [Clients -> Handler] /\ queue \in Seq(Clients) /\ queue # <<>>
  BY DEF IInv, Typed, Turn
<1>2. /\ client' \in [Clients -> Handler] /\ client'[c] = h
      /\ \A d \in Clients : d # c => client'[d] = client[d]
  BY <1>1
<1>3. \A d \in Clients : d # c => client[d].at \in {"idle", "waiting"}
  BY DEF IInv, Locked, Turn
<1>4. queue' \in Seq(Clients)
  BY <1>1
<1>5. Locked'
  BY <1>2, <1>3 DEF Locked, Turn
<1> QED
  BY <1>2, <1>3, <1>4, <1>5

LEMMA IdleType == Idle \in Handler
  BY DefaultsAssumption DEF Idle, Handler, Stages, NoRequest

LEMMA ReleaseKeeps ==
  ASSUME IInv, NEW c \in Clients, Turn(c), Release(c)
  PROVE  /\ client' \in [Clients -> Handler] /\ client'[c] = Idle
         /\ \A d \in Clients : d # c => client'[d] = client[d]
         /\ \A d \in Clients : d # c => client[d].at \in {"idle", "waiting"}
         /\ queue' \in Seq(Clients) /\ Locked'
<1>1. Idle.at = "idle"
  BY DEF Idle
<1> QED
  BY <1>1, IdleType, LockKept DEF Release

LEMMA GotoKeeps ==
  ASSUME IInv, NEW c \in Clients, Turn(c), NEW at \in Stages, Goto(c, at)
  PROVE  /\ client' \in [Clients -> Handler]
         /\ client'[c] = [client[c] EXCEPT !.at = at]
         /\ client'[c].at = at /\ client'[c].request = client[c].request
         /\ client'[c].token = client[c].token /\ client'[c].text = client[c].text
         /\ \A d \in Clients : d # c => client'[d] = client[d]
         /\ \A d \in Clients : d # c => client[d].at \in {"idle", "waiting"}
         /\ queue' \in Seq(Clients) /\ Locked'
<1>1. client[c] \in Handler
  BY DEF IInv, Typed
<1>2. [client[c] EXCEPT !.at = at] \in Handler
  BY <1>1 DEF Handler
<1> QED
  BY <1>1, <1>2, LockKept DEF Goto, Handler

-----------------------------------------------------------------------------
(* What most steps leave as it was                                         *)

\* A handler that is not writing a file moves to where it does not write one.
LEMMA FilesKept ==
  ASSUME IInv, NEW c \in Clients, ~Writes(client[c]), ~Writes(client'[c]),
         client'[c].at = "replace" =>
           client'[c].request.kind = "save" /\ client'[c].request.config \in Config,
         \A d \in Clients : d # c => client'[d] = client[d],
         \A f \in Files : disk'[f] = disk[f],
         UNCHANGED <<want, torn, raced, login, environ, crossed>>
  PROVE  /\ LoginPending' /\ Apart' /\ WholeConfigs'
         /\ \A d \in Clients : Pending(d)'
         /\ \A f \in Files : Kept(f)'
<1>1. \A f : Claimed(f)' <=> Claimed(f)
  BY DEF Claimed
<1>2. LoginPending'
  BY <1>1 DEF IInv, LoginPending
<1>3. Apart'
  BY DEF IInv, Apart, WritesEnv, Writes
<1>4. WholeConfigs'
  BY DEF IInv, WholeConfigs, Writes, Files
<1>5. ASSUME NEW d \in Clients PROVE Pending(d)'
  <2>1. CASE d = c
    BY <2>1 DEF Pending
  <2>2. CASE d # c
    BY <1>1, <2>2 DEF IInv, Pending, Writes
  <2> QED
    BY <2>1, <2>2
<1>6. ASSUME NEW f \in Files PROVE Kept(f)'
  <2>1. Emptied(f) => Emptied(f)'
    BY DEF Emptied, Writes
  <2> QED
    BY <1>1, <2>1 DEF IInv, Kept
<1> QED
  BY <1>2, <1>3, <1>4, <1>5, <1>6

\* One that need not reload the settings moves on.
LEMMA LoadedKept ==
  ASSUME IInv, NEW c \in Clients, client[c].at \notin {"write", "reload"},
         \A d \in Clients : d # c => client'[d] = client[d],
         disk'.config = disk.config, disk'.env = disk.env,
         UNCHANGED <<settings, login, logins, environ>>
  PROVE  Loaded'
<1>1. Load(disk', environ').config = Load(disk, environ).config /\ Load(disk', environ').env = Load(disk, environ).env
  BY DEF Load
<1>2. \A d \in Clients : \A kinds : Unloaded(d, kinds) => Unloaded(d, kinds)'
  BY DEF Unloaded
<1> QED
  BY <1>1, <1>2 DEF IInv, Loaded

\* One that is not at work on the instruments cache.
LEMMA CachedKept ==
  ASSUME IInv, NEW c \in Clients, client'[c].at \notin {"delete", "insert", "stamp"},
         \A d \in Clients : d # c => client'[d] = client[d],
         issued' \in Nat, issued <= issued', UNCHANGED cache
  PROVE  Cached'
<1>1. /\ cache.stamp \in Nat /\ issued \in Nat
      /\ \A d \in Clients : client[d].token \in Nat
  BY DEF IInv, Typed, Handler
<1> QED
  BY <1>1 DEF IInv, Cached

-----------------------------------------------------------------------------
(* The handlers                                                            *)

\* A handler that has nothing to do with the files gives the lock back.
LEMMA ReleaseStep ==
  ASSUME IInv, NEW c \in Clients, Turn(c), ~Writes(client[c]), client[c].at # "reload",
         Release(c), issued' \in Nat, issued <= issued',
         UNCHANGED <<disk, cache, settings, login, want, torn, raced, logins,
                     environ, crossed>>
  PROVE  IInv'
<1>1. /\ client' \in [Clients -> Handler] /\ client'[c] = Idle
      /\ \A d \in Clients : d # c => client'[d] = client[d]
      /\ queue' \in Seq(Clients) /\ Locked'
  BY ReleaseKeeps
<1>2. client'[c].at = "idle"
  BY <1>1 DEF Idle
<1>3. Typed'
  BY <1>1 DEF IInv, Typed
<1>4. /\ LoginPending' /\ Apart' /\ WholeConfigs'
      /\ \A d \in Clients : Pending(d)'
      /\ \A f \in Files : Kept(f)'
  BY <1>1, <1>2, FilesKept DEF Writes
<1>5. Loaded'
  BY <1>1, LoadedKept DEF Writes
<1>6. Cached'
  BY <1>1, <1>2, CachedKept
<1> QED
  BY <1>1, <1>3, <1>4, <1>5, <1>6 DEF IInv

LEMMA ArriveStep ==
  ASSUME IInv, NEW c \in Clients, Arrive(c)
  PROVE  IInv'
<1>1. PICK r \in Requests :
        client' = [client EXCEPT ![c] = [Idle EXCEPT !.at = "waiting", !.request = r,
                                                     !.path = settings.config.kill]]
  BY DEF Arrive, shared
<1>2. /\ client[c].at = "idle" /\ queue' = Append(queue, c)
      /\ UNCHANGED <<disk, cache, settings, login, issued, want, torn, raced, logins,
                     environ, crossed>>
  BY DEF Arrive, shared
<1>3. Typed /\ Locked
  BY DEF IInv
<1>4. settings.config.kill \in Paths
  BY <1>3 DEF Typed, Config
<1>5. [Idle EXCEPT !.at = "waiting", !.request = r, !.path = settings.config.kill] \in Handler
  BY <1>4, IdleType DEF Handler, Stages
<1>6. /\ client' \in [Clients -> Handler] /\ client'[c].at = "waiting"
      /\ \A d \in Clients : d # c => client'[d] = client[d]
  BY <1>1, <1>3, <1>5, IdleType DEF Typed, Handler
<1>7. queue' \in Seq(Clients) /\ (queue # <<>> => queue' # <<>> /\ Head(queue') = Head(queue))
  BY <1>2, <1>3 DEF Typed
<1>8. Typed' /\ Locked'
  BY <1>2, <1>3, <1>6, <1>7 DEF Typed, Locked, Turn
<1>9. /\ LoginPending' /\ Apart' /\ WholeConfigs'
      /\ \A d \in Clients : Pending(d)'
      /\ \A f \in Files : Kept(f)'
  BY <1>2, <1>6, FilesKept DEF Writes
<1>10. Loaded'
  BY <1>2, <1>6, LoadedKept
<1>11. Cached'
  BY <1>2, <1>3, <1>6, CachedKept DEF Typed
<1> QED
  BY <1>8, <1>9, <1>10, <1>11 DEF IInv

\* Handlers that go idle without having written a file.
LEMMA BriefStep ==
  ASSUME IInv, NEW c \in Clients, SaveInvalid(c) \/ KillSet(c) \/ Answered(c)
  PROVE  IInv'
<1>1. /\ Turn(c) /\ client[c].at = "waiting" /\ Release(c)
      /\ UNCHANGED <<disk, cache, settings, login, issued, want, torn, raced, logins,
                     environ, crossed>>
  BY DEF SaveInvalid, KillSet, Answered, At, shared
<1>2. issued \in Nat
  BY DEF IInv, Typed
<1> QED
  BY <1>1, <1>2, ReleaseStep DEF Writes

LEMMA SaveBackupStep ==
  ASSUME IInv, NEW c \in Clients, SaveBackup(c)
  PROVE  IInv'
<1>1. /\ Turn(c) /\ client[c].at = "waiting" /\ client[c].request.kind = "save"
      /\ client[c].request.config # Invalid
      /\ disk' = IF disk.config = Missing THEN disk ELSE [disk EXCEPT !.bak = disk.config]
      /\ Goto(c, "replace")
      /\ UNCHANGED <<cache, settings, login, issued, want, torn, raced, logins,
                     environ, crossed>>
  BY DEF SaveBackup, At, shared
<1>2. /\ client' \in [Clients -> Handler]
      /\ client'[c].at = "replace" /\ client'[c].request = client[c].request
      /\ \A d \in Clients : d # c => client'[d] = client[d]
      /\ queue' \in Seq(Clients) /\ Locked'
  BY <1>1, GotoKeeps DEF Stages
<1>3. client[c].request.config \in Config
  <2>1. client[c].request \in Requests
    BY <1>1 DEF IInv, Typed, Handler, NoRequest
  <2> QED
    BY <1>1, <2>1, RequestFields
<1>4. disk' \in Disk /\ \A f \in Files : disk'[f] = disk[f]
  <2>1. disk \in Disk
    BY DEF IInv, Typed
  <2> QED
    BY <1>1, <2>1 DEF Disk, Files
<1>5. disk'.config = disk.config /\ disk'.env = disk.env
  BY <1>4 DEF Files
<1>6. Typed'
  BY <1>1, <1>2, <1>4 DEF IInv, Typed
<1>7. /\ LoginPending' /\ Apart' /\ WholeConfigs'
      /\ \A d \in Clients : Pending(d)'
      /\ \A f \in Files : Kept(f)'
  BY <1>1, <1>2, <1>3, <1>4, FilesKept DEF Writes
<1>8. Loaded'
  BY <1>1, <1>2, <1>5, LoadedKept
<1>9. Cached'
  BY <1>1, <1>2, CachedKept DEF IInv, Typed
<1> QED
  BY <1>2, <1>6, <1>7, <1>8, <1>9 DEF IInv

\* The settings page's text is the file, and whole.
LEMMA SaveReplaceStep ==
  ASSUME IInv, NEW c \in Clients, SaveReplace(c)
  PROVE  IInv'
<1> DEFINE text == client[c].request.config
<1>1. /\ Turn(c) /\ client[c].at = "replace" /\ client[c].request.kind = "save"
      /\ disk' = [disk EXCEPT !.config = text] /\ want' = [want EXCEPT !.config = text]
      /\ torn' = torn \ {"config"} /\ Goto(c, "reload")
      /\ UNCHANGED <<cache, settings, login, issued, raced, logins, environ, crossed>>
  BY DEF SaveReplace, At, shared
<1>2. /\ client' \in [Clients -> Handler]
      /\ client'[c].at = "reload" /\ client'[c].request = client[c].request
      /\ \A d \in Clients : d # c => client'[d] = client[d]
      /\ \A d \in Clients : d # c => client[d].at \in {"idle", "waiting"}
      /\ queue' \in Seq(Clients) /\ Locked'
  BY <1>1, GotoKeeps DEF Stages
<1>3. text \in Config /\ text # Empty
  BY <1>1, NullsAssumption DEF IInv, Pending
<1>4. disk \in Disk /\ want \in Disk
  BY DEF IInv, Typed
<1>5. /\ disk' \in Disk /\ disk'.config = text
      /\ want' \in Disk /\ want'.config = text
      /\ \A f \in Files : f # "config" => disk'[f] = disk[f] /\ want'[f] = want[f]
  BY <1>1, <1>3, <1>4 DEF Disk, Files, Text, Content
<1>6. want'.env = want.env /\ disk'.env = disk.env
  BY <1>5 DEF Files
<1>7. Typed'
  BY <1>1, <1>2, <1>5 DEF IInv, Typed
<1>8. \A f : f # "config" => (Claimed(f)' <=> Claimed(f))
  BY <1>1 DEF Claimed
<1>9. LoginPending'
  BY <1>1, <1>6, <1>8 DEF IInv, LoginPending
<1>10. Apart'
  BY <1>1, <1>2 DEF IInv, Apart, WritesEnv
<1>11. WholeConfigs'
  BY <1>3, <1>5 DEF WholeConfigs
<1>12. ASSUME NEW d \in Clients PROVE Pending(d)'
  <2>1. CASE d = c
    BY <1>2, <2>1 DEF Pending, Writes
  <2>2. CASE d # c
    BY <1>2, <2>2 DEF Pending, Writes
  <2> QED
    BY <2>1, <2>2
<1>13. ASSUME NEW f \in Files PROVE Kept(f)'
  <2>1. CASE f = "config"
    BY <1>5, <2>1 DEF Kept
  <2>2. CASE f # "config"
    <3>1. Emptied(f) => Emptied(f)'
      BY <1>1, <1>2 DEF Emptied
    <3> QED
      BY <1>5, <1>8, <2>2, <3>1 DEF IInv, Kept
  <2> QED
    BY <2>1, <2>2
<1>14. Loaded'
  <2>1. Unloaded(c, {"models"})'
    BY <1>1, <1>2 DEF Unloaded
  <2>2. Load(disk', environ').env = Load(disk, environ).env
    BY <1>1, <1>6 DEF Load
  <2>3. \A d \in Clients : Unloaded(d, {"keys", "exchange"}) => Unloaded(d, {"keys", "exchange"})'
    BY <1>1, <1>2 DEF Unloaded
  <2> QED
    BY <1>1, <2>1, <2>2, <2>3 DEF IInv, Loaded
<1>15. Cached'
  <2>1. issued' \in Nat /\ issued <= issued'
    BY <1>1 DEF IInv, Typed
  <2> QED
    BY <1>1, <1>2, <2>1, CachedKept
<1> QED
  BY <1>2, <1>7, <1>9, <1>10, <1>11, <1>12, <1>13, <1>14, <1>15 DEF IInv

LEMMA VarsType ==
  ASSUME NEW files \in Disk
  PROVE  Vars(files.env) \in EnvVars
BY DEF Disk, Text, Content, Vars, NoVars, EnvVars

\* What the files and the environment say is a configuration and variables.
LEMMA LoadType ==
  ASSUME NEW files \in Disk, NEW env \in EnvVars
  PROVE  Load(files, env) \in [config : Config, env : EnvVars]
<1>1. /\ files.config \in Config \cup {Missing, Empty}
      /\ files.env \in EnvVars \cup {Missing, Empty}
  BY DEF Disk, Text, Content
<1>2. Parsed(files.config) \in Config
  BY <1>1, DefaultsAssumption DEF Parsed, Defaults, Config
<1>3. Vars(files.env) \in EnvVars
  BY VarsType
<1> QED
  BY <1>2, <1>3 DEF Load, Given, EnvVars

LEMMA ReloadStep ==
  ASSUME IInv, NEW c \in Clients, Reload(c)
  PROVE  IInv'
<1>1. /\ Turn(c) /\ client[c].at = "reload" /\ settings' = Load(disk, environ) /\ Release(c)
      /\ UNCHANGED <<disk, cache, login, issued, want, torn, raced, logins,
                     environ, crossed>>
  BY DEF Reload, At, shared
<1>2. /\ client' \in [Clients -> Handler] /\ client'[c] = Idle
      /\ \A d \in Clients : d # c => client'[d] = client[d]
      /\ queue' \in Seq(Clients) /\ Locked'
  BY <1>1, ReleaseKeeps
<1>3. client'[c].at = "idle"
  BY <1>2 DEF Idle
<1>4. Typed'
  BY <1>1, <1>2, LoadType DEF IInv, Typed
<1>5. /\ LoginPending' /\ Apart' /\ WholeConfigs'
      /\ \A d \in Clients : Pending(d)'
      /\ \A f \in Files : Kept(f)'
  BY <1>1, <1>2, <1>3, FilesKept DEF Writes
<1>6. Loaded'
  BY <1>1 DEF IInv, Loaded
<1>7. Cached'
  BY <1>1, <1>2, <1>3, CachedKept DEF IInv, Typed
<1> QED
  BY <1>2, <1>4, <1>5, <1>6, <1>7 DEF IInv

LEMMA ExchangeStep ==
  ASSUME IInv, NEW c \in Clients, Exchange(c)
  PROVE  IInv'
<1>1. /\ Turn(c) /\ client[c].at = "waiting"
      /\ UNCHANGED <<disk, cache, settings, login, want, torn, raced, logins,
                     environ, crossed>>
  BY DEF Exchange, At, shared
<1>2. Typed /\ issued \in Nat /\ client[c] \in Handler
  BY DEF IInv, Typed
<1>3. CASE Release(c) /\ UNCHANGED issued
  BY <1>1, <1>2, <1>3, ReleaseStep DEF Writes
<1>4. CASE /\ issued' = issued + 1
           /\ client' = [client EXCEPT ![c].at = "read", ![c].token = issued + 1]
           /\ UNCHANGED queue
  <2> DEFINE h == [client[c] EXCEPT !.at = "read", !.token = issued + 1]
  <2>1. h \in Handler /\ h.at = "read" /\ client' = [client EXCEPT ![c] = h]
    <3>1. h \in Handler /\ h.at = "read"
      <4>1. issued + 1 \in Nat
        BY <1>2
      <4> QED
        BY <1>2, <4>1 DEF Handler, Stages
    <3>2. client' = [client EXCEPT ![c] = h]
      BY <1>4
    <3> QED
      BY <3>1, <3>2
  <2> HIDE DEF h
  <2>2. /\ client' \in [Clients -> Handler] /\ client'[c].at = "read"
        /\ \A d \in Clients : d # c => client'[d] = client[d]
        /\ queue' \in Seq(Clients) /\ Locked'
    BY <1>1, <1>4, <2>1, LockKept
  <2>3. Typed'
    BY <1>1, <1>2, <1>4, <2>2 DEF Typed
  <2>4. /\ LoginPending' /\ Apart' /\ WholeConfigs'
        /\ \A d \in Clients : Pending(d)'
        /\ \A f \in Files : Kept(f)'
    BY <1>1, <2>2, FilesKept DEF Writes
  <2>5. Loaded'
    BY <1>1, <2>2, LoadedKept
  <2>6. Cached'
    BY <1>1, <1>2, <1>4, <2>2, CachedKept
  <2> QED
    BY <2>2, <2>3, <2>4, <2>5, <2>6 DEF IInv
<1> QED
  BY <1>3, <1>4 DEF Exchange

\* The contents of one file change.
Put(files, f, new) == [files EXCEPT ![f] = new]

LEMMA FileChanged ==
  ASSUME NEW files \in Disk, NEW f \in Files, NEW new \in Text(f)
  PROVE  /\ Put(files, f, new) \in Disk
         /\ Put(files, f, new)[f] = new
         /\ \A g \in Files : g # f => Put(files, f, new)[g] = files[g]
BY DEF Disk, Files, Put

LEMMA FileType ==
  ASSUME NEW files \in Disk, NEW f \in Files
  PROVE  files[f] \in Text(f)
BY DEF Disk, Files

LEMMA ContentType ==
  ASSUME NEW f \in Files
  PROVE  /\ Content(f) \subseteq Config \cup EnvVars \cup (SUBSET Symbols) \cup BOOLEAN \cup {Unset}
         /\ Content(f) \subseteq Text(f)
         /\ Refused \notin Content(f) /\ Empty \notin Content(f)
         /\ f # "enabled" => Empty \in Text(f)
BY NullsAssumption DEF Content, Text, Files

\* What is read is the file as it should be, or it is known to be contended.
LEMMA ReadFileStep ==
  ASSUME IInv, NEW c \in Clients, ReadFile(c)
  PROVE  IInv'
<1>0. PICK r, f, new :
        /\ r = client[c].request /\ f = FileOf(r.kind)
        /\ new = Edit(r, client[c].token, disk[f])
  OBVIOUS
<1>1. /\ Turn(c) /\ client[c].at \in {"waiting", "read"} /\ r.kind \in InPlace \cup {"exchange"}
      /\ UNCHANGED <<disk, cache, settings, login, issued, want, torn, logins, environ, crossed>>
  BY <1>0 DEF ReadFile, At, shared
<1>2. /\ Typed /\ client[c] \in Handler /\ disk \in Disk /\ issued \in Nat
      /\ client[c].token \in Nat
  BY DEF IInv, Typed, Handler
<1>3. r \in Requests /\ f \in Files
  <2>1. r.kind # "none" /\ r.kind \in Edits
    BY <1>1 DEF Edits, InPlace
  <2> QED
    BY <1>0, <1>1, <1>2, <2>1, FileOfInPlace DEF Handler, NoRequest
<1>4. CASE /\ IF r.kind = "keys" THEN Goto(c, "reload") ELSE Release(c)
           /\ UNCHANGED raced
  <2>1. CASE Release(c)
    BY <1>1, <1>2, <1>4, <2>1, ReleaseStep DEF Writes
  <2>2. CASE Goto(c, "reload")
    <3>1. /\ client' \in [Clients -> Handler] /\ client'[c].at = "reload"
          /\ \A d \in Clients : d # c => client'[d] = client[d]
          /\ queue' \in Seq(Clients) /\ Locked'
      BY <1>1, <2>2, GotoKeeps DEF Stages
    <3>2. Typed'
      BY <1>1, <1>2, <3>1 DEF Typed
    <3>3. /\ LoginPending' /\ Apart' /\ WholeConfigs'
          /\ \A d \in Clients : Pending(d)'
          /\ \A g \in Files : Kept(g)'
      BY <1>1, <1>4, <3>1, FilesKept DEF Writes
    <3>4. Loaded'
      BY <1>1, <3>1, LoadedKept
    <3>5. Cached'
      BY <1>1, <1>2, <3>1, CachedKept
    <3> QED
      BY <3>1, <3>2, <3>3, <3>4, <3>5 DEF IInv
  <2> QED
    BY <1>4, <2>1, <2>2
<1>5. CASE /\ new # Refused
           /\ client' = [client EXCEPT ![c].at = "truncate", ![c].text = new]
           /\ raced' = (raced \/ (f = "env" /\ login.at # "idle"))
           /\ UNCHANGED queue
  <2> DEFINE h == [client[c] EXCEPT !.at = "truncate", !.text = new]
  <2>1. new \in Content(f)
    BY <1>0, <1>1, <1>2, <1>3, <1>5, FileType, EditContent DEF Edits
  <2>2. /\ h \in Handler /\ h.at = "truncate"
        /\ h.text = new /\ h.request = r /\ h.token = client[c].token
    <3>1. new \in Config \cup EnvVars \cup (SUBSET Symbols) \cup BOOLEAN \cup {Unset}
      BY <1>3, <2>1, ContentType
    <3> QED
      BY <1>0, <1>2, <3>1 DEF Handler, Stages
  <2>3. client' = [client EXCEPT ![c] = h]
    BY <1>5
  <2> HIDE DEF h
  <2>4. /\ client' \in [Clients -> Handler] /\ client'[c] = h
        /\ \A d \in Clients : d # c => client'[d] = client[d]
        /\ \A d \in Clients : d # c => client[d].at \in {"idle", "waiting"}
        /\ queue' \in Seq(Clients) /\ Locked'
    BY <1>1, <1>5, <2>2, <2>3, LockKept
  <2>5. Typed'
    BY <1>1, <1>2, <2>4 DEF Typed
  <2>6. \A g : Claimed(g)' => Claimed(g)
    BY <1>1, <1>5 DEF Claimed
  <2>7. Claimed(f)' => disk[f] = want[f]
    <3>1. ASSUME Claimed(f)' PROVE ~Emptied(f)
      <4>1. ~(f = "env" /\ login.at = "write")
        BY <1>5, <3>1 DEF Claimed
      <4> QED
        BY <1>1, <2>4, <4>1 DEF Emptied
    <3> QED
      BY <1>3, <2>6, <3>1 DEF IInv, Kept
  <2>8. ASSUME NEW d \in Clients PROVE Pending(d)'
    <3>1. CASE d = c
      <4>1. r.kind # "toggle"
        BY <1>1 DEF InPlace
      <4>2. Claimed(f)' => new = Edit(r, h.token, want'[f])
        BY <1>0, <1>1, <2>2, <2>7
      <4>3. /\ client'[c].at \in {"truncate", "write"} /\ client'[c].text = new
            /\ client'[c].request = r /\ client'[c].token = h.token
        BY <2>2, <2>4
      <4> QED
        BY <1>0, <1>1, <2>1, <3>1, <4>1, <4>2, <4>3 DEF Pending, Edits
    <3>2. CASE d # c
      BY <2>4, <3>2 DEF Pending, Writes
    <3> QED
      BY <3>1, <3>2
  <2>9. LoginPending'
    BY <1>1, <2>6 DEF IInv, LoginPending
  <2>10. Apart'
    <3>1. SUFFICES ASSUME login.at # "idle", ~raced', NEW d \in Clients PROVE ~WritesEnv(d)'
      BY <1>1 DEF Apart
    <3>2. ~raced /\ f # "env"
      BY <1>5, <3>1
    <3> QED
      BY <1>0, <2>2, <2>4, <3>1, <3>2 DEF IInv, Apart, WritesEnv
  <2>11. WholeConfigs'
    BY <1>1, <2>4 DEF IInv, WholeConfigs
  <2>12. ASSUME NEW g \in Files PROVE Kept(g)'
    <3>1. Emptied(g) => Emptied(g)'
      BY <1>1, <2>4 DEF Emptied
    <3> QED
      BY <1>1, <2>6, <3>1 DEF IInv, Kept
  <2>13. Loaded'
    BY <1>1, <2>4, LoadedKept
  <2>14. Cached'
    BY <1>1, <1>2, <2>2, <2>4, CachedKept
  <2> QED
    BY <2>4, <2>5, <2>8, <2>9, <2>10, <2>11, <2>12, <2>13, <2>14 DEF IInv
<1> QED
  BY <1>0, <1>4, <1>5 DEF ReadFile

\* The toggle's SELECT, and another statement on its connection.
LEMMA ToggleExecuteStep ==
  ASSUME IInv, NEW c \in Clients, ToggleExecute(c)
  PROVE  IInv'
<1>1. /\ Turn(c) /\ client[c].at = "waiting" /\ Goto(c, "fetch")
      /\ UNCHANGED <<disk, cache, settings, login, issued, want, torn, raced, logins,
                     environ, crossed>>
  BY DEF ToggleExecute, At
<1>2. /\ client' \in [Clients -> Handler] /\ client'[c].at = "fetch"
      /\ \A d \in Clients : d # c => client'[d] = client[d]
      /\ queue' \in Seq(Clients) /\ Locked'
  BY <1>1, GotoKeeps DEF Stages
<1>3. Typed'
  BY <1>1, <1>2 DEF IInv, Typed
<1>4. /\ LoginPending' /\ Apart' /\ WholeConfigs'
      /\ \A d \in Clients : Pending(d)'
      /\ \A f \in Files : Kept(f)'
  BY <1>1, <1>2, FilesKept DEF Writes
<1>5. Loaded'
  BY <1>1, <1>2, LoadedKept
<1>6. Cached'
  BY <1>1, <1>2, CachedKept DEF IInv, Typed
<1> QED
  BY <1>2, <1>3, <1>4, <1>5, <1>6 DEF IInv

\* The toggle writes the opposite of the switch, or is known to have been crossed.
LEMMA ToggleFetchStep ==
  ASSUME IInv, NEW c \in Clients, ToggleFetch(c)
  PROVE  IInv'
<1>0. PICK r : r = client[c].request
  OBVIOUS
<1>1. PICK enabled \in BOOLEAN :
        /\ conn = c => enabled = disk.enabled
        /\ client' = [client EXCEPT ![c].at = "write",
                                    ![c].text = Edit(r, client[c].token, enabled)]
  <2>1. disk.enabled \in BOOLEAN
    BY DEF IInv, Typed, Disk, Text, Content
  <2> QED
    BY <1>0, <2>1 DEF ToggleFetch
<1>2. /\ Turn(c) /\ client[c].at = "fetch" /\ r.kind = "toggle"
      /\ crossed' = (crossed \/ conn # c)
      /\ UNCHANGED <<disk, cache, settings, queue, login, issued, want, torn, raced, logins, environ>>
  BY <1>0 DEF ToggleFetch, At
<1>3. PICK new \in BOOLEAN : new = ~enabled
  BY Zenon
<1>4. /\ Typed /\ client[c] \in Handler /\ issued \in Nat
      /\ Edit(r, client[c].token, enabled) = new
  BY <1>2, <1>3 DEF IInv, Typed, Edit
<1> DEFINE h == [client[c] EXCEPT !.at = "write", !.text = new]
<1>5. /\ h \in Handler /\ h.at = "write" /\ h.text = new
      /\ h.request = r /\ h.token = client[c].token
  BY <1>0, <1>4 DEF Handler, Stages
<1>6. client' = [client EXCEPT ![c] = h]
  BY <1>1, <1>4
<1> HIDE DEF h
<1>7. /\ client' \in [Clients -> Handler] /\ client'[c] = h
      /\ \A d \in Clients : d # c => client'[d] = client[d]
      /\ \A d \in Clients : d # c => client[d].at \in {"idle", "waiting"}
      /\ queue' \in Seq(Clients) /\ Locked'
  BY <1>2, <1>5, <1>6, LockKept
<1>8. crossed' \in BOOLEAN /\ \A g : Claimed(g)' => Claimed(g)
  BY <1>2 DEF Claimed
<1>9. Typed'
  BY <1>2, <1>4, <1>7, <1>8 DEF Typed
<1>10. FileOf(r.kind) = "enabled" /\ "enabled" \in Files
  BY <1>2, FileOfKind DEF Files
<1>11. Claimed("enabled")' => new = Edit(r, h.token, want'["enabled"])
  <2>1. SUFFICES ASSUME Claimed("enabled")' PROVE new = Edit(r, h.token, want'["enabled"])
    OBVIOUS
  <2>2. enabled = disk.enabled
    BY <1>1, <1>2, <2>1 DEF Claimed
  <2>3. ~Emptied("enabled")
    BY DEF Emptied
  <2>4. disk.enabled = want'.enabled
    BY <1>2, <1>8, <1>10, <2>1, <2>3 DEF IInv, Kept
  <2> QED
    BY <1>2, <1>3, <2>2, <2>4 DEF Edit
<1>12. ASSUME NEW d \in Clients PROVE Pending(d)'
  <2>1. CASE d = c
    <3>1. new \in Content("enabled")
      BY DEF Content
    <3>2. /\ client'[c].at = "write" /\ client'[c].text = new
          /\ client'[c].request = r /\ client'[c].token = h.token
      BY <1>5, <1>7
    <3> QED
      BY <1>2, <1>10, <1>11, <2>1, <3>1, <3>2 DEF Pending, Edits
  <2>2. CASE d # c
    BY <1>7, <2>2 DEF Pending, Writes
  <2> QED
    BY <2>1, <2>2
<1>13. LoginPending'
  BY <1>2, <1>8 DEF IInv, LoginPending
<1>14. Apart'
  BY <1>2, <1>5, <1>7, <1>10 DEF IInv, Apart, WritesEnv
<1>15. WholeConfigs'
  BY <1>2, <1>7 DEF IInv, WholeConfigs
<1>16. ASSUME NEW g \in Files PROVE Kept(g)'
  <2>1. Emptied(g) => Emptied(g)'
    BY <1>2, <1>7 DEF Emptied
  <2> QED
    BY <1>2, <1>8, <2>1 DEF IInv, Kept
<1>17. Loaded'
  BY <1>2, <1>7, LoadedKept
<1>18. Cached'
  BY <1>2, <1>4, <1>5, <1>7, CachedKept
<1> QED
  BY <1>7, <1>9, <1>12, <1>13, <1>14, <1>15, <1>16, <1>17, <1>18 DEF IInv

LEMMA TruncateStep ==
  ASSUME IInv, NEW c \in Clients, Truncate(c)
  PROVE  IInv'
<1>0. PICK r, f : r = client[c].request /\ f = FileOf(r.kind)
  OBVIOUS
<1>1. /\ Turn(c) /\ client[c].at = "truncate" /\ r.kind \in Edits
      /\ disk' = [disk EXCEPT ![f] = Empty] /\ Goto(c, "write")
      /\ UNCHANGED <<cache, settings, login, issued, want, torn, raced, logins,
                     environ, crossed>>
  BY <1>0 DEF Truncate, At, shared, Edits
<1>2. Typed /\ disk \in Disk /\ issued \in Nat
  BY DEF IInv, Typed
<1>3. /\ f \in Files /\ f # "enabled"
      /\ f = "config" <=> r.kind = "models"
      /\ f = "env" <=> r.kind \in {"keys", "exchange"}
  BY <1>0, <1>1, FileOfInPlace DEF IInv, Pending, Writes
<1>4. /\ client' \in [Clients -> Handler]
      /\ client'[c].at = "write" /\ client'[c].request = r
      /\ client'[c].token = client[c].token /\ client'[c].text = client[c].text
      /\ \A d \in Clients : d # c => client'[d] = client[d]
      /\ \A d \in Clients : d # c => client[d].at \in {"idle", "waiting"}
      /\ queue' \in Seq(Clients) /\ Locked'
  BY <1>0, <1>1, GotoKeeps DEF Stages
<1>5. /\ disk' \in Disk /\ disk'[f] = Empty
      /\ \A g \in Files : g # f => disk'[g] = disk[g]
  <2>1. Empty \in Text(f)
    BY <1>3, ContentType
  <2>2. disk' = Put(disk, f, Empty)
    BY <1>1 DEF Put
  <2> QED
    BY <1>2, <1>3, <2>1, <2>2, FileChanged
<1>6. Typed'
  BY <1>1, <1>2, <1>4, <1>5 DEF Typed
<1>7. \A g : Claimed(g)' <=> Claimed(g)
  BY <1>1 DEF Claimed
<1>8. LoginPending'
  BY <1>1, <1>7 DEF IInv, LoginPending
<1>9. Apart'
  <2>1. \A d \in Clients : WritesEnv(d)' => WritesEnv(d)
    BY <1>0, <1>1, <1>4 DEF WritesEnv
  <2> QED
    BY <1>1, <2>1 DEF IInv, Apart
<1>10. WholeConfigs'
  <2>1. CASE f = "config"
    BY <1>3, <1>4, <2>1 DEF WholeConfigs
  <2>2. CASE f # "config"
    <3>1. disk'.config = disk.config
      BY <1>5, <2>2 DEF Files
    <3> QED
      BY <1>1, <1>4, <3>1 DEF IInv, WholeConfigs
  <2> QED
    BY <2>1, <2>2
<1>11. ASSUME NEW d \in Clients PROVE Pending(d)'
  <2>1. CASE d = c
    BY <1>0, <1>1, <1>4, <1>7, <2>1 DEF IInv, Pending, Writes
  <2>2. CASE d # c
    BY <1>4, <2>2 DEF Pending, Writes
  <2> QED
    BY <2>1, <2>2
<1>12. ASSUME NEW g \in Files PROVE Kept(g)'
  <2>1. CASE g = f
    BY <1>0, <1>3, <1>4, <1>5, <2>1 DEF Kept, Emptied
  <2>2. CASE g # f
    <3>1. Emptied(g) => Emptied(g)'
      BY <1>1, <1>4 DEF Emptied
    <3> QED
      BY <1>1, <1>5, <1>7, <2>2, <3>1 DEF IInv, Kept
  <2> QED
    BY <2>1, <2>2
<1>13. Loaded'
  <2>1. f # "config" => Load(disk', environ').config = Load(disk, environ).config
    BY <1>1, <1>5 DEF Load, Files
  <2>2. f # "env" => Load(disk', environ').env = Load(disk, environ).env
    BY <1>1, <1>5 DEF Load, Files
  <2>3. /\ f = "config" => Unloaded(c, {"models"})'
        /\ f = "env" => Unloaded(c, {"keys", "exchange"})'
    BY <1>3, <1>4 DEF Unloaded
  <2>4. \A d \in Clients : \A kinds : Unloaded(d, kinds) => Unloaded(d, kinds)'
    BY <1>1, <1>4 DEF Unloaded
  <2> QED
    BY <1>1, <2>1, <2>2, <2>3, <2>4 DEF IInv, Loaded
<1>14. Cached'
  BY <1>1, <1>2, <1>4, CachedKept
<1> QED
  BY <1>4, <1>6, <1>8, <1>9, <1>10, <1>11, <1>12, <1>13, <1>14 DEF IInv

\* What is written is the change that was asked for.
LEMMA WriteFileStep ==
  ASSUME IInv, NEW c \in Clients, WriteFile(c)
  PROVE  IInv'
<1>0. PICK r, f, edit :
        /\ r = client[c].request /\ f = FileOf(r.kind)
        /\ edit = Edit(r, client[c].token, want[f])
  OBVIOUS
<1>1. /\ Turn(c) /\ client[c].at = "write" /\ r.kind \in Edits
      /\ disk' = [disk EXCEPT ![f] = client[c].text]
      /\ want' = [want EXCEPT ![f] = Applied(edit, want[f])]
      /\ AfterWrite(c)
      /\ UNCHANGED <<cache, settings, login, issued, torn, raced, logins,
                     environ, crossed>>
  BY <1>0 DEF WriteFile, At, shared, Edits
<1>2. /\ Typed /\ disk \in Disk /\ want \in Disk /\ issued \in Nat
      /\ client[c] \in Handler /\ client[c].token \in Nat
  BY DEF IInv, Typed, Handler
<1>3. /\ f \in Files
      /\ f = "config" <=> r.kind = "models"
      /\ f = "env" <=> r.kind \in {"keys", "exchange"}
      /\ f = "enabled" <=> r.kind = "toggle"
  BY <1>0, <1>1, FileOfInPlace
<1>4. /\ client[c].text \in Content(f)
      /\ Claimed(f) => client[c].text = edit
  BY <1>0, <1>1 DEF IInv, Pending, Writes
<1>5. /\ client' \in [Clients -> Handler]
      /\ r.kind \in Reloads => client'[c].at = "reload" /\ client'[c].request = r
      /\ client'[c].at \in {"idle", "reload"}
      /\ \A d \in Clients : d # c => client'[d] = client[d]
      /\ \A d \in Clients : d # c => client[d].at \in {"idle", "waiting"}
      /\ queue' \in Seq(Clients) /\ Locked'
  <2>1. CASE r.kind \in Reloads
    <3>1. Goto(c, "reload")
      BY <1>0, <1>1, <2>1 DEF AfterWrite
    <3> QED
      BY <1>0, <1>1, <3>1, GotoKeeps DEF Stages
  <2>2. CASE r.kind \notin Reloads
    <3>1. Release(c)
      BY <1>0, <1>1, <2>2 DEF AfterWrite
    <3> QED
      BY <1>1, <2>2, <3>1, ReleaseKeeps DEF Idle
  <2> QED
    BY <2>1, <2>2
<1>6. Applied(edit, want[f]) \in Text(f)
  <2>1. r \in Requests
    BY <1>0, <1>1, <1>2 DEF Handler, NoRequest, Edits, InPlace
  <2>2. want[f] \in Text(f)
    BY <1>2, <1>3, FileType
  <2>3. edit # Refused => edit \in Content(f)
    BY <1>0, <1>1, <1>2, <2>1, <2>2, EditContent
  <2> QED
    BY <1>3, <2>2, <2>3, ContentType DEF Applied
<1>7. Claimed(f) => Applied(edit, want[f]) = client[c].text
  BY <1>3, <1>4, ContentType DEF Applied
<1>8. /\ disk' \in Disk /\ disk'[f] = client[c].text
      /\ \A g \in Files : g # f => disk'[g] = disk[g]
  <2>1. client[c].text \in Text(f)
    BY <1>3, <1>4, ContentType
  <2>2. disk' = Put(disk, f, client[c].text)
    BY <1>1 DEF Put
  <2> QED
    BY <1>2, <1>3, <2>1, <2>2, FileChanged
<1>9. /\ want' \in Disk /\ want'[f] = Applied(edit, want[f])
      /\ \A g \in Files : g # f => want'[g] = want[g]
  <2>1. want' = Put(want, f, Applied(edit, want[f]))
    BY <1>1 DEF Put
  <2> QED
    BY <1>2, <1>3, <1>6, <2>1, FileChanged
<1>10. Typed'
  BY <1>1, <1>2, <1>5, <1>8, <1>9 DEF Typed
<1>11. \A g : Claimed(g)' <=> Claimed(g)
  BY <1>1 DEF Claimed
<1>12. LoginPending'
  <2>1. CASE f = "env"
    <3>1. WritesEnv(c)
      BY <1>0, <1>1, <2>1 DEF WritesEnv
    <3>2. login.at # "idle" => ~Claimed("env")
      BY <3>1 DEF IInv, Apart, Claimed
    <3> QED
      BY <1>1, <1>11, <3>2 DEF IInv, LoginPending
  <2>2. CASE f # "env"
    <3>1. want'.env = want.env
      BY <1>9, <2>2 DEF Files
    <3> QED
      BY <1>1, <1>11, <3>1 DEF IInv, LoginPending
  <2> QED
    BY <2>1, <2>2
<1>13. Apart'
  BY <1>1, <1>5 DEF IInv, Apart, WritesEnv
<1>14. WholeConfigs'
  <2>1. CASE f = "config"
    <3>1. disk'.config # Empty
      BY <1>3, <1>4, <1>8, <2>1, ContentType
    <3> QED
      BY <3>1 DEF WholeConfigs
  <2>2. CASE f # "config"
    <3>1. disk'.config = disk.config /\ r.kind # "models"
      BY <1>3, <1>8, <2>2 DEF Files
    <3> QED
      BY <1>0, <1>1, <1>5, <3>1 DEF IInv, WholeConfigs
  <2> QED
    BY <2>1, <2>2
<1>15. ASSUME NEW d \in Clients PROVE Pending(d)'
  BY <1>5 DEF Pending, Writes
<1>16. ASSUME NEW g \in Files PROVE Kept(g)'
  <2>1. CASE g = f
    BY <1>7, <1>8, <1>9, <1>11, <2>1 DEF Kept
  <2>2. CASE g # f
    <3>1. Emptied(g) => Emptied(g)'
      BY <1>0, <1>1, <1>5, <2>2 DEF Emptied
    <3> QED
      BY <1>8, <1>9, <1>11, <2>2, <3>1 DEF IInv, Kept
  <2> QED
    BY <2>1, <2>2
<1>17. Loaded'
  <2>1. f # "config" => Load(disk', environ').config = Load(disk, environ).config
    BY <1>1, <1>8 DEF Load, Files
  <2>2. f # "env" => Load(disk', environ').env = Load(disk, environ).env
    BY <1>1, <1>8 DEF Load, Files
  <2>3. /\ f = "config" => Unloaded(c, {"models"})'
        /\ f = "env" => Unloaded(c, {"keys", "exchange"})'
    BY <1>3, <1>5 DEF Unloaded, Reloads
  <2>4. \A d \in Clients : d # c => \A kinds : Unloaded(d, kinds) => Unloaded(d, kinds)'
    BY <1>5 DEF Unloaded
  <2>5. /\ Unloaded(c, {"models"}) => f = "config"
        /\ Unloaded(c, {"keys", "exchange"}) => f = "env"
    BY <1>0, <1>1, <1>3 DEF Unloaded
  <2> QED
    BY <1>1, <2>1, <2>2, <2>3, <2>4, <2>5 DEF IInv, Loaded
<1>18. Cached'
  BY <1>1, <1>2, <1>5, CachedKept
<1> QED
  BY <1>5, <1>10, <1>12, <1>13, <1>14, <1>15, <1>16, <1>17, <1>18 DEF IInv

\* Kite and NSE answer with a list that is newer than any before.
LEMMA FetchStep ==
  ASSUME IInv, NEW c \in Clients, Fetch(c)
  PROVE  IInv'
<1>1. /\ Turn(c) /\ client[c].at = "waiting"
      /\ UNCHANGED <<disk, cache, settings, login, want, torn, raced, logins,
                     environ, crossed>>
  BY DEF Fetch, At, shared
<1>2. Typed /\ issued \in Nat /\ client[c] \in Handler
  BY DEF IInv, Typed
<1>3. CASE Release(c) /\ UNCHANGED issued
  BY <1>1, <1>2, <1>3, ReleaseStep DEF Writes
<1>4. CASE /\ issued' = issued + 1
           /\ client' = [client EXCEPT ![c].at = "delete", ![c].token = issued + 1]
           /\ UNCHANGED queue
  <2> DEFINE h == [client[c] EXCEPT !.at = "delete", !.token = issued + 1]
  <2>1. h \in Handler /\ h.at = "delete" /\ h.token = issued + 1
    <3>1. issued + 1 \in Nat
      BY <1>2
    <3> QED
      BY <1>2, <3>1 DEF Handler, Stages
  <2>2. client' = [client EXCEPT ![c] = h]
    BY <1>4
  <2> HIDE DEF h
  <2>3. /\ client' \in [Clients -> Handler] /\ client'[c] = h
        /\ \A d \in Clients : d # c => client'[d] = client[d]
        /\ \A d \in Clients : d # c => client[d].at \in {"idle", "waiting"}
        /\ queue' \in Seq(Clients) /\ Locked'
    BY <1>1, <1>4, <2>1, <2>2, LockKept
  <2>4. Typed'
    BY <1>1, <1>2, <1>4, <2>3 DEF Typed
  <2>5. /\ LoginPending' /\ Apart' /\ WholeConfigs'
        /\ \A d \in Clients : Pending(d)'
        /\ \A f \in Files : Kept(f)'
    BY <1>1, <2>1, <2>3, FilesKept DEF Writes
  <2>6. Loaded'
    BY <1>1, <2>3, LoadedKept
  <2>7. Cached'
    <3>1. cache.stamp \in Nat
      BY <1>2 DEF Typed
    <3> QED
      BY <1>1, <1>2, <1>4, <2>1, <2>3, <3>1 DEF IInv, Cached
  <2> QED
    BY <2>3, <2>4, <2>5, <2>6, <2>7 DEF IInv
<1> QED
  BY <1>3, <1>4 DEF Fetch

\* A refresh at work on the cache touches nothing else.
LEMMA CacheStep ==
  ASSUME IInv, NEW c \in Clients, Turn(c), client[c].at \in {"delete", "insert", "stamp"},
         NEW at \in {"idle", "insert", "stamp"},
         IF at = "idle" THEN Release(c) ELSE Goto(c, at),
         cache' \in [rows : Nat, stamp : Nat], cache'.stamp <= issued,
         cache'.rows = 0 \/ cache'.rows >= cache'.stamp,
         at # "idle" => cache'.stamp < client[c].token,
         at = "stamp" => cache'.rows = client[c].token,
         UNCHANGED <<disk, settings, login, issued, want, torn, raced, logins,
                     environ, crossed>>
  PROVE  IInv'
<1>1. /\ client' \in [Clients -> Handler] /\ client'[c].at = at
      /\ at # "idle" => client'[c].token = client[c].token
      /\ \A d \in Clients : d # c => client'[d] = client[d]
      /\ \A d \in Clients : d # c => client[d].at \in {"idle", "waiting"}
      /\ queue' \in Seq(Clients) /\ Locked'
  <2>1. CASE at = "idle"
    BY <2>1, ReleaseKeeps DEF Idle
  <2>2. CASE at # "idle"
    BY <2>2, GotoKeeps DEF Stages
  <2> QED
    BY <2>1, <2>2
<1>2. Typed'
  BY <1>1 DEF IInv, Typed
<1>3. /\ LoginPending' /\ Apart' /\ WholeConfigs'
      /\ \A d \in Clients : Pending(d)'
      /\ \A f \in Files : Kept(f)'
  BY <1>1, FilesKept DEF Writes
<1>4. Loaded'
  BY <1>1, LoadedKept
<1>5. Cached'
  <2>1. client[c].token <= issued
    BY DEF IInv, Cached
  <2> QED
    BY <1>1, <2>1 DEF Cached
<1> QED
  BY <1>1, <1>2, <1>3, <1>4, <1>5 DEF IInv

\* The rows go first, the stamp comes last.
LEMMA RefreshSteps ==
  ASSUME IInv, NEW c \in Clients, DeleteRows(c) \/ InsertRows(c) \/ Stamp(c)
  PROVE  IInv'
<1>1. /\ cache \in [rows : Nat, stamp : Nat] /\ issued \in Nat
      /\ client[c].token \in Nat
      /\ cache.stamp <= issued /\ (cache.rows = 0 \/ cache.rows >= cache.stamp)
      /\ client[c].at \in {"delete", "insert", "stamp"} =>
           cache.stamp < client[c].token /\ client[c].token <= issued
      /\ client[c].at = "stamp" => cache.rows = client[c].token
  BY DEF IInv, Typed, Cached, Handler
<1>2. CASE DeleteRows(c)
  <2>1. /\ Turn(c) /\ client[c].at = "delete" /\ Goto(c, "insert")
        /\ cache' = [cache EXCEPT !.rows = 0]
        /\ UNCHANGED <<disk, settings, login, issued, want, torn, raced, logins,
                     environ, crossed>>
    BY <1>2 DEF DeleteRows, At, shared
  <2>2. /\ cache' \in [rows : Nat, stamp : Nat]
        /\ cache'.rows = 0 /\ cache'.stamp = cache.stamp
    BY <1>1, <2>1
  <2> QED
    BY <1>1, <2>1, <2>2, CacheStep
<1>3. CASE InsertRows(c)
  <2>1. /\ Turn(c) /\ client[c].at = "insert"
        /\ UNCHANGED <<disk, settings, login, issued, want, torn, raced, logins,
                     environ, crossed>>
    BY <1>3 DEF InsertRows, At, shared
  <2>2. CASE Release(c) /\ UNCHANGED cache
    BY <1>1, <2>1, <2>2, CacheStep
  <2>3. CASE cache' = [cache EXCEPT !.rows = client[c].token] /\ Goto(c, "stamp")
    <3>1. /\ cache' \in [rows : Nat, stamp : Nat]
          /\ cache'.rows = client[c].token /\ cache'.stamp = cache.stamp
      BY <1>1, <2>3
    <3>2. cache'.rows >= cache'.stamp /\ cache'.stamp < client[c].token /\ cache'.stamp <= issued
      BY <1>1, <2>1, <3>1
    <3> QED
      BY <2>1, <2>3, <3>1, <3>2, CacheStep
  <2> QED
    BY <1>3, <2>2, <2>3 DEF InsertRows
<1>4. CASE Stamp(c)
  <2>1. /\ Turn(c) /\ client[c].at = "stamp" /\ Release(c)
        /\ cache' = [cache EXCEPT !.stamp = client[c].token]
        /\ UNCHANGED <<disk, settings, login, issued, want, torn, raced, logins,
                     environ, crossed>>
    BY <1>4 DEF Stamp, At, shared
  <2>2. /\ cache' \in [rows : Nat, stamp : Nat]
        /\ cache'.rows = cache.rows /\ cache'.stamp = client[c].token
    BY <1>1, <2>1
  <2>3. cache'.rows >= cache'.stamp /\ cache'.stamp <= issued
    BY <1>1, <2>1, <2>2
  <2> QED
    BY <2>1, <2>2, <2>3, CacheStep
<1> QED
  BY <1>2, <1>3, <1>4

-----------------------------------------------------------------------------
(* kite-login and crashes                                                  *)

\* kite-login starts from the .env it should find, or it is known to race.
LEMMA LoginReadsStep ==
  ASSUME IInv, LoginReads
  PROVE  IInv'
<1>1. /\ login.at = "idle" /\ disk.env # Missing
      /\ login' = [login EXCEPT !.at = "truncate", !.token = issued + 1,
                                !.text = PutToken(disk.env, issued + 1)]
      /\ issued' = issued + 1 /\ logins' = logins + 1
      /\ raced' = (raced \/ \E c \in Clients : WritesEnv(c))
      /\ UNCHANGED <<disk, cache, settings, queue, client, want, torn, environ, crossed>>
  BY DEF LoginReads, shared
<1>2. /\ Typed /\ login \in Handler /\ issued \in Nat /\ logins \in Nat
      /\ issued + 1 \in Nat /\ disk.env \in Text("env")
  BY DEF IInv, Typed, Disk
<1>3. PutToken(disk.env, issued + 1) \in EnvVars
  BY <1>1, <1>2, PutTokenContent
<1>4. /\ login' \in Handler /\ login'.at = "truncate" /\ login'.token = issued + 1
      /\ login'.text = PutToken(disk.env, issued + 1)
  BY <1>1, <1>2, <1>3 DEF Handler, Stages
<1>5. ~raced' => ~raced /\ \A c \in Clients : ~WritesEnv(c)
  BY <1>1
<1>6. \A f : Claimed(f)' => Claimed(f)
  BY <1>1, <1>5 DEF Claimed
<1>7. Typed' /\ Locked'
  BY <1>1, <1>2, <1>4 DEF IInv, Typed, Locked, Turn
<1>8. LoginPending'
  <2>1. ASSUME Claimed("env")' PROVE disk.env = want.env
    <3>1. \A c \in Clients : ~WritesEnv(c)
      BY <1>5, <2>1 DEF Claimed
    <3>2. ~Emptied("env")
      BY <1>1, <3>1 DEF Emptied, WritesEnv
    <3> QED
      BY <1>6, <2>1, <3>2 DEF IInv, Kept, Files
  <2> QED
    BY <1>1, <1>3, <1>4, <2>1 DEF LoginPending
<1>9. Apart'
  <2>1. \A c \in Clients : WritesEnv(c)' <=> WritesEnv(c)
    BY <1>1 DEF WritesEnv
  <2> QED
    BY <1>5, <2>1 DEF Apart
<1>10. WholeConfigs'
  BY <1>1 DEF IInv, WholeConfigs
<1>11. ASSUME NEW c \in Clients PROVE Pending(c)'
  BY <1>1, <1>6 DEF IInv, Pending, Writes
<1>12. ASSUME NEW f \in Files PROVE Kept(f)'
  <2>1. Emptied(f) => Emptied(f)'
    BY <1>1 DEF Emptied
  <2> QED
    BY <1>1, <1>6, <2>1 DEF IInv, Kept
<1>13. Loaded'
  <2>1. \A c \in Clients : \A kinds : Unloaded(c, kinds)' <=> Unloaded(c, kinds)
    BY <1>1 DEF Unloaded
  <2>2. logins' > 0
    BY <1>1, <1>2
  <2>3. settings'.config = Load(disk', environ').config \/ \E c \in Clients : Unloaded(c, {"models"})'
    BY <1>1, <2>1 DEF IInv, Loaded
  <2> QED
    BY <2>2, <2>3 DEF Loaded
<1>14. Cached'
  <2>1. cache.stamp \in Nat /\ \A c \in Clients : client[c].token \in Nat
    BY <1>2 DEF Typed, Handler
  <2> QED
    BY <1>1, <1>2, <2>1 DEF IInv, Cached
<1> QED
  BY <1>7, <1>8, <1>9, <1>10, <1>11, <1>12, <1>13, <1>14 DEF IInv

LEMMA LoginTruncatesStep ==
  ASSUME IInv, LoginTruncates
  PROVE  IInv'
<1>1. /\ login.at = "truncate" /\ disk' = [disk EXCEPT !.env = Empty]
      /\ login' = [login EXCEPT !.at = "write"]
      /\ UNCHANGED <<cache, settings, queue, client, issued, want, torn, raced, logins,
                     environ, crossed>>
  BY DEF LoginTruncates, shared
<1>2. Typed /\ login \in Handler /\ disk \in Disk /\ logins \in Nat /\ logins > 0
  BY <1>1 DEF IInv, Typed, Loaded
<1>3. /\ disk' \in Disk /\ disk'.env = Empty
      /\ \A f \in Files : f # "env" => disk'[f] = disk[f]
  <2>1. disk' = Put(disk, "env", Empty) /\ Empty \in Text("env") /\ "env" \in Files
    BY <1>1, ContentType DEF Put, Files
  <2> QED
    BY <1>2, <2>1, FileChanged
<1>4. /\ login' \in Handler /\ login'.at = "write"
      /\ login'.text = login.text /\ login'.token = login.token
  BY <1>1, <1>2 DEF Handler, Stages
<1>5. \A f : Claimed(f)' <=> Claimed(f)
  BY <1>1 DEF Claimed
<1>6. Typed' /\ Locked'
  BY <1>1, <1>2, <1>3, <1>4 DEF IInv, Typed, Locked, Turn
<1>7. LoginPending'
  BY <1>1, <1>4, <1>5 DEF IInv, LoginPending
<1>8. Apart'
  BY <1>1 DEF IInv, Apart, WritesEnv
<1>9. WholeConfigs'
  BY <1>1, <1>3 DEF IInv, WholeConfigs, Files
<1>10. ASSUME NEW c \in Clients PROVE Pending(c)'
  BY <1>1, <1>5 DEF IInv, Pending, Writes
<1>11. ASSUME NEW f \in Files PROVE Kept(f)'
  <2>1. CASE f = "env"
    BY <1>3, <1>4, <2>1 DEF Kept, Emptied
  <2>2. CASE f # "env"
    <3>1. Emptied(f) => Emptied(f)'
      BY <1>1, <2>2 DEF Emptied
    <3> QED
      BY <1>1, <1>3, <1>5, <2>2, <3>1 DEF IInv, Kept
  <2> QED
    BY <2>1, <2>2
<1>12. Loaded'
  <2>1. \A c \in Clients : \A kinds : Unloaded(c, kinds)' <=> Unloaded(c, kinds)
    BY <1>1 DEF Unloaded
  <2>2. Load(disk', environ').config = Load(disk, environ).config
    BY <1>1, <1>3 DEF Load, Files
  <2> QED
    BY <1>1, <1>2, <2>1, <2>2 DEF IInv, Loaded
<1>13. Cached'
  BY <1>1 DEF IInv, Cached
<1> QED
  BY <1>6, <1>7, <1>8, <1>9, <1>10, <1>11, <1>12, <1>13 DEF IInv

\* What kite-login writes is the .env with its token, or it is known to race.
LEMMA LoginWritesStep ==
  ASSUME IInv, LoginWrites
  PROVE  IInv'
<1>0. PICK edit : edit = PutToken(want.env, login.token)
  OBVIOUS
<1>1. /\ login.at = "write" /\ disk' = [disk EXCEPT !.env = login.text]
      /\ want' = [want EXCEPT !.env = Applied(edit, want.env)] /\ login' = Idle
      /\ UNCHANGED <<cache, settings, queue, client, issued, torn, raced, logins,
                     environ, crossed>>
  BY <1>0 DEF LoginWrites, shared
<1>2. /\ Typed /\ login \in Handler /\ disk \in Disk /\ want \in Disk /\ logins \in Nat
      /\ logins > 0 /\ want.env \in Text("env")
  BY <1>1 DEF IInv, Typed, Loaded, Disk
<1>3. login.text \in EnvVars /\ (Claimed("env") => login.text = edit)
  BY <1>0, <1>1 DEF IInv, LoginPending
<1>4. EnvVars = Content("env") /\ "env" \in Files
  BY DEF Content, Files
<1>5. Applied(edit, want.env) \in Text("env")
  <2>1. CASE want.env = Missing
    BY <1>0, <1>2, <2>1 DEF PutToken, Applied
  <2>2. CASE want.env # Missing
    <3>1. edit \in EnvVars
      BY <1>0, <1>2, <2>2, PutTokenContent DEF Handler
    <3> QED
      BY <1>2, <1>4, <3>1, ContentType DEF Applied
  <2> QED
    BY <2>1, <2>2
<1>6. Claimed("env") => Applied(edit, want.env) = login.text
  BY <1>3, <1>4, ContentType DEF Applied
<1>7. /\ disk' \in Disk /\ disk'.env = login.text
      /\ \A f \in Files : f # "env" => disk'[f] = disk[f]
  <2>1. disk' = Put(disk, "env", login.text) /\ login.text \in Text("env")
    BY <1>1, <1>3, <1>4, ContentType DEF Put
  <2> QED
    BY <1>2, <1>4, <2>1, FileChanged
<1>8. /\ want' \in Disk /\ want'.env = Applied(edit, want.env)
      /\ \A f \in Files : f # "env" => want'[f] = want[f]
  <2>1. want' = Put(want, "env", Applied(edit, want.env))
    BY <1>1 DEF Put
  <2> QED
    BY <1>2, <1>4, <1>5, <2>1, FileChanged
<1>9. login' \in Handler /\ login'.at = "idle"
  BY <1>1, IdleType DEF Idle
<1>10. \A f : Claimed(f)' <=> Claimed(f)
  BY <1>1 DEF Claimed
<1>11. Typed' /\ Locked'
  BY <1>1, <1>2, <1>7, <1>8, <1>9 DEF IInv, Typed, Locked, Turn
<1>12. LoginPending' /\ Apart'
  BY <1>9 DEF LoginPending, Apart
<1>13. WholeConfigs'
  BY <1>1, <1>7 DEF IInv, WholeConfigs, Files
<1>14. ASSUME NEW c \in Clients PROVE Pending(c)'
  <2>1. PICK f : f = FileOf(client[c].request.kind)
    OBVIOUS
  <2>2. ASSUME Writes(client[c]), Claimed(f) PROVE want'[f] = want[f]
    <3>1. f \in Files
      BY <2>1, <2>2, FileOfInPlace DEF IInv, Pending
    <3>2. f # "env"
      BY <1>1, <2>1, <2>2 DEF IInv, Apart, WritesEnv, Writes, Claimed
    <3> QED
      BY <1>8, <3>1, <3>2
  <2> QED
    BY <1>1, <1>10, <2>1, <2>2 DEF IInv, Pending, Writes
<1>15. ASSUME NEW f \in Files PROVE Kept(f)'
  <2>1. CASE f = "env"
    BY <1>6, <1>7, <1>8, <1>10, <2>1 DEF Kept
  <2>2. CASE f # "env"
    <3>1. Emptied(f) => Emptied(f)'
      BY <1>1, <2>2 DEF Emptied
    <3> QED
      BY <1>7, <1>8, <1>10, <2>2, <3>1 DEF IInv, Kept
  <2> QED
    BY <2>1, <2>2
<1>16. Loaded'
  <2>1. \A c \in Clients : \A kinds : Unloaded(c, kinds)' <=> Unloaded(c, kinds)
    BY <1>1 DEF Unloaded
  <2>2. Load(disk', environ').config = Load(disk, environ).config
    BY <1>1, <1>7 DEF Load, Files
  <2> QED
    BY <1>1, <1>2, <2>1, <2>2 DEF IInv, Loaded
<1>17. Cached'
  BY <1>1 DEF IInv, Cached
<1> QED
  BY <1>11, <1>12, <1>13, <1>14, <1>15, <1>16, <1>17 DEF IInv

\* A crash that finds a file truncated notes it.
LEMMA CrashStep ==
  ASSUME IInv, Crash
  PROVE  IInv'
<1>1. /\ client' = [c \in Clients |-> Idle] /\ queue' = <<>>
      /\ environ' \in {environ, Vars(disk.env)} /\ settings' = Load(disk, environ')
      /\ torn' = torn \cup UNION {TruncatedBy(c) : c \in Clients}
      /\ UNCHANGED <<disk, cache, login, issued, want, raced, logins, crossed>>
  BY DEF Crash
<1>2. Typed /\ disk \in Disk /\ environ' \in EnvVars
  <2>1. Typed /\ disk \in Disk /\ environ \in EnvVars
    BY DEF IInv, Typed
  <2> QED
    BY <1>1, <2>1, VarsType
<1>3. /\ client' \in [Clients -> Handler]
      /\ \A c \in Clients : client'[c].at = "idle"
  BY <1>1, IdleType DEF Idle
<1>4. settings' \in [config : Config, env : EnvVars]
  BY <1>1, <1>2, LoadType
<1>5. \A c \in Clients : \A f : client[c].at = "write" /\ FileOf(client[c].request.kind) = f
                            /\ f # "enabled" => f \in torn'
  BY <1>1 DEF TruncatedBy
<1>6. \A f : Claimed(f)' => Claimed(f)
  BY <1>1 DEF Claimed
<1>7. Typed' /\ Locked'
  BY <1>1, <1>2, <1>3, <1>4 DEF Typed, Locked
<1>8. LoginPending'
  BY <1>1, <1>6 DEF IInv, LoginPending
<1>9. Apart'
  BY <1>3 DEF Apart, WritesEnv
<1>10. WholeConfigs'
  BY <1>1, <1>5, FileOfKind DEF IInv, WholeConfigs
<1>11. ASSUME NEW c \in Clients PROVE Pending(c)'
  BY <1>3 DEF Pending, Writes
<1>12. ASSUME NEW f \in Files PROVE Kept(f)'
  <2>1. Claimed(f)' /\ Emptied(f) => Emptied(f)'
    BY <1>1, <1>5 DEF Claimed, Emptied
  <2> QED
    BY <1>1, <1>6, <2>1 DEF IInv, Kept
<1>13. Loaded'
  BY <1>1 DEF IInv, Loaded
<1>14. Cached'
  BY <1>1, <1>3 DEF IInv, Cached
<1> QED
  BY <1>7, <1>8, <1>9, <1>10, <1>11, <1>12, <1>13, <1>14 DEF IInv

-----------------------------------------------------------------------------
(* The theorems                                                            *)

LEMMA InitIInv ==
  ASSUME Init
  PROVE  IInv
<1>1. /\ disk \in {Fresh, Installed} /\ settings = Load(disk, environ) /\ want = disk
      /\ environ \in {NoVars, Vars(disk.env)} /\ crossed = FALSE
      /\ cache = [rows |-> 0, stamp |-> 0] /\ queue = <<>>
      /\ client = [c \in Clients |-> Idle] /\ login = Idle /\ issued = 0 /\ logins = 0
  BY DEF Init
<1>2. Fresh \in Disk
  BY DEF Fresh, Disk, Text, Content
<1>3. Installed \in Disk
  <2>1. Defaults \in Config /\ [key |-> Blank, token |-> Blank] \in EnvVars
    BY DefaultsAssumption DEF Defaults, Config, EnvVars
  <2> QED
    BY <1>2, <2>1, UniverseAssumption DEF Installed, Fresh, Disk, Text, Content
<1>4. disk \in Disk /\ client \in [Clients -> Handler] /\ login \in Handler
  BY <1>1, <1>2, <1>3, IdleType
<1>5. Typed
  <2>1. environ \in EnvVars
    BY <1>1, <1>4, VarsType DEF NoVars, EnvVars
  <2>2. settings \in [config : Config, env : EnvVars]
    BY <1>1, <1>4, <2>1, LoadType
  <2>3. queue \in Seq(Clients) /\ cache \in [rows : Nat, stamp : Nat]
    BY <1>1
  <2> QED
    BY <1>1, <1>4, <2>1, <2>2, <2>3 DEF Typed
<1>6. login.at = "idle" /\ \A c \in Clients : client[c].at = "idle"
  BY <1>1 DEF Idle
<1>7. disk.config # Empty
  <2>1. Fresh.config = Missing /\ Installed.config = Defaults
    BY DEF Fresh, Installed
  <2>2. Defaults \in Config
    BY DefaultsAssumption DEF Defaults, Config
  <2> QED
    BY <1>1, <2>1, <2>2, NullsAssumption
<1>8. Locked /\ LoginPending /\ Apart /\ Loaded /\ WholeConfigs
  BY <1>1, <1>6, <1>7 DEF Locked, LoginPending, Apart, Loaded, WholeConfigs
<1>9. Cached
  BY <1>1, <1>6 DEF Cached
<1>10. /\ \A c \in Clients : Pending(c)
       /\ \A f \in Files : Kept(f)
  BY <1>1, <1>6 DEF Pending, Writes, Kept
<1> QED
  BY <1>5, <1>8, <1>9, <1>10 DEF IInv

LEMMA StutterStep ==
  ASSUME IInv, UNCHANGED vars \/ OtherStatement
  PROVE  IInv'
<1>1. UNCHANGED <<disk, cache, settings, queue, client, login, issued, want, torn, raced, logins,
                     environ, crossed>>
  BY DEF vars, shared, OtherStatement
<1>2. \A f : Claimed(f)' <=> Claimed(f)
  BY <1>1 DEF Claimed
<1>3. Typed' /\ Locked' /\ LoginPending'
  BY <1>1, <1>2 DEF IInv, Typed, Locked, Turn, LoginPending
<1>4. Apart' /\ Cached' /\ WholeConfigs'
  BY <1>1 DEF IInv, Apart, WritesEnv, Cached, WholeConfigs
<1>5. Loaded'
  BY <1>1 DEF IInv, Loaded, Unloaded
<1>6. ASSUME NEW c \in Clients PROVE Pending(c)'
  BY <1>1, <1>2 DEF IInv, Pending, Writes
<1>7. ASSUME NEW f \in Files PROVE Kept(f)'
  BY <1>1, <1>2 DEF IInv, Kept, Emptied
<1> QED
  BY <1>3, <1>4, <1>5, <1>6, <1>7 DEF IInv

LEMMA NextIInv ==
  ASSUME IInv, [Next]_vars
  PROVE  IInv'
<1>1. ASSUME NEW c \in Clients, Handle(c) PROVE IInv'
  BY <1>1, BriefStep, SaveBackupStep, SaveReplaceStep, ReloadStep, ExchangeStep,
     ReadFileStep, ToggleExecuteStep, ToggleFetchStep, TruncateStep, WriteFileStep,
     FetchStep, RefreshSteps DEF Handle
<1> QED
  BY <1>1, ArriveStep, LoginReadsStep, LoginTruncatesStep, LoginWritesStep, CrashStep,
     StutterStep DEF Next

LEMMA InductiveInvariant == Spec => []IInv
BY InitIInv, NextIInv, PTL DEF Spec

\* While no handler is at work, the settings in memory are what config.yaml, the
\* environment and .env say, in this order of rank for the secrets: reload_settings
\* is the last thing every handler that wrote does.
THEOREM SettingsFollowFiles == Spec => []SettingsTellFiles
<1>1. IInv => SettingsTellFiles
  <2>1. SUFFICES ASSUME IInv, queue = <<>>
                 PROVE  /\ settings.config = Load(disk, environ).config
                        /\ logins = 0 => settings.env = Load(disk, environ).env
    BY DEF SettingsTellFiles
  <2>2. \A c \in Clients : \A kinds : ~Unloaded(c, kinds)
    BY <2>1 DEF IInv, Locked, Turn, Unloaded
  <2> QED
    BY <2>1, <2>2 DEF IInv, Loaded
<1> QED
  BY <1>1, InductiveInvariant, PTL

\* No change an endpoint made is lost, but to a crash while the file is empty, to a
\* kite-login that writes .env at the same time, or to a toggle that was given the
\* row of another statement.
THEOREM NoUpdateIsLost == Spec => []UpdatesKept
<1>1. IInv => UpdatesKept
  BY DEF IInv, Kept, Claimed, Files, UpdatesKept
<1> QED
  BY <1>1, InductiveInvariant, PTL

\* An empty config.yaml is the work of the model settings, never of save_yaml.
THEOREM SavesAreWhole == Spec => []WholeConfigs
<1>1. IInv => WholeConfigs
  BY DEF IInv
<1> QED
  BY <1>1, InductiveInvariant, PTL

\* The instrument rows are never older than the refresh the page names.
THEOREM StampIsNoNewer == Spec => []StampTellsRows
<1>1. IInv => StampTellsRows
  BY DEF IInv, Cached, StampTellsRows
<1> QED
  BY <1>1, InductiveInvariant, PTL
=============================================================================
