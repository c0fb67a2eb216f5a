------------------------------- MODULE Updates -------------------------------
(***************************************************************************)
(* Distribution of omnish's own packages: the daemon's package cache       *)
(* (update_cache.rs), the auto_update job that fills it and upgrades the   *)
(* daemon, the UpdateCheck and UpdateRequest handlers (server.rs), and the *)
(* client's polling, download, installation and re-execution (main.rs of   *)
(* the client).  A package is a version and the chunks its file holds; the *)
(* cache of a host is the directory updates/<platform> under its omnish    *)
(* directory, shared by the clients of the host and, on LocalHost, by the  *)
(* daemon.                                                                 *)
(***************************************************************************)
EXTENDS Integers, Sequences, FiniteSets

CONSTANTS UpdClients,     \* client processes
          HostOf,         \* the host of each client
          LocalHost,      \* the daemon's host
          PlatformOf,     \* the <os>-<arch> of each host
          LastVersion,    \* bound: versions 1..LastVersion are published in order
          PackageChunks,  \* chunks of a package file
          MaxCached,      \* MAX_CACHED_PACKAGES
          CutLimit        \* bound: failures (links, reads, installs, fetches)

ASSUME UpdateShape == /\ LocalHost \in DOMAIN PlatformOf
                      /\ \A c \in UpdClients : HostOf[c] \in DOMAIN PlatformOf
                      /\ LastVersion \in Nat \ {0} /\ MaxCached \in Nat \ {0}

VARIABLES released,   \* the newest version at check_url (github or a directory)
          pkgs,       \* [host -> [platform -> packages in its updates directory]]
          dmn,        \* the daemon: running and installed version, grace, locks, platforms
          job,        \* the auto_update job: place, platforms left, package found
          cli,        \* [client -> its process]
          srv,        \* [client -> the handler that streams to it]
          wire,       \* [client -> chunks on their way to it]
          disk,       \* [host -> version of the installed client binary]
          cuts        \* failures so far

updVars == <<released, pkgs, dmn, job, cli, srv, wire, disk, cuts>>

Hosts == DOMAIN PlatformOf
Platforms == {PlatformOf[h] : h \in Hosts}
OwnPlatform == PlatformOf[LocalHost]
Whole == [i \in 1..PackageChunks |-> i]
Package(v) == [version |-> v, data |-> Whole]
NoTask == [kind |-> "none", version |-> 0, file |-> <<>>, sum |-> "none", done |-> FALSE]
Idle == [at |-> "idle", version |-> 0, seq |-> 0]

Fail == cuts < CutLimit /\ cuts' = cuts + 1
Fine == cuts' = cuts

-----------------------------------------------------------------------------
(* The package cache *)

\* extract_version keeps the finished files: temporary ones never appear in pkgs.
compare_versions(a, b) == IF a = b THEN "Equal" ELSE IF a > b THEN "Greater" ELSE "Less"

Highest(ps) == CHOOSE p \in ps : \A q \in ps : compare_versions(q.version, p.version) # "Greater"

\* The highest version of a platform's directory, as a set with at most one member.
cached_package(h, p) == IF pkgs[h][p] = {} THEN {} ELSE {Highest(pkgs[h][p])}

\* A package of the preferred version, or else the highest.
cached_package_best(h, p, prefer) ==
    LET preferred == {q \in pkgs[h][p] : compare_versions(q.version, prefer) = "Equal"}
    IN  IF preferred # {} THEN {CHOOSE q \in preferred : TRUE} ELSE cached_package(h, p)

\* What UpdateCheck announces: the daemon's own version if it is cached.
check_update_with_checksum(p, current) ==
    {q \in cached_package_best(LocalHost, p, dmn.running) :
        compare_versions(q.version, current) = "Greater"}

prune_packages(ps) ==
    {p \in ps : Cardinality({q \in ps : q.version > p.version}) < MaxCached}

\* One transfer per host and cooldown; the lock is taken whatever follows.
may_acquire_transfer(h) == h \notin dmn.locks
try_acquire_transfer(h) == [dmn EXCEPT !.locks = @ \cup {h}]

\* The cooldown of a host passes.
CooldownEnds(h) ==
    /\ h \in dmn.locks
    /\ dmn' = [dmn EXCEPT !.locks = @ \ {h}]
    /\ UNCHANGED <<released, pkgs, job, cli, srv, wire, disk, cuts>>

\* STARTUP_GRACE passes.
GraceEnds ==
    /\ ~dmn.past_grace
    /\ dmn' = [dmn EXCEPT !.past_grace = TRUE]
    /\ UNCHANGED <<released, pkgs, job, cli, srv, wire, disk, cuts>>

-----------------------------------------------------------------------------
(* The auto_update job *)

\* Phase 0: the platforms of the clients seen so far and the daemon's own.
JobStart ==
    /\ job.at = "idle"
    /\ released > 0
    /\ job' = [at |-> "fetch", left |-> dmn.known \cup {OwnPlatform}, found |-> 0]
    /\ UNCHANGED <<released, pkgs, dmn, cli, srv, wire, disk, cuts>>

HasNewer(p, v) == \E q \in cached_package(LocalHost, p) : compare_versions(q.version, v) # "Less"

\* check_url is a directory: the copy is renamed into place, older packages are pruned.
download_from_local_dir(p) ==
    pkgs' = [pkgs EXCEPT ![LocalHost][p] = IF HasNewer(p, released) THEN @
                                            ELSE prune_packages(@ \cup {Package(released)})]

\* check_url is a release API: every older package is removed before the rename.
RemoveOld(p) == pkgs' = [pkgs EXCEPT ![LocalHost][p] = {}]
download_from_github(p) ==
    IF HasNewer(p, released)
    THEN job' = [job EXCEPT !.left = @ \ {p}] /\ UNCHANGED pkgs
    ELSE job' = [job EXCEPT !.at = "rename", !.found = released] /\ RemoveOld(p)

JobCopies(p) ==
    /\ job.at = "fetch" /\ p \in job.left
    /\ download_from_local_dir(p)
    /\ job' = [job EXCEPT !.left = @ \ {p}]
    /\ Fine /\ UNCHANGED <<released, dmn, cli, srv, wire, disk>>

JobDownloads(p) ==
    /\ job.at = "fetch" /\ p \in job.left
    /\ download_from_github(p)
    /\ Fine /\ UNCHANGED <<released, dmn, cli, srv, wire, disk>>

\* The removal of the old packages and the rename are two steps for other threads.
JobRenames(p) ==
    /\ job.at = "rename" /\ p \in job.left /\ pkgs[LocalHost][p] = {}
    /\ pkgs' = [pkgs EXCEPT ![LocalHost][p] = {Package(job.found)}]
    /\ job' = [job EXCEPT !.at = "fetch", !.left = @ \ {p}]
    /\ UNCHANGED <<released, dmn, cli, srv, wire, disk, cuts>>

\* A failed download leaves the platform to the next run.
JobFetchFails(p) ==
    /\ job.at = "fetch" /\ p \in job.left
    /\ job' = [job EXCEPT !.left = @ \ {p}]
    /\ Fail /\ UNCHANGED <<released, pkgs, dmn, cli, srv, wire, disk>>

\* Phase 1: look for a package newer than the running daemon.
JobLooks ==
    /\ job.at = "fetch" /\ job.left = {}
    /\ LET newer == {q \in cached_package(LocalHost, OwnPlatform) :
                        compare_versions(q.version, dmn.running) = "Greater"}
       IN job' = IF newer = {} THEN [job EXCEPT !.at = "idle"]
                 ELSE [job EXCEPT !.at = "install",
                                  !.found = (CHOOSE q \in newer : TRUE).version]
    /\ UNCHANGED <<released, pkgs, dmn, cli, srv, wire, disk, cuts>>

\* install.sh --upgrade: it skips a package that is not newer than the installed one.
install_sh(h, v) == [disk EXCEPT ![h] = IF v > @ THEN v ELSE @]

\* extract_and_run_installer for the daemon: both binaries, then a restart.
JobInstalls ==
    /\ job.at = "install"
    /\ IF \E q \in pkgs[LocalHost][OwnPlatform] : q.version = job.found /\ q.data = Whole
       THEN /\ disk' = install_sh(LocalHost, job.found)
            /\ dmn' = [dmn EXCEPT !.installed = IF job.found > @ THEN job.found ELSE @]
            /\ job' = [job EXCEPT !.at = "restart"]
       ELSE job' = [job EXCEPT !.at = "idle"] /\ UNCHANGED <<disk, dmn>>
    /\ Fine /\ UNCHANGED <<released, pkgs, cli, srv, wire>>

JobInstallFails ==
    /\ job.at = "install"
    /\ job' = [job EXCEPT !.at = "idle"]
    /\ Fail /\ UNCHANGED <<released, pkgs, dmn, cli, srv, wire, disk>>

\* The daemon starts again with the installed binary: new grace period, the own
\* host locked, known platforms forgotten, every connection and stream gone.
Restart ==
    /\ job.at = "restart"
    /\ dmn' = [running |-> dmn.installed, installed |-> dmn.installed,
               past_grace |-> FALSE, locks |-> {LocalHost}, known |-> {}]
    /\ job' = [at |-> "idle", left |-> {}, found |-> 0]
    /\ cli' = [c \in UpdClients |-> [cli[c] EXCEPT !.linked = FALSE]]
    /\ srv' = [c \in UpdClients |-> Idle]
    /\ UNCHANGED <<released, pkgs, wire, disk, cuts>>

-----------------------------------------------------------------------------
(* The daemon's handlers *)

\* UpdateCheck: [version, whole?] of the announced package, as a set.
UpdateCheck(p, current) ==
    IF dmn.past_grace THEN check_update_with_checksum(p, current) ELSE {}

Chunk(seq, data, done) == [seq |-> seq, sum |-> IF seq = 0 THEN "whole" ELSE "none",
                           data |-> data, done |-> done, error |-> FALSE]

\* An error chunk, numbered from seq and without checksum, and a done marker.
send_update_error(seq) ==
    << [seq |-> seq, sum |-> "none", data |-> 0, done |-> FALSE, error |-> TRUE],
       [seq |-> seq + 1, sum |-> "none", data |-> 0, done |-> TRUE, error |-> FALSE] >>

Send(c, chunks) == wire' = [wire EXCEPT ![c] = @ \o chunks]

\* The request: the cached package must be exactly the version asked for.
handle_update_request(c) ==
    LET h == HostOf[c]
        fits == {q \in cached_package(LocalHost, PlatformOf[h]) :
                    q.version = srv[c].version}
    IN  /\ srv[c].at = "asked"
        /\ IF ~may_acquire_transfer(h)
           THEN /\ srv' = [srv EXCEPT ![c] = Idle] /\ UNCHANGED dmn
                /\ Send(c, send_update_error(0))
           ELSE /\ dmn' = try_acquire_transfer(h)
                /\ IF fits = {}
                   THEN srv' = [srv EXCEPT ![c] = Idle] /\ Send(c, send_update_error(0))
                   ELSE srv' = [srv EXCEPT ![c].at = "open"] /\ UNCHANGED wire
        /\ UNCHANGED <<released, pkgs, job, cli, disk, cuts>>

\* The checksum is computed from the path after the file is open: it may be gone.
ChecksumPackage(c) ==
    /\ srv[c].at = "open"
    /\ IF \E q \in pkgs[LocalHost][PlatformOf[HostOf[c]]] : q.version = srv[c].version
       THEN srv' = [srv EXCEPT ![c].at = "stream"] /\ UNCHANGED wire
       ELSE srv' = [srv EXCEPT ![c] = Idle] /\ Send(c, send_update_error(0))
    /\ UNCHANGED <<released, pkgs, dmn, job, cli, disk, cuts>>

\* stream_chunks: the chunks of the open file, then an empty done chunk.
stream_chunks(c) ==
    /\ srv[c].at = "stream"
    /\ LET n == srv[c].seq
       IN  IF n < PackageChunks
           THEN Send(c, <<Chunk(n, n + 1, FALSE)>>) /\ srv' = [srv EXCEPT ![c].seq = n + 1]
           ELSE Send(c, <<Chunk(n, 0, TRUE)>>) /\ srv' = [srv EXCEPT ![c] = Idle]
    /\ UNCHANGED <<released, pkgs, dmn, job, cli, disk, cuts>>

\* A read error in the middle of the file.
StreamReadError(c) ==
    /\ srv[c].at = "stream"
    /\ Send(c, send_update_error(0)) /\ srv' = [srv EXCEPT ![c] = Idle]
    /\ Fail /\ UNCHANGED <<released, pkgs, dmn, job, cli, disk>>

-----------------------------------------------------------------------------
(* The client *)

\* The reconnect callback compares the daemon's version with its own.
UpdConnect(c) ==
    /\ ~cli[c].linked
    /\ cli' = [cli EXCEPT ![c].linked = TRUE,
                          ![c].needed = @ \/ compare_versions(dmn.running, cli[c].running) = "Greater"]
    /\ UNCHANGED <<released, pkgs, dmn, job, srv, wire, disk, cuts>>

\* The link is lost: the stream's channel ends after what has arrived.
UpdCut(c) ==
    /\ cli[c].linked
    /\ cli' = [cli EXCEPT ![c].linked = FALSE]
    /\ srv' = [srv EXCEPT ![c] = Idle]
    /\ Fail /\ UNCHANGED <<released, pkgs, dmn, job, wire, disk>>

\* need_download: not when the host's highest package is the announced one, intact.
need_download(h, q) ==
    ~ \E l \in cached_package(h, PlatformOf[h]) :
         compare_versions(q.version, l.version) = "Equal" /\ l.data = q.data

\* Every AUTO_UPDATE_INTERVAL outside chat, busy or not: ask, then start one task.
PollUpdate(c) ==
    LET p == PlatformOf[HostOf[c]]
        info == UpdateCheck(p, cli[c].running)
        q == CHOOSE x \in info : TRUE
        download == need_download(HostOf[c], q)
    IN  /\ cli[c].linked /\ cli[c].needed /\ cli[c].task.kind = "none"
        /\ dmn' = [dmn EXCEPT !.known = @ \cup {p}]
        /\ IF info = {} THEN UNCHANGED <<cli, srv, wire>>
           ELSE /\ cli' = [cli EXCEPT ![c].task =
                             [NoTask EXCEPT !.kind = IF download THEN "download" ELSE "install",
                                            !.version = q.version]]
                /\ srv' = IF download THEN [srv EXCEPT ![c] = [Idle EXCEPT !.at = "asked",
                                                                          !.version = q.version]]
                          ELSE srv
                /\ wire' = IF download THEN [wire EXCEPT ![c] = <<>>] ELSE wire
        /\ UNCHANGED <<released, pkgs, job, disk, cuts>>

\* The task fails and update_in_progress stays set.
AbandonBusy(c) == cli' = [cli EXCEPT ![c].task.kind = "busy"]

\* The task gives up: the temporary file is removed, update_needed stays set.
Abandon(c) == cli' = [cli EXCEPT ![c].task = NoTask]

\* A receiver that takes an error for a chunk without data.
ReceiveAnyChunk(c) ==
    LET m == Head(wire[c])
        t == cli[c].task
    IN  /\ t.kind = "download" /\ wire[c] # <<>> /\ ~t.done
        /\ wire' = [wire EXCEPT ![c] = Tail(@)]
        /\ cli' = [cli EXCEPT ![c].task =
                          [t EXCEPT !.sum = IF m.seq = 0 THEN m.sum ELSE @,
                                    !.file = IF m.data = 0 THEN @ ELSE Append(@, m.data),
                                    !.done = m.done]]
        /\ UNCHANGED <<released, pkgs, dmn, job, srv, disk, cuts>>

\* One message of the stream: an error ends the task, the first chunk brings the checksum.
ReceiveChunk(c) ==
    LET m == Head(wire[c])
        t == cli[c].task
    IN  /\ t.kind = "download" /\ wire[c] # <<>> /\ ~t.done
        /\ wire' = [wire EXCEPT ![c] = Tail(@)]
        /\ IF m.error THEN Abandon(c)
           ELSE cli' = [cli EXCEPT ![c].task =
                          [t EXCEPT !.sum = IF m.seq = 0 THEN m.sum ELSE @,
                                    !.file = IF m.data = 0 THEN @ ELSE Append(@, m.data),
                                    !.done = m.done]]
        /\ UNCHANGED <<released, pkgs, dmn, job, srv, disk, cuts>>

\* The stream ends without a done marker.
StreamEnds(c) ==
    /\ cli[c].task.kind = "download" /\ ~cli[c].task.done
    /\ wire[c] = <<>> /\ srv[c].at = "idle"
    /\ Abandon(c)
    /\ UNCHANGED <<released, pkgs, dmn, job, srv, wire, disk, cuts>>

\* The file is hashed again if the stream carried a checksum, and renamed.
VerifyAndRename(c) ==
    LET h == HostOf[c]
        p == PlatformOf[h]
        t == cli[c].task
        new == [version |-> t.version, data |-> t.file]
    IN  /\ t.kind = "download" /\ t.done
        /\ IF t.sum # "none" /\ t.file # Whole
           THEN Abandon(c) /\ UNCHANGED pkgs
           ELSE /\ pkgs' = [pkgs EXCEPT ![h][p] = {q \in @ : q.version # t.version} \cup {new}]
                /\ cli' = [cli EXCEPT ![c].task.kind = "install"]
        /\ UNCHANGED <<released, dmn, job, srv, wire, disk, cuts>>

\* extract_and_run_installer --client-only; a downloaded package also prunes the cache.
InstallUpdate(c) ==
    LET h == HostOf[c]
        p == PlatformOf[h]
        t == cli[c].task
        from == IF t.done THEN {q \in pkgs[h][p] : q.version = t.version}
                ELSE cached_package(h, p)
    IN  /\ t.kind = "install"
        /\ IF from = {} \/ (CHOOSE q \in from : TRUE).data # Whole
           THEN Abandon(c) /\ UNCHANGED <<pkgs, disk>>
           ELSE /\ disk' = install_sh(h, (CHOOSE q \in from : TRUE).version)
                /\ pkgs' = IF t.done THEN [pkgs EXCEPT ![h][p] = prune_packages(@)] ELSE pkgs
                /\ cli' = [cli EXCEPT ![c].task = NoTask, ![c].needed = FALSE]
        /\ Fine /\ UNCHANGED <<released, dmn, job, srv, wire>>

InstallUpdateFails(c) ==
    /\ cli[c].task.kind = "install"
    /\ Abandon(c)
    /\ Fail /\ UNCHANGED <<released, pkgs, dmn, job, srv, wire, disk>>

\* Idle at the prompt the client runs the binary on disk if it is another version;
\* exec keeps the pty and the session and drops tasks and connection.
exec_update(c) ==
    /\ disk[HostOf[c]] # cli[c].running
    /\ cli' = [cli EXCEPT ![c] = [running |-> disk[HostOf[c]], linked |-> FALSE,
                                  needed |-> FALSE, task |-> NoTask]]
    /\ srv' = [srv EXCEPT ![c] = Idle]
    /\ wire' = [wire EXCEPT ![c] = <<>>]
    /\ UNCHANGED <<released, pkgs, dmn, job, disk, cuts>>

\* A new release appears at check_url.
Publish ==
    /\ released < LastVersion
    /\ released' = released + 1
    /\ UNCHANGED <<pkgs, dmn, job, cli, srv, wire, disk, cuts>>

-----------------------------------------------------------------------------
\* Everything starts at version 1, nothing is cached.
UpdInit ==
    /\ released = 1
    /\ pkgs = [h \in Hosts |-> [p \in Platforms |-> {}]]
    /\ dmn = [running |-> 1, installed |-> 1, past_grace |-> FALSE,
              locks |-> {LocalHost}, known |-> {}]
    /\ job = [at |-> "idle", left |-> {}, found |-> 0]
    /\ cli = [c \in UpdClients |-> [running |-> 1, linked |-> FALSE, needed |-> FALSE,
                                    task |-> NoTask]]
    /\ srv = [c \in UpdClients |-> Idle]
    /\ wire = [c \in UpdClients |-> <<>>]
    /\ disk = [h \in Hosts |-> 1]
    /\ cuts = 0

JobStep == \/ JobStart \/ JobLooks \/ JobInstalls \/ JobInstallFails \/ Restart
           \/ \E p \in Platforms : JobCopies(p) \/ JobDownloads(p) \/ JobRenames(p)
                                   \/ JobFetchFails(p)
ServerStep(c) == \/ handle_update_request(c) \/ ChecksumPackage(c) \/ stream_chunks(c)
                 \/ StreamReadError(c)
ClientStep(c) == \/ UpdConnect(c) \/ UpdCut(c) \/ PollUpdate(c) \/ ReceiveChunk(c)
                 \/ StreamEnds(c) \/ VerifyAndRename(c) \/ InstallUpdate(c)
                 \/ InstallUpdateFails(c) \/ exec_update(c)

UpdNext == \/ Publish \/ GraceEnds \/ JobStep
           \/ \E h \in Hosts : CooldownEnds(h)
           \/ \E c \in UpdClients : ServerStep(c) \/ ClientStep(c)

\* The cron scheduler, the timers, the handlers and the main loop keep running;
\* failures are bounded, so a step that may fail succeeds when it is tried again.
UpdFairness ==
    /\ WF_updVars(GraceEnds)
    /\ WF_updVars(JobStep)
    /\ \A h \in Hosts : WF_updVars(CooldownEnds(h))
    /\ \A c \in UpdClients :
         /\ WF_updVars(ServerStep(c))
         /\ SF_updVars(UpdConnect(c)) /\ SF_updVars(PollUpdate(c)) /\ SF_updVars(exec_update(c))
         /\ WF_updVars(ReceiveChunk(c)) /\ WF_updVars(StreamEnds(c))
         /\ WF_updVars(VerifyAndRename(c)) /\ WF_updVars(InstallUpdate(c))

UpdSpec == UpdInit /\ [][UpdNext]_updVars /\ UpdFairness

-----------------------------------------------------------------------------
\* Whatever is pruned, replaced, cut or unreadable while it streams, a client
\* host keeps only whole packages in its cache (download_and_extract_update).
WholePackages ==
    \A h \in Hosts, p \in Platforms : \A q \in pkgs[h][p] : q.data = Whole

\* A client that is behind the daemon catches up with it (UpdateCheck,
\* UpdateRequest, the cooldown and exec_update work together).
UpdatesArrive ==
    \A c \in UpdClients :
        dmn.running > cli[c].running ~> dmn.running <= cli[c].running
=============================================================================
