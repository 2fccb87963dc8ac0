-------------------------------- MODULE Serve --------------------------------
(***************************************************************************)
(* forge-serve answering a browser while `forge build` and a compressor    *)
(* write the directory it serves.  A browser (or the server's own start-up *)
(* self-test) loads the page and then the stylesheet that page names.  One *)
(* request is several awaits: is the file there, then for br and gzip in   *)
(* turn is its compressed sibling there, the two modification times in     *)
(* whole seconds, and last the read of whichever was chosen.               *)
(*                                                                         *)
(* The body of a file is the number of the build that wrote it, and every  *)
(* build changes both files: page b names the stylesheet b.  render        *)
(* replaces a file by a rename; dynamic_runtime then truncates the page    *)
(* and fills it again.  No phase writes the siblings: the compressor is    *)
(* whatever the operator runs (gzip -k and brotli keep the time of the     *)
(* source, others do not), and so is the hand that removes a file.  The    *)
(* requests share nothing but the directory and only read it, so one is    *)
(* followed at a time.  Times before the epoch and file systems without    *)
(* modification times are left out.                                        *)
(***************************************************************************)
EXTENDS Naturals, Sequences

CONSTANTS
  Accepts,     \* sets of codings a browser may accept
  MaxClock,    \* bound: seconds
  MaxBuilds,   \* bound: builds after the one that made the site
  Packed,      \* sets of <<file, coding>> that may have been compressed before the start
  MaxPacks,    \* bound: runs of the compressor, and removals
  Absent,      \* no such file
  Torn         \* the body of a file truncated and not yet filled

Files == {"page", "skin"}

Seconds == 1..MaxClock   \* seconds of the epoch: 0 is what an unread time becomes
Stored == [body: (0..MaxBuilds) \union {Torn}, mtime: Seconds]
Answer == [status: {200, 404, 405, 500}, body: (0..MaxBuilds) \union {Torn, Absent},
           sibling: BOOLEAN]

\* what the constants are assumed to be
ServeAssumption ==
  /\ {MaxClock, MaxBuilds, MaxPacks} \subseteq Nat /\ MaxClock > 0
  /\ Accepts \subseteq SUBSET {"br", "gzip"}
  /\ {Absent, Torn} \intersect Nat = {} /\ Absent # Torn /\ Absent \notin Stored

VARIABLES
  clock,
  disk,      \* file -> Absent or what is stored
  sibling,   \* <<file, coding>> -> Absent or what is stored
  build,     \* [pc, number]
  packer,    \* the compressor: [pc, file, coding, source]
  packs,     \* how often the operator has compressed or removed
  req,       \* the request being answered
  got,       \* file -> the answer the browser has, or Absent
  seen,      \* history of the load: the build it began with, and whether one ran since
  careful    \* history: no build or compressor has done what Careful forbids

serveVars == <<clock, disk, sibling, build, packer, packs, req, got, seen, careful>>

NoRequest == [pc |-> "idle", file |-> "page", rest |-> <<>>, src |-> 0,
              begun |-> 0, lost |-> FALSE]

NotPacking == [pc |-> "idle", file |-> "page", coding |-> "br", source |-> [body |-> 0, mtime |-> 1]]

ServeTypeOK ==
  /\ clock \in Seconds /\ packs \in 0..MaxPacks /\ careful \in BOOLEAN
  /\ disk \in [Files -> Stored \union {Absent}]
  /\ sibling \in [Files \X {"br", "gzip"} -> Stored \union {Absent}]
  /\ build \in [pc: {"idle", "page", "skin", "truncate", "fill"}, number: 0..MaxBuilds]
  /\ packer \in [pc: {"idle", "read", "open"}, file: Files, coding: {"br", "gzip"}, source: Stored]
  /\ req.pc \in {"idle", "resolve", "negotiate", "source_time", "sibling_time", "read_sibling", "read"}
  /\ req.file \in Files /\ req.src \in 0..MaxClock /\ req.begun \in 0..MaxBuilds
  /\ got \in [Files -> Answer \union {Absent}]
  /\ seen \in [build: 0..MaxBuilds, quiet: BOOLEAN]

ServeInit ==
  /\ clock = 1 /\ packs = 0 /\ careful = TRUE
  /\ disk = [f \in Files |-> [body |-> 0, mtime |-> 1]]
  /\ \E P \in Packed :
       sibling = [fc \in Files \X {"br", "gzip"} |->
                    IF fc \in P THEN [body |-> 0, mtime |-> 1] ELSE Absent]
  /\ build = [pc |-> "idle", number |-> 0]
  /\ packer = NotPacking
  /\ req = NoRequest
  /\ got = [f \in Files |-> Absent]
  /\ seen = [build |-> 0, quiet |-> TRUE]

Tick == clock < MaxClock /\ clock' = clock + 1
        /\ UNCHANGED <<disk, sibling, build, packer, packs, req, got, seen, careful>>

-----------------------------------------------------------------------------
(* The build.  A file is stored with the second of the write.              *)

\* Careful operators run the compressor between builds only, never write a file in a
\* second in which it or a sibling was already stamped, and remove nothing.
LaterThanStamps(f) ==
  \A s \in {disk[f], sibling[<<f, "br">>], sibling[<<f, "gzip">>]} : s # Absent => s.mtime < clock

Store(f, body) ==
  /\ disk' = [disk EXCEPT ![f] = [body |-> body, mtime |-> clock]]
  /\ careful' = (careful /\ packer.pc = "idle" /\ LaterThanStamps(f))
  /\ seen' = [seen EXCEPT !.quiet = FALSE]
  /\ UNCHANGED <<clock, sibling, packer, packs, req, got>>

StartBuild ==
  /\ build.pc = "idle" /\ build.number < MaxBuilds
  /\ build' = [pc |-> "page", number |-> build.number + 1]
  /\ UNCHANGED <<clock, disk, sibling, packer, packs, req, got, seen, careful>>

\* render: the page, which names the stylesheet this build is going to write
\* Mutant of RenamePage: the old page is removed, the new one comes with the injection
RenamePageUnlinking == build.pc = "page" /\ build' = [build EXCEPT !.pc = "skin"]
                       /\ disk' = [disk EXCEPT !["page"] = Absent]
                       /\ UNCHANGED <<clock, sibling, packer, packs, req, got, seen, careful>>

RenamePage == build.pc = "page" /\ build' = [build EXCEPT !.pc = "skin"]
              /\ Store("page", build.number)
RenameSkin == build.pc = "skin" /\ build' = [build EXCEPT !.pc = "truncate"]
              /\ Store("skin", build.number)

\* dynamic_runtime rewrites the page in place, in dynamic and hybrid builds
TruncatePage == build.pc = "truncate" /\ disk["page"] # Absent
                /\ build' = [build EXCEPT !.pc = "fill"] /\ Store("page", Torn)

\* the second half of the same fs::write, where the truncation was judged for care
FillPage ==
  /\ build.pc = "fill"
  /\ build' = [build EXCEPT !.pc = "idle"]
  /\ disk' = IF disk["page"] = Absent THEN disk
             ELSE [disk EXCEPT !["page"] = [body |-> build.number, mtime |-> clock]]
  /\ seen' = [seen EXCEPT !.quiet = FALSE]
  /\ UNCHANGED <<clock, sibling, packer, packs, req, got, careful>>

SkipInjection ==
  /\ build.pc = "truncate"
  /\ build' = [build EXCEPT !.pc = "idle"]
  /\ UNCHANGED <<clock, disk, sibling, packer, packs, req, got, seen, careful>>

-----------------------------------------------------------------------------
(* The operator's compressor, and his rm.                                  *)

PackRead(f, c) ==
  /\ packer.pc = "idle" /\ packs < MaxPacks /\ disk[f] # Absent
  /\ packs' = packs + 1
  /\ packer' = [pc |-> "read", file |-> f, coding |-> c, source |-> disk[f]]
  /\ careful' = (careful /\ build.pc = "idle")
  /\ UNCHANGED <<clock, disk, sibling, build, req, got, seen>>

PackOpen ==
  /\ packer.pc = "read"
  /\ packer' = [packer EXCEPT !.pc = "open"]
  /\ sibling' = [sibling EXCEPT ![<<packer.file, packer.coding>>] =
                   [body |-> Torn, mtime |-> clock]]
  /\ seen' = [seen EXCEPT !.quiet = FALSE]
  /\ UNCHANGED <<clock, disk, build, packs, req, got, careful>>

\* The sibling is complete, stamped now or with the time of its source.
PackFill(stamp) ==
  /\ packer.pc = "open"
  /\ stamp \in {clock, packer.source.mtime}
  /\ packer' = NotPacking
  /\ sibling' = [sibling EXCEPT ![<<packer.file, packer.coding>>] =
                   [body |-> packer.source.body, mtime |-> stamp]]
  /\ UNCHANGED <<clock, disk, build, packs, req, got, seen, careful>>

Lost(f) == [req EXCEPT !.lost = @ \/ req.file = f]

Remove(f) ==
  /\ disk[f] # Absent /\ packs < MaxPacks
  /\ disk' = [disk EXCEPT ![f] = Absent] /\ packs' = packs + 1
  /\ req' = Lost(f) /\ careful' = FALSE
  /\ UNCHANGED <<clock, sibling, build, packer, got, seen>>

\* gzip -f removes the sibling it is about to replace
RemoveSibling(f, c) ==
  /\ sibling[<<f, c>>] # Absent /\ packs < MaxPacks
  /\ sibling' = [sibling EXCEPT ![<<f, c>>] = Absent] /\ packs' = packs + 1
  /\ req' = Lost(f) /\ careful' = FALSE
  /\ UNCHANGED <<clock, disk, build, packer, got, seen>>

-----------------------------------------------------------------------------
(* handle and resolve_and_serve.                                           *)

Reply(status, body, from) ==
  /\ got' = [got EXCEPT ![req.file] = [status |-> status, body |-> body, sibling |-> from]]
  /\ req' = [req EXCEPT !.pc = "idle", !.rest = <<>>, !.src = 0]

Untouched == UNCHANGED <<clock, disk, sibling, build, packer, packs, seen, careful>>

\* br is tried before gzip
Only(c, accept) == IF c \in accept THEN <<c>> ELSE <<>>

Asked(f, accept) ==
  [pc |-> "resolve", file |-> f, src |-> 0, lost |-> disk[f] = Absent,
   rest |-> Only("br", accept) \o Only("gzip", accept),
   begun |-> IF disk[f] = Absent \/ disk[f].body = Torn THEN 0 ELSE disk[f].body]

\* A load begins: nothing of an earlier one is kept (the answers say no-store).
AskPage(accept) ==
  /\ req.pc = "idle"
  /\ req' = Asked("page", accept)
  /\ got' = [f \in Files |-> Absent]
  /\ seen' = [build |-> build.number, quiet |-> build.pc = "idle" /\ packer.pc # "open"]
  /\ UNCHANGED <<clock, disk, sibling, build, packer, packs, careful>>

AskSkin(accept) ==
  /\ req.pc = "idle" /\ got["skin"] = Absent
  /\ got["page"] # Absent /\ got["page"].status = 200
  /\ req' = Asked("skin", accept)
  /\ Untouched /\ UNCHANGED got

\* any method but GET and HEAD
RefuseMethod ==
  /\ req.pc = "idle" /\ got["page"] = Absent
  /\ Reply(405, Absent, FALSE) /\ Untouched

Resolve ==
  /\ req.pc = "resolve" /\ Untouched
  /\ \/ disk[req.file] = Absent /\ Reply(404, Absent, FALSE)
     \/ disk[req.file] # Absent /\ req' = [req EXCEPT !.pc = "negotiate"] /\ UNCHANGED got

\* Mutant of NextCoding: `continue` without going on to the next coding
NextCodingStuck == [req EXCEPT !.pc = "negotiate"]

NextCoding == [req EXCEPT !.pc = "negotiate", !.rest = Tail(@)]

\* Is the sibling of the next accepted coding there?  With none left, the file itself.
Negotiate ==
  /\ req.pc = "negotiate" /\ Untouched /\ UNCHANGED got
  /\ req' = CASE req.rest = <<>> -> [req EXCEPT !.pc = "read"]
              [] req.rest # <<>> /\ sibling[<<req.file, Head(req.rest)>>] = Absent -> NextCoding
              [] OTHER -> [req EXCEPT !.pc = "source_time"]

\* mtime: a file whose time cannot be read counts as 0 on both sides
Mtime(stored) == IF stored = Absent THEN 0 ELSE stored.mtime

StatSource ==
  /\ req.pc = "source_time"
  /\ req' = [req EXCEPT !.pc = "sibling_time", !.src = Mtime(disk[req.file])]
  /\ Untouched /\ UNCHANGED got

\* Mutant of IsStale: no guard
IsStaleNever(sib) == FALSE

IsStale(sib) == sib < req.src

StatSibling ==
  /\ req.pc = "sibling_time" /\ Untouched /\ UNCHANGED got
  /\ req' = IF IsStale(Mtime(sibling[<<req.file, Head(req.rest)>>])) THEN NextCoding
            ELSE [req EXCEPT !.pc = "read_sibling"]

\* fs::read, which ends in a 500 when the file has gone since it was looked up
ReadBody(stored, from) ==
  IF stored = Absent THEN Reply(500, Absent, FALSE) ELSE Reply(200, stored.body, from)

ReadSibling == req.pc = "read_sibling" /\ Untouched
               /\ ReadBody(sibling[<<req.file, Head(req.rest)>>], TRUE)
ReadFile    == req.pc = "read" /\ Untouched /\ ReadBody(disk[req.file], FALSE)

Handle == Resolve \/ Negotiate \/ StatSource \/ StatSibling \/ ReadSibling \/ ReadFile

ServeNext ==
  \/ Tick \/ StartBuild \/ RenamePage \/ RenameSkin \/ TruncatePage \/ FillPage \/ SkipInjection
  \/ PackOpen \/ \E f \in Files, c \in {"br", "gzip"} : PackRead(f, c) \/ RemoveSibling(f, c)
  \/ \E s \in Seconds : PackFill(s)
  \/ \E f \in Files : Remove(f)
  \/ \E a \in Accepts : AskPage(a) \/ AskSkin(a)
  \/ RefuseMethod \/ Handle

\* The runtime schedules a task whose await is ready.  Nothing obliges a build to end, a
\* browser to ask or a second to pass.
ServeFairness == WF_serveVars(Handle)
ServeSpec == ServeInit /\ [][ServeNext]_serveVars
ServeFairSpec == ServeSpec /\ ServeFairness

-----------------------------------------------------------------------------
(* Properties                                                              *)

\* What the modification times are compared for: while the compressor is used with care, no
\* answer holds an older build of the file than the one there when the request arrived,
\* whatever builds and compressors do between the steps of the request.
FreshAnswer ==
  careful /\ req.pc = "idle" =>
    \A f \in Files : got[f] # Absent /\ got[f].body \notin {Absent, Torn} /\ req.file = f
                       => got[f].body >= req.begun

\* The mismatch the module comment says the guard caught (T54): in a load during which no
\* file is written, the browser gets the stylesheet its page names, not one of an earlier
\* build with another hash.
LoadMatches ==
  careful /\ seen.quiet /\ got["skin"] # Absent =>
    got["page"].body = seen.build /\ got["skin"].body = seen.build

\* A file that is there all through a request, and whose siblings nobody removes, is answered
\* with it: builds that replace it in between never make it a 404 or a 500.
PresentIsServed ==
  req.pc = "idle" /\ ~req.lost =>
    \A f \in Files : got[f] # Absent /\ req.file = f => got[f].status \in {200, 405}

\* Every request is answered.
Answered == req.pc # "idle" ~> req.pc = "idle"

\* The comment on mtime says an unreadable time counts as stale.  It does for a sibling; for
\* the page itself 0 makes any sibling count as fresh.
UnreadableIsStale == req.pc = "read_sibling" => req.src # 0
=============================================================================
