------------------------------ MODULE SiteBuild ------------------------------
(***************************************************************************)
(* `forge build` of one site with [render] write_canonical = true: the     *)
(* phases that write files under static/ and the ones that compare those   *)
(* files with each other or with what Forge emits, in the order of the     *)
(* phase list (loom_sync, substrate_purity, render, sri, dynamic_runtime)  *)
(* or, with FORGE_PIPELINE=1, of the stages (loom_sync, render,            *)
(* substrate_purity, sri, dynamic_runtime); the [strict] policy applied to *)
(* their findings, and the exit code.  The operator edits cms/ and         *)
(* forge.toml at any time and the build can be killed at any time.  The    *)
(* phases that lint the contents of pages only read and are left out: a    *)
(* build here succeeds as far as the phases above are concerned.           *)
(*                                                                         *)
(* A file under cms/ is the number of the edit that wrote it; a page under *)
(* static/ records the version it was rendered from and the contents of    *)
(* loom-skin.css and tenant-style.css its integrity attributes name.  A    *)
(* slug with a parent (about--privacy) is always written to a directory of *)
(* its own; its parent moves from about.html to about/index.html when it   *)
(* has a child.  No two slugs share a directory.  The operator puts no     *)
(* file of his own under static/, and the Loom checkout holds the base     *)
(* skin that is compiled into forge.                                       *)
(***************************************************************************)
EXTENDS Naturals, Sequences, SequencesExt

CONSTANTS
  SlugOrder,    \* the valid slugs, in file name order
  ParentOf,     \* nested slug -> the slug before its first "--"
  Index,        \* the slug "index", which no layout moves
  Skins,        \* contents of loom-skin.css, by [style] skin
  BaseSkin,     \* the one without an overlay
  Styles,       \* non-empty [style] blocks
  Policies,     \* [strict] sections: [promote: phases, exempt: <<phase, rule>>]
  Modes,        \* build modes in use
  MaxEdits,     \* bound: edits in a behaviour
  MaxBuilds,    \* bound: builds in a behaviour
  Absent,       \* no such file, or no such section
  Torn          \* a page truncated before it is filled

Slugs == ToSet(SlugOrder)

ASSUME SiteAssumption ==
  /\ {MaxEdits, MaxBuilds} \subseteq Nat
  /\ BaseSkin \in Skins
  /\ Modes \subseteq {"poc", "production", "dynamic", "hybrid"}
  /\ Policies \subseteq [promote : SUBSET STRING, exempt : SUBSET (STRING \X STRING)]
  /\ \A s \in DOMAIN ParentOf : ParentOf[s] # s
  /\ Absent \notin Nat \union Skins \union Styles /\ Torn # Absent

Bad == 0   \* a cms file that does not parse as a CmsPage

Versions == 1..(MaxEdits + 1)

Paths == Slugs \X {"flat", "nested"}
TopLevel == {path \in Paths : path[2] = "flat"}

Page == [src: Versions, skin: Skins, style: Styles \union {Absent}, runtime: BOOLEAN]

Write == [path : TopLevel, page : Page]   \* a page read, with the place to write it to

ASSUME MarksAssumption == Absent \notin Page \union Write /\ Torn \notin Page

VARIABLES
  cms,       \* slug -> Absent, Bad or the version in cms/<slug>.json
  toml,      \* forge.toml: [clean_urls, skin, style, policy]
  static,    \* path -> Absent, Torn or the page served there
  skinFile,  \* static/loom-skin.css
  styleFile, \* static/tenant-style.css
  spaFile,   \* whether static/forge-spa-runtime.js exists
  build,     \* the build process
  edits,     \* edits so far
  builds     \* builds so far

siteVars == <<static, skinFile, styleFile, spaFile>>
inputVars == <<cms, toml, edits>>
vars == <<siteVars, inputVars, build, builds>>

Toml == [clean_urls: BOOLEAN, skin: Skins, style: Styles \union {Absent}, policy: Policies]

Findings == [phase: {"loom_sync", "substrate_purity", "render", "sri", "dynamic_runtime"},
             severity: {"strict", "warn"},
             rule: {"drift", "hand_authored", "cms_parse", "orphan", "missing", "mismatch",
                    "no_body"}]

BuildState ==
  [pc : {"idle", "sync", "purity", "begin", "pages", "skin", "style", "sri", "runtime", "done"},
   mode : Modes \union {"poc"}, pipeline : BOOLEAN,
   promote : SUBSET STRING, exempt : SUBSET (STRING \X STRING),
   toml : Toml \union {Absent}, seen : [Slugs -> {Absent, Bad} \union Versions],
   todo : SUBSET Slugs, rendered : SUBSET Slugs, inject : SUBSET TopLevel,
   page : Write \union {Absent}, findings : SUBSET Findings,
   quiet : BOOLEAN, exit : {"none", "ok", "failed", "error"}]

NotBuilding == [pc |-> "idle", mode |-> "poc", pipeline |-> FALSE, promote |-> {}, exempt |-> {},
                toml |-> Absent, seen |-> [s \in Slugs |-> Absent], todo |-> {},
                rendered |-> {}, inject |-> {}, page |-> Absent, findings |-> {},
                quiet |-> FALSE, exit |-> "none"]

(* Every variable keeps its type.                                          *)
TypeOK ==
  /\ cms \in [Slugs -> {Absent, Bad} \union Versions]
  /\ toml \in Toml
  /\ static \in [Paths -> {Absent, Torn} \union Page]
  /\ skinFile \in Skins \union {Absent}
  /\ styleFile \in Styles \union {Absent}
  /\ spaFile \in BOOLEAN
  /\ build \in BuildState
  /\ edits \in 0..MaxEdits /\ builds \in 0..MaxBuilds

Init ==
  /\ cms \in [Slugs -> {Absent, 1}]
  /\ toml \in {t \in Toml : ~t.clean_urls /\ t.style = Absent}
  /\ static = [p \in Paths |-> Absent]
  /\ skinFile = Absent
  /\ styleFile = Absent
  /\ spaFile = FALSE
  /\ build = NotBuilding
  /\ edits = 0
  /\ builds = 0

-----------------------------------------------------------------------------
(* The operator. *)

Edit ==
  /\ edits < MaxEdits
  /\ edits' = edits + 1
  /\ build' = [build EXCEPT !.quiet = FALSE]
  /\ UNCHANGED <<siteVars, builds>>

EditPage(s, content) ==
  /\ cms[s] # content
  /\ cms' = [cms EXCEPT ![s] = content]
  /\ UNCHANGED toml
  /\ Edit

EditToml(t) ==
  /\ toml' = t
  /\ UNCHANGED cms
  /\ Edit

WritePage(s)  == EditPage(s, edits + 2)
DeletePage(s) == EditPage(s, Absent)
BreakPage(s)  == EditPage(s, Bad)

SetSkin(skin)   == toml.skin # skin /\ EditToml([toml EXCEPT !.skin = skin])
SetStyle(style) == toml.style # style /\ EditToml([toml EXCEPT !.style = style])
ToggleCleanUrls == EditToml([toml EXCEPT !.clean_urls = ~@])

-----------------------------------------------------------------------------
(* Findings under [strict] and [strict.exempt]. *)

(* StrictPromotions::load wants a table of booleans, so a [strict.exempt]   *)
(* table inside it makes the whole section fail to parse.                   *)
LoadedPromotions(policy) == IF policy.exempt = {} THEN policy.promote ELSE {}

(* promote, then filter.                                                    *)
Applied(found) ==
  {[f EXCEPT !.severity = IF f.phase \in build.promote THEN "strict" ELSE @] :
     f \in {g \in found : <<g.phase, g.rule>> \notin build.exempt}}

Strict(phase, rule) == [phase |-> phase, severity |-> "strict", rule |-> rule]
Warn(phase, rule)   == [phase |-> phase, severity |-> "warn", rule |-> rule]

(* Severity::blocks_in, for the severities these phases use.                *)
Blocks(finding) == finding.severity = "strict" \/ build.mode = "production"

-----------------------------------------------------------------------------
(* The build. *)

Building(pc) == build.pc = pc

(* run(): the mode and, on the flat path, the [strict] section are read     *)
(* before the first phase; with FORGE_PIPELINE=1 it is never read.          *)
StartBuild(mode, pipeline) ==
  /\ build.pc \in {"idle", "done"}
  /\ builds < MaxBuilds
  /\ builds' = builds + 1
  /\ build' = [NotBuilding EXCEPT !.pc = "sync", !.mode = mode, !.pipeline = pipeline,
       !.promote = IF pipeline THEN {} ELSE LoadedPromotions(toml.policy),
       !.exempt = IF pipeline THEN {} ELSE toml.policy.exempt]
  /\ UNCHANGED <<siteVars, inputVars>>

(* LoomSyncPhase::run compares the hash in the skin's marker with the hash  *)
(* of Loom's skin.css, which is the base skin.                              *)
SyncFinding == IF skinFile = BaseSkin THEN {} ELSE {Warn("loom_sync", "drift")}

CheckSync ==
  /\ Building("sync")
  /\ build' = [build EXCEPT !.pc = IF build.pipeline THEN "begin" ELSE "purity",
                            !.findings = @ \union Applied(SyncFinding)]
  /\ UNCHANGED <<siteVars, inputVars, builds>>

(* SubstratePurityPhase::run: both stylesheets are in the allowlist and     *)
(* pages are passed over, but forge-spa-runtime.js is not in it.            *)
PurityFinding == IF spaFile THEN {Strict("substrate_purity", "hand_authored")} ELSE {}

CheckPurity ==
  /\ Building("purity")
  /\ build' = [build EXCEPT !.pc = IF build.pipeline THEN "sri" ELSE "begin",
                            !.findings = @ \union Applied(PurityFinding)]
  /\ UNCHANGED <<siteVars, inputVars, builds>>

(* RenderPhase::run reads forge.toml once and lists cms/.                   *)
BeginRender ==
  /\ Building("begin")
  /\ build' = [build EXCEPT !.pc = "pages", !.toml = toml, !.seen = cms, !.quiet = TRUE,
                            !.todo = {s \in Slugs : cms[s] # Absent}]
  /\ UNCHANGED <<siteVars, inputVars, builds>>

(* output_path_for_slug: a parent is a slug with a child in the listing;    *)
(* "index" itself is always static/index.html.                              *)
OutputPath(s) ==
  LET isParent == \E child \in DOMAIN ParentOf :
                    ParentOf[child] = s /\ build.seen[child] # Absent
  IN <<s, IF \/ s \in DOMAIN ParentOf
             \/ s # Index /\ (build.toml.clean_urls \/ isParent)
          THEN "nested" ELSE "flat">>

(* One page, from its file and from [style] as they are now. The code reads *)
(* the page, then forge.toml, and then writes; here that is one step, as    *)
(* nothing else writes under static/ while a build runs, an edit of the     *)
(* page after it was read is one after the step, and an edit of forge.toml  *)
(* before it is read is one before the step.                                *)
RenderPage(s) ==
  /\ cms[s] \notin {Absent, Bad}
  /\ static' = [static EXCEPT ![OutputPath(s)] =
       [src |-> cms[s], skin |-> build.toml.skin, style |-> toml.style, runtime |-> FALSE]]
  /\ build' = [build EXCEPT !.todo = @ \ {s}, !.rendered = @ \union {s}]

\* Mutant of SkipUnparsed: no finding for a page that does not parse.
SkipSilently(s) ==
  /\ cms[s] = Bad
  /\ build' = [build EXCEPT !.todo = @ \ {s}]
  /\ UNCHANGED static

(* A page that does not parse is a strict finding; its old output stays.    *)
SkipUnparsed(s) ==
  /\ cms[s] = Bad
  /\ build' = [build EXCEPT !.todo = @ \ {s},
                            !.findings = @ \union Applied({Strict("render", "cms_parse")})]
  /\ UNCHANGED static

(* A page deleted since the listing aborts the build.                       *)
PageVanished(s) ==
  /\ cms[s] = Absent
  /\ build' = [build EXCEPT !.pc = "done", !.exit = "error"]
  /\ UNCHANGED static

(* The listing is worked off in file name order.                            *)
InTurn(s) ==
  \E i \in DOMAIN SlugOrder :
    SlugOrder[i] = s /\ \A j \in 1..(i - 1) : SlugOrder[j] \notin build.todo

NextPage ==
  /\ Building("pages")
  /\ \E s \in build.todo : InTurn(s) /\ (RenderPage(s) \/ SkipUnparsed(s) \/ PageVanished(s))
  /\ UNCHANGED <<skinFile, styleFile, spaFile, inputVars, builds>>

(* The orphan scan: top-level pages whose stem was not rendered.            *)
Orphans == {p \in TopLevel : static[p] # Absent /\ p[1] \notin build.rendered}

ScanOrphans ==
  /\ Building("pages") /\ build.todo = {}
  /\ build' = [build EXCEPT !.pc = "skin", !.findings = @ \union
                 Applied({Warn("render", "orphan") : p \in Orphans})]
  /\ UNCHANGED <<siteVars, inputVars, builds>>

\* Mutant of WriteSkin: an existing file is taken to be current.
WriteSkinIfMissing ==
  /\ Building("skin")
  /\ skinFile' = IF skinFile = Absent THEN build.toml.skin ELSE skinFile
  /\ build' = [build EXCEPT !.pc = "style"]
  /\ UNCHANGED <<static, styleFile, spaFile, inputVars, builds>>

(* loom-skin.css is written after the pages that name its bytes.            *)
WriteSkin ==
  /\ Building("skin")
  /\ skinFile' = build.toml.skin
  /\ build' = [build EXCEPT !.pc = "style"]
  /\ UNCHANGED <<static, styleFile, spaFile, inputVars, builds>>

(* write_tenant_style_css reads forge.toml once more; without a [style]     *)
(* section the old file stays.                                              *)
WriteStyle ==
  /\ Building("style")
  /\ styleFile' = IF toml.style = Absent THEN styleFile ELSE toml.style
  /\ build' = [build EXCEPT !.pc = IF build.pipeline THEN "purity" ELSE "sri"]
  /\ UNCHANGED <<static, skinFile, spaFile, inputVars, builds>>

\* Mutant of SriFinding: only the presence of the file is checked.
SriPresenceOnly(declared, file) ==
  IF declared # Absent /\ file = Absent THEN {Warn("sri", "missing")} ELSE {}

(* One stylesheet link of a page against the file on disk.                  *)
SriFinding(declared, file) ==
  IF declared = Absent \/ declared = file THEN {}
  ELSE IF file = Absent THEN {Warn("sri", "missing")} ELSE {Strict("sri", "mismatch")}

\* Mutant of HtmlFiles: the walk descends into directories.
AllHtmlFiles == {p \in Paths : static[p] # Absent}

(* walk_html and dynamic_runtime list the top level of static/ only.        *)
HtmlFiles == {p \in TopLevel : static[p] # Absent}

WantsRuntime == build.mode \in {"dynamic", "hybrid"}

(* SriPhase::run; then, in the modes that want it, dynamic_runtime writes   *)
(* the runtime and lists the pages.                                         *)
CheckSri ==
  /\ Building("sri")
  /\ LET pages == {static[p] : p \in HtmlFiles} \ {Torn}
         found == UNION {SriFinding(page.skin, skinFile) \union SriFinding(page.style, styleFile) :
                           page \in pages}
     IN build' = [build EXCEPT !.pc = "runtime", !.findings = @ \union Applied(found),
                                !.inject = IF WantsRuntime THEN HtmlFiles ELSE {}]
  /\ spaFile' = (spaFile \/ WantsRuntime)
  /\ UNCHANGED <<static, skinFile, styleFile, inputVars, builds>>

(* inject_script_tag reads the page; one that has the tag is left alone, as *)
(* is one without </body>, with a warning.                                  *)
SkipInjection(p) ==
  /\ IF static[p] = Torn THEN TRUE ELSE static[p].runtime
  /\ build' = [build EXCEPT !.inject = @ \ {p}, !.findings = @ \union
       IF static[p] = Torn THEN Applied({Warn("dynamic_runtime", "no_body")}) ELSE {}]
  /\ UNCHANGED static

(* fs::write truncates the page it has read, then fills it.                 *)
TruncatePage(p) ==
  /\ IF static[p] = Torn THEN FALSE ELSE ~static[p].runtime
  /\ static' = [static EXCEPT ![p] = Torn]
  /\ build' = [build EXCEPT !.page = [path |-> p, page |-> static[p]]]

FillPage(p) ==
  /\ build.page.path = p
  /\ static' = [static EXCEPT ![p] = [build.page.page EXCEPT !.runtime = TRUE]]
  /\ build' = [build EXCEPT !.page = Absent, !.inject = @ \ {p}]

Inject(p) ==
  /\ Building("runtime") /\ p \in build.inject
  /\ IF build.page = Absent THEN SkipInjection(p) \/ TruncatePage(p)
     ELSE FillPage(p)
  /\ UNCHANGED <<skinFile, styleFile, spaFile, inputVars, builds>>

(* report.passed(mode) and the exit code.                                   *)
EndBuild ==
  /\ Building("runtime") /\ build.inject = {}
  /\ build' = [build EXCEPT !.pc = "done", !.exit =
       IF \E f \in build.findings : Blocks(f) THEN "failed" ELSE "ok"]
  /\ UNCHANGED <<siteVars, inputVars, builds>>

Crash ==
  /\ build.pc \notin {"idle", "done"}
  /\ build' = NotBuilding
  /\ UNCHANGED <<siteVars, inputVars, builds>>

Next ==
  \/ \E s \in Slugs : WritePage(s) \/ DeletePage(s) \/ BreakPage(s)
  \/ \E skin \in Skins : SetSkin(skin)
  \/ \E style \in Styles \union {Absent} : SetStyle(style)
  \/ ToggleCleanUrls
  \/ \E mode \in Modes, pipeline \in BOOLEAN : StartBuild(mode, pipeline)
  \/ CheckSync \/ CheckPurity
  \/ BeginRender \/ NextPage \/ ScanOrphans \/ WriteSkin \/ WriteStyle \/ CheckSri
  \/ \E p \in TopLevel : Inject(p)
  \/ EndBuild \/ Crash

Spec == Init /\ [][Next]_vars

-----------------------------------------------------------------------------
(* A build that reports OK has written, whole, every page that was listed   *)
(* when it began, from that version or a later one: a page that does not    *)
(* parse, and whose old output is still served, is never passed over, and   *)
(* neither a moved page nor an earlier crash leaves a torn one behind.  The *)
(* operator can only give this up by name, with an exemption.               *)
OkMeansFresh ==
  build.exit = "ok" /\ <<"render", "cms_parse">> \notin build.exempt =>
    \A s \in Slugs : build.seen[s] # Absent =>
      LET page == static[OutputPath(s)]
      IN page \notin {Absent, Torn} /\ page.src >= build.seen[s]

(* A build that reports OK leaves no top-level page, its own or an older    *)
(* one, whose integrity attribute refuses the stylesheet that is served,    *)
(* although forge.toml is read three times, the stylesheets are written     *)
(* after the pages, and an edit or a crash may fall between any of these;   *)
(* unless the operator has exempted just this.                              *)
OkMeansIntegrity ==
  build.exit = "ok" /\ <<"sri", "mismatch">> \notin build.exempt =>
    \A p \in TopLevel : static[p] \notin {Absent, Torn} =>
      /\ static[p].skin = skinFile
      /\ static[p].style \in {Absent, styleFile} \/ styleFile = Absent

(* The next build repairs whatever an earlier one left: if nothing is       *)
(* edited while it runs, every page parses, no older top-level page is left *)
(* beside the ones it writes, and loom_sync and substrate_purity, which     *)
(* judge the output of earlier builds, found nothing, it succeeds in every  *)
(* mode.                                                                    *)
QuietBuildSucceeds ==
  (/\ build.pc = "done" /\ build.quiet
   /\ \A s \in Slugs : build.seen[s] # Bad
   /\ \A p \in TopLevel : static[p] # Absent => build.seen[p[1]] # Absent /\ p = OutputPath(p[1])
   /\ ~\E f \in build.findings : f.phase \in {"loom_sync", "substrate_purity"})
  => build.exit = "ok"

(* What substrate_purity.rs says of its allowlist: whatever is not in it    *)
(* was not emitted by Forge but written by hand.  Nothing here is.          *)
FlaggedIsHandAuthored == ~\E f \in build.findings : f.phase = "substrate_purity"

(* What render.rs says of the marker it writes: loom_sync takes the freshly *)
(* written skin for a synced one.                                           *)
FreshSkinIsInSync == build.exit = "ok" => SyncFinding = {}

-----------------------------------------------------------------------------
(* What comments and docs of the code say and TLC refutes (the README lists *)
(* each with its runs or its settings).                                     *)

(* What strict_exempts.rs says of [strict]: the findings of a promoted      *)
(* phase are promoted to strict, except those that match an exempt pattern. *)
PromotedOrphanBlocks ==
  (/\ build.exit = "ok" /\ ~build.pipeline
   /\ "render" \in toml.policy.promote
   /\ <<"render", "orphan">> \notin toml.policy.exempt)
  => Orphans = {}
=============================================================================
