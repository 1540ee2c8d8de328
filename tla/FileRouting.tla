------------------------------ MODULE FileRouting ------------------------------
(***************************************************************************)
(* Where a file tool may go (src/tools/builtin/file_access.rs, the plans   *)
(* of read, edit, glob, grep and list, their guests under sandbox/, and    *)
(* the mounts of src/sandbox/wasm.rs).  The host resolves and classifies a *)
(* path and, when it lies in a sandbox root, hands the guest a path below  *)
(* the root's mount; the guest resolves and judges that path again.        *)
(*                                                                         *)
(* A path is its sequence of components; "~" and "$V" stand for a leading  *)
(* home directory and for an environment variable (unset ones vanish).     *)
(***************************************************************************)
EXTENDS Naturals, Sequences, SequencesExt, Questions

Home == <<"h">>
EnvValue == <<"h", "w">>
Workspace == <<"h", "w">>
Persona == <<"h", "p">>
ExtraReadable == << <<"h", "e">>, <<"h", "e", "x">> >>
ExtraWritable == << <<"h", "o">> >>
ExtraNames == <<"0", "1", "2">>

RawPaths ==
    LET parts == {"h", "w", "p", "e", "x", "..", "skills", "SOUL.md"}
        tails == UNION {[1..n -> parts] : n \in 0..3}
    IN [anchor : {"relative", "root", "~", "$V", "$unset"}, parts : tails]

NoPath == [anchor |-> "missing", parts |-> <<>>]

Denied == [route |-> "denied"]
Rejected == [route |-> "rejected"]

-----------------------------------------------------------------------------
(* Resolving                                                                *)

PushComponent(done, part) ==
    CASE part = "." -> done
      [] part = ".." -> IF done = <<>> THEN done ELSE Front(done)
      [] OTHER -> Append(done, part)
NormalizeAbsolutePath(path) == FoldLeft(PushComponent, <<>>, path)

\* A variable's value is put in its place; an unset one leaves nothing, so what
\* follows it starts at the root.
ExpandEnvVars(raw) ==
    CASE raw.anchor = "$V" -> [anchor |-> "root", parts |-> EnvValue \o raw.parts]
      [] raw.anchor = "$unset" ->
           [anchor |-> IF raw.parts = <<>> THEN "empty" ELSE "root",
            parts |-> raw.parts]
      [] OTHER -> raw

ExpandHomeDir(raw) ==
    IF raw.anchor = "~" THEN [anchor |-> "root", parts |-> Home \o raw.parts]
    ELSE raw

\* An empty path is refused before the expansion, not after it.
ResolvePathForRead(raw) ==
    LET expanded == ExpandHomeDir(ExpandEnvVars(raw))
    IN NormalizeAbsolutePath(IF expanded.anchor = "root" THEN expanded.parts
                             ELSE Workspace \o expanded.parts)

\* The rest of a path below a root, which may be the root itself.
Below(path, root) == IsPrefix(root, path)
Relative(path, root) == SubSeq(path, Len(root) + 1, Len(path))

-----------------------------------------------------------------------------
(* The host's classification                                                *)

PersonaRelativePathAllowed(relative) ==
    /\ relative # <<>>
    /\ \/ relative[1] = "skills"
       \/ relative[1] = "SOUL.md" /\ Len(relative) = 1

SandboxPathsForCapability(capability) ==
    IF capability = "write" THEN ExtraReadable \o ExtraWritable
    ELSE ExtraReadable

\* The deepest root that holds the path, the last of equally deep ones.
FindMatchingExtraRoot(path, roots) ==
    LET holding == {i \in DOMAIN roots : Below(path, roots[i])}
    IN IF holding = {} THEN 0
       ELSE CHOOSE i \in holding : \A k \in holding :
                \/ Len(roots[k]) < Len(roots[i])
                \/ Len(roots[k]) = Len(roots[i]) /\ k <= i

Sandboxed(root, mount, path) ==
    [route |-> "sandboxed", root |-> root, mount |-> mount,
     guest |-> mount \o Relative(path, root)]

\* Slip: anything below the persona is in the sandbox.
ClassifyWholePersona(path, capability) ==
    LET extra == SandboxPathsForCapability(capability)
        i == FindMatchingExtraRoot(path, extra)
    IN IF Below(path, Workspace)
       THEN Sandboxed(Workspace, <<"workspace">>, path)
       ELSE IF Below(path, Persona)
       THEN Sandboxed(Persona, <<"persona">>, path)
       ELSE IF i # 0 THEN Sandboxed(extra[i], <<"__extra", ExtraNames[i]>>, path)
       ELSE [route |-> "ask", target |-> path]

ClassifyFileToolAccess(path, capability) ==
    LET extra == SandboxPathsForCapability(capability)
        i == FindMatchingExtraRoot(path, extra)
    IN IF Below(path, Workspace)
       THEN Sandboxed(Workspace, <<"workspace">>, path)
       ELSE IF Below(path, Persona)
               /\ PersonaRelativePathAllowed(Relative(path, Persona))
       THEN Sandboxed(Persona, <<"persona">>, path)
       ELSE IF i # 0 THEN Sandboxed(extra[i], <<"__extra", ExtraNames[i]>>, path)
       ELSE [route |-> "ask", target |-> path]

-----------------------------------------------------------------------------
(* The five plans                                                           *)

PlanAt(raw, capability, window) ==
    LET host == ResolvePathForRead(raw)
    IN [route |-> "planned", host |-> host, window |-> window,
        access |-> ClassifyFileToolAccess(host, capability)]

ReadPlan(args) ==
    IF args.path = NoPath \/ args.offset = 0 \/ args.limit = 0 THEN Rejected
    ELSE PlanAt(args.path, "read", <<args.offset, args.limit>>)

EditPlan(args) ==
    IF args.path = NoPath \/ args.same THEN Rejected
    ELSE PlanAt(args.path, "write", <<>>)

OrHere(raw) ==
    IF raw = NoPath THEN [anchor |-> "relative", parts |-> <<".">>] ELSE raw

GlobPlan(args) ==
    IF args.blank \/ ~args.dir THEN Rejected
    ELSE PlanAt(OrHere(args.path), "read", <<>>)

GrepPlan(args) ==
    IF args.blank \/ ~args.dir THEN Rejected
    ELSE PlanAt(OrHere(args.path), "read", <<>>)

ListPlan(args) ==
    IF ~args.dir THEN Rejected
    ELSE PlanAt(OrHere(args.path), "read", <<>>)

ToolPlan(args) ==
    CASE args.tool = "read" -> ReadPlan(args)
      [] args.tool = "edit" -> EditPlan(args)
      [] args.tool = "glob" -> GlobPlan(args)
      [] args.tool = "grep" -> GrepPlan(args)
      [] args.tool = "list" -> ListPlan(args)

-----------------------------------------------------------------------------
(* The guests                                                               *)

\* Every mount the guest is given, with the host directory behind it.
Mounts(access) ==
    {[mount |-> <<"workspace">>, host |-> Workspace],
     [mount |-> <<"persona">>, host |-> Persona],
     [mount |-> access.mount, host |-> access.root]}

GuestPersonaPathAllowed(guest) ==
    LET path == NormalizeAbsolutePath(guest)
    IN /\ Below(path, <<"persona">>)
       /\ PersonaRelativePathAllowed(Relative(path, <<"persona">>))

ResolveGuestPath(guest) ==
    LET path == NormalizeAbsolutePath(guest)
    IN \/ Below(path, <<"workspace">>)
       \/ GuestPersonaPathAllowed(path)

ReadGuest(args, guest) ==
    ResolveGuestPath(guest) /\ args.offset # 0 /\ args.limit # 0
EditGuest(args, guest) ==
    ResolveGuestPath(guest) /\ ~args.same
GlobGuest(args, guest) ==
    ResolveGuestPath(guest) /\ ~args.blank /\ args.dir
GrepGuest(args, guest) ==
    ResolveGuestPath(guest) /\ ~args.blank /\ args.dir

\* The root is shown relative to the workspace mount, which is an error for
\* any other root.
DisplayRoot(guest) == Below(NormalizeAbsolutePath(guest), <<"workspace">>)
ListGuest(args, guest) ==
    ResolveGuestPath(guest) /\ args.dir /\ DisplayRoot(guest)

\* execute_wasm: the plan's guest path and arguments reach the guest, which
\* opens the path below one of its mounts.
GuestAccepts(args, guest) ==
    CASE args.tool = "read" -> ReadGuest(args, guest)
      [] args.tool = "edit" -> EditGuest(args, guest)
      [] args.tool = "glob" -> GlobGuest(args, guest)
      [] args.tool = "grep" -> GrepGuest(args, guest)
      [] args.tool = "list" -> ListGuest(args, guest)

GuestOpens(access) ==
    {m.host \o Relative(access.guest, m.mount) :
        m \in {n \in Mounts(access) : Below(access.guest, n.mount)}}

-----------------------------------------------------------------------------
(* Questions                                                                *)

FileArgs ==
    UNION {
        [tool : {"read"}, path : RawPaths \cup {NoPath}, offset : {1},
         limit : {1}, dir : {TRUE}],
        [tool : {"read"}, path : {NoPath}, offset : 0..2, limit : 0..2,
         dir : BOOLEAN],
        [tool : {"edit"}, path : RawPaths \cup {NoPath}, same : {FALSE}],
        [tool : {"edit"}, path : {NoPath}, same : BOOLEAN],
        [tool : {"glob", "grep", "list"}, path : {NoPath} \cup
             {r \in RawPaths : Len(r.parts) <= 2}, blank : BOOLEAN,
         dir : BOOLEAN]}

AskFileTool == \E args \in FileArgs : Put("file", args)

\* The guest takes paths below the workspace, and all but list those below the
\* persona.
GuestHasMount(args, mount) ==
    \/ mount = <<"workspace">>
    \/ mount = <<"persona">> /\ args.tool # "list"

\* Where the plan of a call asks, no root that the tool may use holds the path.
\* Where it goes to the guest, that opens the same file or refuses, and it
\* refuses exactly what it has no mount for.
RunsAlike(args) ==
    LET plan == ToolPlan(args)
        access == plan.access
        extra == SandboxPathsForCapability(IF args.tool = "edit" THEN "write" ELSE "read")
    IN IF access.route = "ask"
       THEN /\ ~Below(plan.host, Workspace)
            /\ ~(/\ Below(plan.host, Persona)
                 /\ PersonaRelativePathAllowed(Relative(plan.host, Persona)))
            /\ \A i \in DOMAIN extra : ~Below(plan.host, extra[i])
       ELSE /\ GuestOpens(access) = {plan.host}
            /\ GuestAccepts(args, access.guest) <=> GuestHasMount(args, access.mount)

\* No file tool reaches another file by way of the sandbox than it would by
\* itself (classify_file_tool_access, resolve_guest_path): the guest's path
\* names the host's file and no other, the user is asked about every path that
\* lies in no root, and about no other; and the guest takes a path of the
\* workspace or of the persona, and refuses, list below the persona and every
\* tool below an extra root.  (That it refuses those is against the host's
\* classification: SandboxedIsTaken.)
SameFileEitherWay ==
    Asked("file") /\ ToolPlan(question.input).route = "planned" =>
        RunsAlike(question.input)

\* "preflight classified target as in-sandbox but wasm denied" is a violated
\* invariant (invariant_sandbox_denial, src/tools/mod.rs:1073-1083): the guest
\* denies no path that the host's classification hands it.
SandboxedIsTaken ==
    Asked("file") /\ ToolPlan(question.input).route = "planned" =>
        LET access == ToolPlan(question.input).access
        IN access.route = "sandboxed" => ResolveGuestPath(access.guest)

FilesSpec == QuestionInit /\ [][AskFileTool]_question

=============================================================================
