------------------------------ MODULE ConfigLoad ------------------------------
(***************************************************************************)
(* From config.yaml to the assembled service (src/config, src/secrets.rs,  *)
(* src/run/composition.rs, src/prompt.rs, src/tools/skill.rs): the file is *)
(* read, its secrets are resolved, its paths expanded, its parts validated *)
(* in a fixed order, and providers, skills, prompts and channels are made  *)
(* from it.                                                                *)
(*                                                                         *)
(* The environment and the secrets file map names of secrets to "text" or  *)
(* "blank"; the value of a secret is where it was found.  A path is a      *)
(* sequence of tokens, where "SET" and "UNSET" are the names of variables; *)
(* the value of the first begins with the home directory and ends in its   *)
(* own name.  An optional value is a set with at most one element.         *)
(***************************************************************************)
EXTENDS Integers, Sequences, FiniteSets, SequencesExt, Questions

-----------------------------------------------------------------------------
(* Secrets                                                                  *)

\* The environment comes first, and its blank value is an error even when
\* the file has a better one.
ResolveSecret(c, name) ==
    LET place == IF name \in DOMAIN c.environment THEN "environment" ELSE "secrets"
    IN [ok |-> name \in DOMAIN c[place] /\ c[place][name] # "blank",
        value |-> {<<place, name>>}]

\* parse_secret_reference: "" is a text that names no secret.
IsReference(secret) == secret.name # ""

\* A secret as it is read (unresolved), and after resolve.
Unresolved(name) == [name |-> name, value |-> {}]
Resolved(c, secret) == [secret EXCEPT !.value = ResolveSecret(c, secret.name).value]

ResolveSecrets(c) ==
    [c EXCEPT !.env = [n \in DOMAIN @ |-> Resolved(c, @[n])],
              !.agentEnv = [n \in DOMAIN @ |-> Resolved(c, @[n])],
              !.token = {Resolved(c, s) : s \in @},
              !.apiKey = {Resolved(c, s) : s \in @},
              !.searchKey = {Resolved(c, s) : s \in @}]

SecretsOf(c) ==
    {c.env[n] : n \in DOMAIN c.env} \cup {c.agentEnv[n] : n \in DOMAIN c.agentEnv}
        \cup c.token \cup c.apiKey \cup c.searchKey

-----------------------------------------------------------------------------
(* Paths                                                                    *)

IsName(token) == token \in {"SET", "UNSET"}
ValueOf(name) == IF name = "SET" THEN <<"~", "/", "v", "$", "SET">> ELSE <<>>

ExpandName(name, spelled) == IF name = "SET" THEN ValueOf(name) ELSE spelled

\* A variable that is not set stays as it is spelled, and so does a "$" that
\* begins none.
RECURSIVE ExpandConfigVars(_)
ExpandConfigVars(path) ==
    LET Rest(n) == ExpandConfigVars(SubSeq(path, n + 1, Len(path)))
    IN CASE path = <<>> -> <<>>
         [] path # <<>> /\ path[1] # "$" -> <<path[1]>> \o Rest(1)
         [] Len(path) >= 4 /\ path[1] = "$" /\ path[2] = "{" /\ IsName(path[3])
                /\ path[4] = "}" ->
                ExpandName(path[3], SubSeq(path, 1, 4)) \o Rest(4)
         [] Len(path) >= 2 /\ path[1] = "$" /\ IsName(path[2]) ->
                ExpandName(path[2], SubSeq(path, 1, 2)) \o Rest(2)
         [] OTHER -> <<"$">> \o Rest(1)

ExpandConfigHome(path) ==
    CASE path = <<"~">> -> <<"home">>
      [] Len(path) > 1 /\ path[1] = "~" /\ path[2] = "/" -> <<"home">> \o Tail(path)
      [] OTHER -> path

NormalizeWorkspacePath(path) == ExpandConfigHome(ExpandConfigVars(path))

-----------------------------------------------------------------------------
(* Validation                                                               *)

ValidateExecutionEnv(env) == \A n \in DOMAIN env : n # "1BAD"

ValidateTools(c) ==
    /\ c.timeout # {0}
    /\ c.search = "brave" /\ c.searchEnabled => c.searchKey # {}
    /\ c.search = "duckduckgo" => c.searchKey = {}

ValidateProvider(c) ==
    /\ c.model # "blank"
    /\ c.kind = "moonshot" => c.mode = "api_key" /\ c.apiKey # {}

ValidateProviders(c) == c.entries # {} /\ c.defaultProvider \in c.entries /\ ValidateProvider(c)

ValidateAgents(c) ==
    /\ c.agents # <<>> /\ "blank" \notin Range(c.agents)
    /\ \A i, k \in DOMAIN c.agents : i # k => c.agents[i] # c.agents[k]
    /\ c.workspace # <<>>
    /\ ValidateExecutionEnv(c.agentEnv) /\ ValidateTools(c)
    /\ c.defaultAgent \in Range(c.agents)

\* Slip: a route to the old default agent is left alone.
ReconcileUnsetRoute(c) ==
    IF c.route \in {{}, {"blank"}} THEN [c EXCEPT !.route = {c.defaultAgent}] ELSE c

\* A default route that is unset, or that names the built-in agent where
\* there is none, goes to the default agent.
ReconcileRoutingDefaultAgent(c) ==
    IF \/ c.route \in {{}, {"blank"}}
       \/ c.route = {"default"} /\ "default" \notin Range(c.agents)
    THEN [c EXCEPT !.route = {c.defaultAgent}] ELSE c

ValidateGateway(c) == c.channel = {"enabled"}

\* Agents of routes must have a name, not exist.
ValidateRouting(c) == c.route \notin {{}, {"blank"}} /\ c.override # {"blank"}

\* GlobalConfig::default
DefaultConfig(c) ==
    [c EXCEPT !.env = <<>>, !.agentEnv = <<>>, !.token = {}, !.apiKey = {}, !.searchKey = {},
              !.kind = "gemini", !.mode = "api_key", !.model = "m", !.entries = {"default"},
              !.defaultProvider = "default", !.agentProvider = {}, !.agents = <<"default">>,
              !.defaultAgent = "default", !.workspace = <<"~", "/", "w">>, !.timeout = {},
              !.search = "duckduckgo", !.searchEnabled = TRUE, !.route = {"default"},
              !.override = {}, !.channel = {"enabled"}]

\* LoadedConfig::load: the first stage that fails is the answer.
LoadConfig(c0) ==
    LET c == IF c0.file = "absent" THEN DefaultConfig(c0) ELSE c0
        secrets == SecretsOf(c)
        resolved == ResolveSecrets(c)
        normal == [resolved EXCEPT !.workspace = NormalizeWorkspacePath(@)]
        placed == IF c.workspaceFlag = <<>> THEN normal
                  ELSE [normal EXCEPT !.workspace = NormalizeWorkspacePath(c.workspaceFlag)]
        routed == ReconcileRoutingDefaultAgent(placed)
        Fail(why) == [why |-> why, config |-> c]
    IN CASE c.file = "garbled" \/ \E s \in secrets : ~IsReference(s) -> Fail("parse")
         [] c.secretsFile = "garbled" -> Fail("secrets file")
         [] \E s \in secrets : ~ResolveSecret(c, s.name).ok -> Fail("secret")
         [] c.workspaceFlag # <<>> /\ c.defaultAgent \notin Range(c.agents) -> Fail("default agent")
         [] ~ValidateExecutionEnv(placed.env) -> Fail("env")
         [] ~ValidateProviders(placed) -> Fail("providers")
         [] ~ValidateAgents(placed) -> Fail("agents")
         [] ~ValidateGateway(routed) -> Fail("gateway")
         [] ~ValidateRouting(routed) -> Fail("routing")
         [] OTHER -> [why |-> "", config |-> routed]

-----------------------------------------------------------------------------
(* Skills and prompts                                                       *)

\* A skills directory maps the ids that have a SKILL.md to "text" or "blank".
DiscoverSkillIds(persona, global) == DOMAIN persona \cup DOMAIN global

ResolveSkillPath(persona, global, id) ==
    IF id \in DOMAIN persona THEN persona[id] ELSE global[id]

LoadSkillCatalog(enabled, disabled, persona, global) ==
    LET ids == IF enabled THEN DiscoverSkillIds(persona, global) \ disabled ELSE {}
        Content(id) == ResolveSkillPath(persona, global, id)
    IN [ok |-> enabled => \A id \in disabled \cup DiscoverSkillIds(persona, global) : id # "bad id",
        requested |-> Cardinality(ids),
        empty |-> Cardinality({id \in ids : Content(id) = "blank"}),
        skills |-> [id \in {id \in ids : Content(id) # "blank"} |-> Content(id)]]

\* The skill tool is there when there is a skill, and knows those by name.
SkillToolExecute(catalog, name) ==
    IF name \in DOMAIN catalog.skills THEN {catalog.skills[name]} ELSE {}

PromptLayers == <<"IDENTITY", "AGENT", "USER", "MEMORY", "SOUL">>

\* PromptAssembler::from_persona, with the list of skills after the layers.
SystemPrompt(layers, catalog) ==
    SelectSeq(PromptLayers, LAMBDA l : l \in DOMAIN layers /\ layers[l] # "blank")
        \o IF DOMAIN catalog.skills = {} THEN <<>> ELSE <<"SKILLS">>

-----------------------------------------------------------------------------
(* Assembly                                                                 *)

\* merge_with_overrides: the agent's setting where it has one.
MergeWithOverrides(defaults, overrides) ==
    [n \in DOMAIN defaults \cup DOMAIN overrides |->
        IF n \in DOMAIN overrides THEN overrides[n] ELSE defaults[n]]

\* ProviderFactory::from_config makes every entry; Gemini looks at its key
\* only when it is asked.
CreateProviders(c) == c.kind = "moonshot" => c.mode = "api_key" /\ c.apiKey # {}
ProviderKey(c) == IF c.agentProvider = {} THEN {c.defaultProvider} ELSE c.agentProvider

\* DiscordChannel::from_config
CreateChannels(c) == \E s \in c.token : s.value # {}

AssembleRuntimeState(c, catalog) ==
    CASE ~CreateProviders(c) -> "provider factory"
      [] ~(ProviderKey(c) \subseteq c.entries) -> "provider key"
      [] ~catalog.ok -> "skills"
      [] ~CreateChannels(c) -> "channel"
      [] OTHER -> ""

\* start_runtime_services: expect()s every variable to have a value.
ResolvedEnv(c) ==
    LET env == MergeWithOverrides(c.env, c.agentEnv)
    IN [n \in DOMAIN env |-> env[n].value]

-----------------------------------------------------------------------------
(* Questions                                                                *)

Env(names, secret) == [n \in names |-> Unresolved(secret)]
Hold(names, text) == [n \in names |-> text]

Sound ==
    [file |-> "present", secretsFile |-> "fine", environment |-> <<>>,
     secrets |-> Hold({"one", "two"}, "text"), env |-> Env({"A"}, "one"),
     agentEnv |-> Env({"B"}, "two"), token |-> {Unresolved("one")},
     apiKey |-> {Unresolved("two")},
     kind |-> "gemini", mode |-> "api_key", model |-> "m", entries |-> {"p"},
     defaultProvider |-> "p", agentProvider |-> {}, search |-> "duckduckgo",
     searchEnabled |-> TRUE, searchKey |-> {}, timeout |-> {}, agents |-> <<"main">>,
     defaultAgent |-> "main", workspace |-> <<"~">>, workspaceFlag |-> <<>>,
     route |-> {}, override |-> {}, channel |-> {"enabled"}]

Variants ==
    [file |-> {"absent", "garbled"}, secretsFile |-> {"garbled"},
     environment |-> {Hold({"two"}, "text"), Hold({"one"}, "blank")},
     secrets |-> {<<>>, Hold({"one"}, "text"), Hold({"one", "two"}, "blank")},
     env |-> {<<>>, Env({"A", "1BAD"}, "one")},
     agentEnv |-> {<<>>, Env({"A"}, "two"), Env({"1BAD"}, "two")},
     token |-> {{}, {Unresolved("")}}, apiKey |-> {{}, {Unresolved("")}},
     kind |-> {"moonshot", "codex"}, mode |-> {"oauth"}, model |-> {"blank"},
     entries |-> {{}, {"p", "q"}}, defaultProvider |-> {"q"}, agentProvider |-> {{"q"}, {"blank"}},
     search |-> {"brave"}, searchEnabled |-> {FALSE}, searchKey |-> {{Unresolved("two")}},
     timeout |-> {{0}, {5}}, agents |-> {<<>>, <<"default", "main">>, <<"main", "main">>, <<"blank">>},
     defaultAgent |-> {"default", "gone"}, workspace |-> {<<>>, <<"$", "SET", "/", "w">>},
     workspaceFlag |-> {<<"$", "{", "SET", "}">>},
     route |-> {{"blank"}, {"default"}, {"main"}, {"gone"}},
     override |-> {{"blank"}, {"gone"}}, channel |-> {{}, {"disabled"}}]

\* A sound configuration with up to three of its fields changed.
AskConfig ==
    \E f, g, h \in DOMAIN Sound :
        \E x \in Variants[f], y \in Variants[g] \cup {Sound[g]}, z \in Variants[h] \cup {Sound[h]} :
            /\ h \in {"route", "agents", "environment"}
            /\ Put("config", [[[Sound EXCEPT ![h] = z] EXCEPT ![g] = y] EXCEPT ![f] = x])

PathTokens == {"$", "{", "}", "SET", "UNSET", "/", "~"}
AskPath ==
    \E n \in 0..4 : \E path \in [1..n -> PathTokens] :
        /\ \A i \in 1..(n - 1) : ~(IsName(path[i]) /\ IsName(path[i + 1]))
        /\ Put("path", path)

Skills(text) == UNION {[ids -> {text, "blank"}] : ids \in SUBSET {"a", "b"}}
AskSkills ==
    \E enabled \in BOOLEAN, disabled \in SUBSET {"a", "c", "bad id"}, persona \in Skills("own"),
       global \in Skills("shared") \cup {[id \in {"bad id"} |-> "shared"]},
       layers \in {<<>>, [l \in {"SOUL", "AGENT"} |-> "text"],
                   [l \in {"USER", "IDENTITY"} |-> IF l = "USER" THEN "blank" ELSE "text"]} :
        Put("skills", [enabled |-> enabled, disabled |-> disabled, layers |-> layers,
                       persona |-> persona, global |-> global])

-----------------------------------------------------------------------------
(* Properties                                                               *)

\* The names of variables that are set and the places where a path refers to
\* one of them.
Count(token, path) == Cardinality({i \in DOMAIN path : path[i] = token})
PlainReferences(path) ==
    {i \in 1..(Len(path) - 1) : SubSeq(path, i, i + 1) = <<"$", "SET">>}
BracedReferences(path) ==
    {i \in 1..(Len(path) - 3) : SubSeq(path, i, i + 3) = <<"$", "{", "SET", "}">>}
References(path) == PlainReferences(path) \cup BracedReferences(path)

\* A configuration that loads can be run on: every secret it refers to has the
\* value of the secret it names, the environment's before the file's, so that
\* no variable is missing when the services start; an agent's variable wins
\* over the shared one of its name; its workspace is the one that was written,
\* expanded once; and its default route, unless one was written down, leads to
\* an agent that exists.  If it can be assembled too, each agent has its
\* provider and the channel its token.
LoadedIsUsable ==
    Asked("config") /\ LoadConfig(question.input).why = "" =>
        LET before == question.input
            c == LoadConfig(before).config
            written == IF before.workspaceFlag # <<>> THEN before.workspaceFlag ELSE before.workspace
            Source(name) == {<<IF name \in DOMAIN c.environment THEN "environment"
                               ELSE "secrets", name>>}
        IN /\ \A s \in SecretsOf(c) : s.value = Source(s.name) /\ s.name # ""
           /\ \A s \in SecretsOf(c) :
                 \/ s.name \in DOMAIN c.environment /\ c.environment[s.name] = "text"
                 \/ s.name \in DOMAIN c.secrets /\ c.secrets[s.name] = "text"
           /\ DOMAIN ResolvedEnv(c) = DOMAIN c.env \cup DOMAIN c.agentEnv
           /\ \A n \in DOMAIN c.agentEnv : ResolvedEnv(c)[n] = Source(c.agentEnv[n].name)
           /\ \A n \in DOMAIN c.env \ DOMAIN c.agentEnv : ResolvedEnv(c)[n] = Source(c.env[n].name)
           /\ \/ c.route \subseteq Range(c.agents)
              \/ c.route = before.route /\ c.route \cap {"default", "blank"} = {}
           /\ c.workspace # <<>> /\ c.workspace[1] = "home"
           /\ before.file = "present" =>
                  Count("v", c.workspace) = Cardinality(References(written))
           /\ AssembleRuntimeState(c, [ok |-> TRUE]) = "" =>
                  /\ ProviderKey(c) \subseteq c.entries
                  /\ c.kind = "moonshot" => c.apiKey # {}
                  /\ c.token # {}

\* Every reference to a variable that is set is replaced by its value, what is
\* in that value is not looked at again, and everything else stays as it is
\* written; the home directory comes in at the beginning alone, also where a
\* value begins with "~".
PathsAreExpandedOnce ==
    Asked("path") =>
        LET path == question.input
            out == ExpandConfigVars(path)
            placed == NormalizeWorkspacePath(path)
        IN /\ References(path) = {} => out = path
           /\ Count("v", out) = Cardinality(References(path))
           /\ \A name \in {"SET", "UNSET"} : Count(name, out) = Count(name, path)
           /\ Len(out) = Len(path) + 3 * Cardinality(PlainReferences(path))
                                   + Cardinality(BracedReferences(path))
           /\ \A i \in DOMAIN placed : placed[i] = "home" => i = 1
           /\ 1 \in References(path) => placed[1] = "home"

\* The skills that are offered are those that were found, were not disabled and
\* say something; the rest are counted as empty.  An agent gets its own version
\* of a skill, and a blank version of its own hides the shared one.
SkillsAreAccountedFor ==
    Asked("skills") =>
        LET in == question.input
            catalog == LoadSkillCatalog(in.enabled, in.disabled, in.persona, in.global)
            prompt == SystemPrompt(in.layers, catalog)
            found == DOMAIN in.persona \cup DOMAIN in.global
            Offers(id, text) == SkillToolExecute(catalog, id) = {text}
        IN catalog.ok =>
           /\ \A id \in found \cup in.disabled :
                 \/ (~in.enabled \/ id \in in.disabled) /\ SkillToolExecute(catalog, id) = {}
                 \/ /\ in.enabled /\ id \in found \ in.disabled
                    /\ IF id \in DOMAIN in.persona
                       THEN Offers(id, "own") <=> in.persona[id] = "own"
                       ELSE Offers(id, "shared") <=> in.global[id] = "shared"
           /\ catalog.requested = IF in.enabled THEN Cardinality(found \ in.disabled) ELSE 0
           /\ catalog.requested = Cardinality(DOMAIN catalog.skills) + catalog.empty
           /\ \A i \in DOMAIN prompt : prompt[i] = "SKILLS" <=> i = Len(prompt)
                                          /\ DOMAIN catalog.skills # {}
           /\ IsPrefix(prompt, <<"AGENT", "SOUL", "SKILLS">>)
                 \/ IsPrefix(prompt, <<"IDENTITY", "SKILLS">>) \/ prompt = <<"SKILLS">>

\* A configuration that loads gives a service that runs as it says
\* (GlobalConfig::load, assemble_runtime_state): every provider, channel and
\* variable gets the secret it names (SecretResolver, merge_with_overrides), the
\* built-in default route leads to an agent that exists
\* (reconcile_routing_default_agent), paths are expanded exactly once
\* (expand_env_vars, expand_home_dir), and every skill that is found is offered
\* unless it is disabled or blank, the persona's own before the shared one
\* (load_skill_catalog).
ServiceIsConfigured == LoadedIsUsable /\ PathsAreExpandedOnce /\ SkillsAreAccountedFor

=============================================================================
