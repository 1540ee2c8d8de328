----------------------------- MODULE InboundPolicy -----------------------------
(***************************************************************************)
(* Which agent a message goes to and whether it may wake that agent        *)
(* (src/config/routing.rs, src/channels/policy.rs, src/gateway/policy.rs,  *)
(* router.rs, and what src/channels/discord.rs makes of a message).        *)
(*                                                                         *)
(* A setting that may be left out is a set of at most one value.  A        *)
(* message comes from a direct conversation, from a workspace without      *)
(* settings, from a channel without settings of a configured workspace, or *)
(* from a configured channel.                                              *)
(***************************************************************************)
EXTENDS Integers, Sequences, FiniteSets, Questions

Unset == [agent |-> {}, allow |-> {}, mentions |-> {}]
OneOf(option, default) == IF option = {} THEN default ELSE CHOOSE v \in option : TRUE

-----------------------------------------------------------------------------
(* The policy of a place                                                    *)

ApplyOverride(policy, lower) ==
    [field \in DOMAIN policy |->
        IF lower[field] = {} THEN policy[field] ELSE lower[field]]

\* A direct message never needs a mention.
FinalizePolicy(policy, isDm) ==
    [agent |-> OneOf(policy.agent, "default"),
     allow |-> policy.allow,
     requireMentions |-> ~isDm /\ OneOf(policy.mentions, FALSE)]

Resolve(routing, place) ==
    LET forChannelKind == ApplyOverride(routing.defaults, routing.channelDefaults)
        forWorkspace == ApplyOverride(forChannelKind, routing.workspace)
        effective ==
            IF ~routing.configured THEN routing.defaults
            ELSE IF place = "dm" THEN ApplyOverride(forChannelKind, routing.dm)
            ELSE IF place = "other workspace" THEN forChannelKind
            ELSE IF place = "other channel" THEN forWorkspace
            ELSE ApplyOverride(forWorkspace, routing.channel)
    IN FinalizePolicy(effective, place = "dm")

AllowsUser(policy, user) == policy.allow = {} \/ user \in OneOf(policy.allow, {})

-----------------------------------------------------------------------------
(* The decision                                                             *)

ClassifyInbound(routing, inbound) ==
    LET policy == Resolve(routing, inbound.place)
        mayInvoke == /\ AllowsUser(policy, inbound.user)
                     /\ policy.requireMentions => inbound.mentioned
    IN [agent |-> policy.agent,
        verdict |-> IF mayInvoke THEN "invoke"
                    ELSE IF inbound.place = "dm" THEN "drop" ELSE "context"]

\* All direct conversations of an agent share a scope; a channel has its own.
BuildSessionScopeKey(agent, place) ==
    <<agent, IF place = "dm" THEN "main" ELSE place>>

NoRoute == [scope |-> <<>>, invoke |-> FALSE]
ResolveRoute(routing, inbound) ==
    LET decision == ClassifyInbound(routing, inbound)
    IN IF decision.verdict = "drop" THEN NoRoute
       ELSE [scope |-> BuildSessionScopeKey(decision.agent, inbound.place),
             invoke |-> decision.verdict = "invoke"]

\* A command counts as a mention, and its sender only matters where a message
\* of theirs would be dropped.
ResolveCommandTarget(routing, command) ==
    ResolveRoute(routing, [place |-> command.place, user |-> command.user,
                           mentioned |-> TRUE]).scope

\* The mention is found once Discord has told the bot its own id, by the list
\* of mentions or by the text; bots and blank messages are passed over.
DiscordMessage(message, botKnown) ==
    IF message.bot \/ message.blank THEN {}
    ELSE {[place |-> message.place, user |-> message.user,
           mentioned |-> botKnown /\ (message.listed \/ message.inText)]}

-----------------------------------------------------------------------------
(* Questions                                                                *)

Places == {"dm", "other workspace", "other channel", "channel"}
Users == {"ann", "bob"}
Settings == {[Unset EXCEPT !.agent = {"a"}], [Unset EXCEPT !.agent = {"b"}],
             [Unset EXCEPT !.allow = {{}}], [Unset EXCEPT !.allow = {{"ann"}}],
             [Unset EXCEPT !.mentions = {TRUE}], [Unset EXCEPT !.mentions = {FALSE}]}
LevelNames == <<"defaults", "channelDefaults", "dm", "workspace", "channel">>
EmptyRouting == [configured |-> TRUE, defaults |-> Unset, channelDefaults |-> Unset,
                 dm |-> Unset, workspace |-> Unset, channel |-> Unset]

AskRoute ==
    \E i, k \in 1..5, one, two \in Settings, configured \in BOOLEAN,
       place \in Places, user \in Users, mentioned \in BOOLEAN :
        /\ i < k /\ (k > 2 => configured)
        /\ Put("route",
               [routing |-> [EmptyRouting EXCEPT ![LevelNames[i]] = one,
                                                 ![LevelNames[k]] = two,
                                                 !.configured = configured],
                inbound |-> [place |-> place, user |-> user, mentioned |-> mentioned]])

AskDiscord ==
    \E bot, blank, listed, inText, botKnown \in BOOLEAN, place \in {"dm", "channel"},
       user \in Users, i \in 1..5,
       level \in {[Unset EXCEPT !.allow = {{"ann"}}], [Unset EXCEPT !.mentions = {TRUE}]} :
        Put("discord", [message |-> [bot |-> bot, blank |-> blank, listed |-> listed,
                                     inText |-> inText, place |-> place, user |-> user],
                        botKnown |-> botKnown,
                        routing |-> [EmptyRouting EXCEPT ![LevelNames[i]] = level]])

\* The levels that count for a place, the most general first, and what the most
\* specific of them that says anything about it says.
LevelsOf(routing, place) ==
    <<routing.defaults>> \o
    (IF ~routing.configured THEN <<>>
     ELSE <<routing.channelDefaults>> \o
          (CASE place = "dm" -> <<routing.dm>>
             [] place = "other workspace" -> <<>>
             [] place = "other channel" -> <<routing.workspace>>
             [] place = "channel" -> <<routing.workspace, routing.channel>>))

Decisive(routing, place, field) ==
    LET levels == LevelsOf(routing, place)
        said == {i \in DOMAIN levels : levels[i][field] # {}}
    IN IF said = {} THEN {}
       ELSE levels[CHOOSE i \in said : \A k \in said : k <= i][field]

\* What becomes of message m under the settings r, and of the commands that
\* people give in its place.
RouteIsRight(r, m, people) ==
    LET route == ResolveRoute(r, m)
        allowed == \A list \in Decisive(r, m.place, "allow") : m.user \in list
        needsMention == m.place # "dm" /\ Decisive(r, m.place, "mentions") = {TRUE}
    IN /\ route.invoke <=> allowed /\ (needsMention => m.mentioned)
       /\ route = NoRoute <=> m.place = "dm" /\ ~allowed
       /\ route # NoRoute =>
              \A agent \in Decisive(r, m.place, "agent") : route.scope[1] = agent
       \* a command acts on the conversation that the place's messages join
       /\ \A user \in people :
              ResolveCommandTarget(r, [place |-> m.place, user |-> user])
                  \in {route.scope, <<>>} \/ route = NoRoute

RouteFollowsPolicy ==
    Asked("route") =>
        RouteIsRight(question.input.routing, question.input.inbound, Users)

\* A Discord message wakes the agent exactly when a person wrote something, may
\* do so, and mentions the bot where that is asked for: not before the bot knows
\* who it is.
WakesRightly(r, message, botKnown) ==
    LET needsMention == /\ message.place # "dm"
                        /\ Decisive(r, message.place, "mentions") = {TRUE}
    IN (\E m \in DiscordMessage(message, botKnown) : ResolveRoute(r, m).invoke)
       <=> /\ ~message.bot /\ ~message.blank
           /\ \A list \in Decisive(r, message.place, "allow") : message.user \in list
           /\ needsMention => botKnown /\ (message.listed \/ message.inText)

DiscordWakesRightly ==
    Asked("discord") =>
        WakesRightly(question.input.routing, question.input.message,
                     question.input.botKnown)

=============================================================================
