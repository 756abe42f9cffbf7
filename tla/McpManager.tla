----------------------------- MODULE McpManager -----------------------------
(***************************************************************************)
(* The manager of MCP connections (src/app/engine/mcp/manager.py): a       *)
(* reconcile loop for each configured server connects it, probes it and    *)
(* attaches its tools, under names that are unique over all servers, to    *)
(* the agents that may see the server. A tool list and what is attached    *)
(* change in one step of the event loop: only the connection, the probe    *)
(* and the close of a toolset are waited for.                              *)
(***************************************************************************)
EXTENDS Integers, SequencesExt, FiniteSetsExt

CONSTANTS Servers,     \* the configured servers, in order
          Tools,       \* [server -> the raw names it offers, in its order]
          Allow,       \* [server -> names]; the empty set allows every name
          Deny,        \* [server -> names]
          MaxTools,    \* [server -> how many of its tools are attached]
          Sees,        \* [agent -> the servers whose tools it may use]
          Listable,    \* the servers that answer list_resources, the call of the probe
          MaxDrops     \* bound of the model: sessions the servers lose

Names == ToSet(Servers)
Agents == DOMAIN Sees

ASSUME McpAssumption ==
  /\ Servers \in Seq(Names) /\ IsInjective(Servers) /\ MaxDrops \in Nat
  /\ \A s \in Names : /\ Tools[s] \in Seq(ToSet(Tools[s])) /\ IsInjective(Tools[s])
                      /\ MaxTools[s] \in Nat \ {0}

VARIABLES
  up,        \* [server -> can it be reached]
  session,   \* [server -> "none", "live" or "dead"]: of the toolset of its handle
  loop,      \* [server -> "connecting", "connected" or "stopped"]: its reconcile loop
  known,     \* the servers that were connected once: their raw and filtered names are kept
  final,     \* [server -> its final names]
  tools,     \* [server -> its tools: objects with a name, which is renamed in place]
  surface,   \* [agent -> its tools, no two of which are the same]
  closing,   \* "no", "closing" or "done"
  drops

envVars == <<up, drops>>
toolVars == <<known, final, tools, surface>>
mcpVars == <<envVars, toolVars, session, loop, closing>>

-----------------------------------------------------------------------------
(* Filtering and naming *)

\* The positions of the tools that pass the filters of the server.
Kept(s) == {i \in DOMAIN Tools[s] : /\ Tools[s][i] \notin Deny[s]
                                    /\ Allow[s] # {} => Tools[s][i] \in Allow[s]}

\* The n-th position of a set of positions.
Nth(S, n) == CHOOSE i \in S : Cardinality({j \in S : j <= i}) = n

\* What a connection admits, in order: the first of those, as many as it may have.
Admitted(s) ==
  [n \in 1 .. Min({Cardinality(Kept(s)), MaxTools[s]}) |-> Tools[s][Nth(Kept(s), n)]]

\* Mutant: names are told apart within a server only.
TakenLocally(S, s, raw) == FALSE

\* The raw name was claimed by a server of S that comes before s.
Taken(S, s, raw) ==
  \E i, j \in DOMAIN Servers :
    i < j /\ Servers[j] = s /\ Servers[i] \in S /\ raw \in ToSet(Admitted(Servers[i]))

\* The final names of every server when those of S take part: the raw name <<raw>> for the
\* first in configured order, <<server, raw>> for the others. A counter follows only when a
\* server offers a name twice, or a raw name is spelt like a final one: left out.
Finals(S) ==
  [s \in Names |->
     IF s \notin S THEN <<>>
     ELSE [i \in DOMAIN Admitted(s) |->
             LET raw == Admitted(s)[i] IN IF Taken(S, s, raw) THEN <<s, raw>> ELSE <<raw>>]]

-----------------------------------------------------------------------------
(* Attaching *)

Objects(s) ==
  [i \in DOMAIN Tools[s] |-> [server |-> s, raw |-> Tools[s][i], name |-> <<Tools[s][i]>>]]

\* The raw and the final names of a server are paired by their positions, and a tool that
\* still has a raw name with a partner gets it.
Rename(names, object) ==
  LET partner == {i \in DOMAIN Tools[object.server] \cap DOMAIN names[object.server] :
                    <<Tools[object.server][i]>> = object.name}
  IN IF partner = {} THEN object
     ELSE [object EXCEPT !.name = names[object.server][CHOOSE i \in partner : TRUE]]

\* The tools of every agent: those with a name now, of the servers it may see.
Surfaces(names, objects) ==
  [a \in Agents |-> {t \in UNION {ToSet(objects[s]) : s \in Names} :
                       t.server \in Sees[a] /\ t.name \in ToSet(names[t.server])}]

\* Mutant: only the servers that have tools now take part in the names.
AttachConnected(s) ==
  LET objects == [tools EXCEPT ![s] = Objects(s)] IN
  /\ known' = known \cup {s}
  /\ final' = Finals({t \in Names : objects[t] # <<>>})
  /\ tools' = [t \in Names |->
                 [i \in DOMAIN objects[t] |-> Rename(final', Objects(t)[i])]]
  /\ surface' = Surfaces(final', tools')

\* A server that was connected once takes part for ever; every attach renames the tools of all
\* servers to the names they have now.
Attach(s) ==
  LET objects == [tools EXCEPT ![s] = Objects(s)] IN
  /\ known' = known \cup {s}
  /\ final' = Finals(known')
  /\ tools' = [t \in Names |->
                 [i \in DOMAIN objects[t] |-> Rename(final', objects[t][i])]]
  /\ surface' = Surfaces(final', tools')

\* The tools go, the names stay.
Detach(s) ==
  /\ tools' = [tools EXCEPT ![s] = <<>>]
  /\ surface' = Surfaces(final, tools')
  /\ UNCHANGED <<known, final>>

\* HITL-02: the server and the raw tool that a final name stands for; the first one found.
LookupTool(name) ==
  LET Pairs(s) == {i \in DOMAIN Tools[s] \cap DOMAIN final[s] : final[s][i] = name}
      first == Min({i \in DOMAIN Servers : Servers[i] \in known /\ Pairs(Servers[i]) # {}})
  IN <<Servers[first], Tools[Servers[first]][Min(Pairs(Servers[first]))]>>

-----------------------------------------------------------------------------
(* The reconcile loops. A connection that fails is tried again after a backoff. *)

Connect(s) ==
  /\ loop[s] = "connecting" /\ up[s]
  /\ loop' = [loop EXCEPT ![s] = "connected"]
  /\ session' = [session EXCEPT ![s] = "live"]
  /\ Attach(s)
  /\ UNCHANGED <<envVars, closing>>

\* A probe fails: the session is dead, or the server offers no resources to list and answers
\* with an error. The tools leave, the loop connects again. (An error of a call that may pass
\* the next time is a session lost by a server that can be reached.)
Probe(s) ==
  /\ loop[s] = "connected"
  /\ session[s] = "dead" \/ s \notin Listable
  /\ loop' = [loop EXCEPT ![s] = "connecting"]
  /\ Detach(s)
  /\ UNCHANGED <<envVars, session, closing>>

\* Mutant: a loop that is connecting is not cancelled.
CloseUncancelled ==
  /\ closing = "no"
  /\ closing' = "closing"
  /\ loop' = [s \in Names |-> IF loop[s] = "connecting" THEN loop[s] ELSE "stopped"]
  /\ UNCHANGED <<envVars, toolVars, session>>

\* close: the loops are cancelled and have ended before a toolset is closed.
Close ==
  /\ closing = "no"
  /\ closing' = "closing"
  /\ loop' = [s \in Names |-> "stopped"]
  /\ UNCHANGED <<envVars, toolVars, session>>

\* One server after the other, in order.
CloseToolset(s) ==
  /\ closing = "closing" /\ session[s] # "none"
  /\ \A i, j \in DOMAIN Servers : i < j /\ Servers[j] = s => session[Servers[i]] = "none"
  /\ session' = [session EXCEPT ![s] = "none"]
  /\ Detach(s)
  /\ UNCHANGED <<envVars, loop, closing>>

Closed ==
  /\ closing = "closing" /\ \A s \in Names : session[s] = "none"
  /\ closing' = "done"
  /\ UNCHANGED <<envVars, toolVars, session, loop>>

-----------------------------------------------------------------------------
(* The servers: one goes down, loses its sessions, or comes back. *)

Drop(s) ==
  /\ drops < MaxDrops /\ up[s]
  /\ drops' = drops + 1
  /\ \E b \in BOOLEAN : up' = [up EXCEPT ![s] = b]
  /\ session' = [session EXCEPT ![s] = IF @ = "live" THEN "dead" ELSE @]
  /\ UNCHANGED <<toolVars, loop, closing>>

Return(s) ==
  /\ ~up[s]
  /\ up' = [up EXCEPT ![s] = TRUE]
  /\ UNCHANGED <<toolVars, session, loop, closing, drops>>

McpInit ==
  /\ up \in [Names -> BOOLEAN]
  /\ session = [s \in Names |-> "none"] /\ loop = [s \in Names |-> "connecting"]
  /\ known = {} /\ final = Finals({}) /\ tools = [s \in Names |-> <<>>]
  /\ surface = [a \in Agents |-> {}] /\ closing = "no" /\ drops = 0

Reconcile(s) == Connect(s) \/ Probe(s)
Closing == (\E s \in Names : CloseToolset(s)) \/ Closed
McpNext ==
  \/ \E s \in Names : Reconcile(s) \/ Drop(s) \/ Return(s)
  \/ Close \/ Closing

\* Every loop is a task of its own; a close is carried through. No server has to come back.
McpSpec ==
  /\ McpInit /\ [][McpNext]_mcpVars
  /\ (\A s \in Names : WF_mcpVars(Reconcile(s))) /\ WF_mcpVars(Closing)

-----------------------------------------------------------------------------
Tool(t) == <<t.server, t.raw>>
On(a, s) == {t \in surface[a] : t.server = s}

\* The filters of a server keep the first of its tools. An attach pairs the tools a server
\* offers with the names of those that were kept, by their positions (and lookup_tool does so
\* too): it is right for these servers, and gives a name to a wrong tool for the others.
PrefixFilter(s) == \E n \in 0 .. Len(Tools[s]) : Kept(s) = 1 .. n

\* Whatever order the servers connect, fall out and come back in, the name of a tool an agent
\* has is resolved to its server, so a pattern for all the tools of a server asks for approval
\* of what is called; and to that very tool when its server's filters keep a prefix.
ToolNamesResolve ==
  \A a \in Agents : \A t \in surface[a] :
    /\ LookupTool(t.name)[1] = t.server
    /\ PrefixFilter(t.server) => LookupTool(t.name) = Tool(t)

\* Once every server has been connected, reconnects keep the names: a name a model was given
\* never comes to mean a tool of another server, and for a server whose filters keep a prefix,
\* never another tool, nor a tool another name.
NamesStay ==
  [][known = Names =>
     \A a \in Agents : \A t \in surface[a], u \in surface'[a] :
       /\ t.name = u.name => t.server = u.server
       /\ PrefixFilter(t.server) => (t.name = u.name <=> Tool(t) = Tool(u))]_mcpVars

\* MCP-01: once the servers have stopped coming and going, an agent has no tool of a server that
\* is down, that it may not see, or after a close; and of a server that is up, answers the probe
\* and has filters that keep a prefix, it has all the admitted tools and no others.
SurfacesFollow ==
  <>[](\A a \in Agents, s \in Names :
         IF closing # "no" \/ ~up[s] \/ s \notin Sees[a] THEN On(a, s) = {}
         ELSE s \in Listable /\ PrefixFilter(s) =>
                {Tool(t) : t \in On(a, s)} = {<<s, raw>> : raw \in ToSet(Admitted(s))})

-----------------------------------------------------------------------------
(* The invariant behind the names *)

\* The name of the i-th tool of a server: a tool without a final name keeps its raw one.
Given(names, s, i) == IF i \in DOMAIN names[s] THEN names[s][i] ELSE <<Tools[s][i]>>

\* The names are always those of all the servers that ever were connected, and the agents have
\* what follows. The objects of a server are its tools; those of a server whose filters keep a
\* prefix carry the names of now, also when a server connected before had been renamed.
McpInv ==
  /\ known \subseteq Names /\ final = Finals(known)
  /\ surface = Surfaces(final, tools)
  /\ tools = [s \in Names |-> tools[s]]
  /\ \A s \in Names : \A i \in DOMAIN tools[s] :
       /\ i \in DOMAIN Tools[s]
       /\ tools[s][i] = [server |-> s, raw |-> Tools[s][i], name |-> tools[s][i].name]
       /\ PrefixFilter(s) => tools[s][i].name = Given(final, s, i)
=============================================================================
