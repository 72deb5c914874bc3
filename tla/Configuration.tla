--------------------------- MODULE Configuration ---------------------------
(***************************************************************************)
(* What a process of Zora makes of its environment: config.Load with its   *)
(* range and cross checks, the model profiles and the AI file, and the     *)
(* checks which the constructors that run() calls repeat on the result.    *)
(*                                                                         *)
(* An environment is a record of settings.  A number stands for itself,    *)
(* Malformed for one that does not parse; a Boolean is "on", "off" or      *)
(* "malformed"; a secret is "absent", "weak" or "strong" (whether it       *)
(* satisfies what production asks of it) or "ambiguous" (given twice, or   *)
(* by a file that may not be read); a URL or list is named by its shape.   *)
(***************************************************************************)
EXTENDS Integers, Sequences, FiniteSets

Malformed == -1
Unbounded == 1000000      \* a bound the code does not have
LongestSummary == 20000

AgentBounds ==
  [requestTimeout |-> <<1, Unbounded>>, maxIterations |-> <<1, 50>>,
   topicThreshold |-> <<0, 100>>, otelSampleRatio |-> <<0, 100>>,
   maxHandoffs |-> <<1, 20>>, maxParallel |-> <<1, 10>>,
   specialistTimeout |-> <<1, Unbounded>>, retryCount |-> <<0, 3>>,
   approvalTimeout |-> <<1, Unbounded>>]

KnowledgeBounds ==
  [chunkSize |-> <<100, Unbounded>>, chunkOverlap |-> <<0, Unbounded>>,
   embeddingDimensions |-> <<64, Unbounded>>, postgresMaxConns |-> <<1, 100>>,
   replicaCount |-> <<1, 1000>>, messageRecallLimit |-> <<1, 20>>,
   messageRecallMinScore |-> <<0, 100>>]

MemoryBounds ==
  [memoryMaxCandidates |-> <<1, 10>>, memoryRecallLimit |-> <<1, 20>>,
   memoryRecallMinScore |-> <<0, 100>>, memoryPoll |-> <<1, Unbounded>>,
   memoryTask |-> <<1, Unbounded>>, memoryLease |-> <<0, Unbounded>>,
   memoryRetryBase |-> <<1, Unbounded>>, memoryAttempts |-> <<1, 20>>]

BackgroundBounds ==
  [backgroundPoll |-> <<1, Unbounded>>, backgroundTask |-> <<1, Unbounded>>,
   backgroundLease |-> <<0, Unbounded>>,
   backgroundRetryBase |-> <<1, Unbounded>>, backgroundAttempts |-> <<1, 20>>]

BoundaryBounds ==
  [requestsPerSecond |-> <<1, 10000>>, burst |-> <<1, 100000>>,
   dailyRequests |-> <<0, Unbounded>>, dailyChats |-> <<0, Unbounded>>,
   dailyUploadBytes |-> <<0, Unbounded>>, sessionTTL |-> <<300, 2592000>>]

SummaryBounds ==
  [summaryTrigger |-> <<4, 500>>, summaryKeepRecent |-> <<2, Unbounded>>,
   summaryMaxRunes |-> <<500, LongestSummary>>]

ConnectorBounds ==
  [mcpConnectTimeout |-> <<1, Unbounded>>, mcpCallTimeout |-> <<1, Unbounded>>,
   mcpMaxOutput |-> <<1000, 100000>>]

Flags ==
  {"reflection", "inputGuard", "implicitFeedback", "otel", "prometheus",
   "multiAgent", "messageRecall", "memoryAutoCapture", "memoryRecall",
   "rateLimit", "csrf", "cookieSecure", "auth", "summary", "mcp",
   "officeWrite"}

Secrets ==
  {"postgresDSN", "redisURL", "githubSecret", "metricsToken", "apiKey",
   "embeddingKey"}

\* An environment gives every setting of the configuration a value.
Settings ==
  DOMAIN AgentBounds \cup DOMAIN KnowledgeBounds \cup DOMAIN MemoryBounds \cup
  DOMAIN BackgroundBounds \cup DOMAIN BoundaryBounds \cup DOMAIN SummaryBounds \cup
  DOMAIN ConnectorBounds \cup Flags \cup Secrets \cup
  {"approvalMode", "officeExecutor", "officeCommand", "servers", "storeProvider",
   "environment", "githubClient", "githubRedirect", "proxies", "origins",
   "otelEndpoint", "provider", "model", "baseURL", "models", "defaultModel",
   "aiFile", "environmentModels", "embeddingProvider", "embeddingURL",
   "fileEmbedding"}

IsEnvironment(s) ==
  /\ DOMAIN s = Settings /\ s = [k \in Settings |-> s[k]]
  /\ Len(s.servers) \in Nat /\ DOMAIN s.servers = 1 .. Len(s.servers)
  /\ s.fileEmbedding.dimensions \in Int

Within(s, bounds) ==
  \A k \in DOMAIN bounds : s[k] \in bounds[k][1] .. bounds[k][2]

InRange(s) ==
  /\ Within(s, AgentBounds) /\ Within(s, KnowledgeBounds)
  /\ Within(s, MemoryBounds) /\ Within(s, BackgroundBounds)
  /\ Within(s, BoundaryBounds) /\ Within(s, SummaryBounds)
  /\ Within(s, ConnectorBounds)

Parsed(s) == \A f \in Flags : s[f] \in {"on", "off"}

Resolve(s) == \A k \in Secrets : s[k] # "ambiguous"

\* The checks that relate two numbers.
\* Mutant: the summary may keep as many messages as start it.
Related_KeepsAll(s) ==
  /\ 2 * s.chunkOverlap < s.chunkSize
  /\ s.memoryTask < s.memoryLease
  /\ s.backgroundTask < s.backgroundLease
  /\ s.summaryKeepRecent <= s.summaryTrigger

Related(s) ==
  /\ 2 * s.chunkOverlap < s.chunkSize
  /\ s.memoryTask < s.memoryLease
  /\ s.backgroundTask < s.backgroundLease
  /\ s.summaryKeepRecent < s.summaryTrigger

Distinct(seq) == \A i, j \in DOMAIN seq : i # j => seq[i] # seq[j]

CoreCredentials == {"ZORA_API_KEY", "ZORA_EMBEDDING_API_KEY", "ZORA_POSTGRES_DSN"}

\* A connector is [name, tools, env]; "" is a missing or malformed name.
ParseMCPServers(servers) ==
  /\ Distinct([i \in DOMAIN servers |-> servers[i].name])
  /\ \A i \in DOMAIN servers :
       /\ servers[i].name # ""
       /\ servers[i].tools # <<>> /\ Distinct(servers[i].tools)
       /\ Distinct(servers[i].env)
       /\ \A j \in DOMAIN servers[i].tools : servers[i].tools[j] # ""
       /\ \A j \in DOMAIN servers[i].env :
            servers[i].env[j] \notin CoreCredentials \cup {""}

ConnectorsAllowed(s) ==
  /\ ParseMCPServers(s.servers)
  /\ s.mcp = "on" => s.servers # <<>>
  /\ s.officeExecutor \in {"disabled", "microsoft_graph"}
  /\ s.officeExecutor = "microsoft_graph" =>
       s.officeCommand # "" /\ s.officeWrite = "on"

StoreAllowed(s) ==
  /\ s.storeProvider \in {"sqlite", "postgres"}
  /\ s.storeProvider = "postgres" => s.postgresDSN # "absent"

\* What lets several users, or several replicas, share one deployment.
SharedStateAllowed(s) ==
  /\ s.auth = "on" =>
       /\ s.storeProvider = "postgres" /\ s.redisURL # "absent"
       /\ s.githubClient # "" /\ s.githubSecret # "absent"
       /\ s.githubRedirect \in {"http callback", "https callback"}
  /\ s.replicaCount > 1 =>
       s.storeProvider = "postgres" /\ s.redisURL # "absent"

ProductionAllowed(s) ==
  s.environment = "production" =>
    /\ \A f \in {"auth", "cookieSecure", "csrf", "rateLimit"} : s[f] = "on"
    /\ s.storeProvider = "postgres" /\ s.replicaCount >= 2
    /\ \A k \in {"redisURL", "metricsToken", "postgresDSN"} : s[k] = "strong"
    /\ s.proxies # {} /\ s.proxies \subseteq {"network"}
    /\ s.dailyRequests > 0 /\ s.dailyChats > 0 /\ s.dailyUploadBytes > 0
    /\ s.githubRedirect = "https callback"

-----------------------------------------------------------------------------
(* Model profiles: from the environment, from a list, or from the AI file. *)

\* A profile is [id, provider, model, url, inlineKey, key]; id "" is invalid.
BuildModelProfile(p) ==
  /\ p.id # "" /\ ~p.inlineKey
  /\ p.provider \in {"mock", "openai"}
  /\ p.provider = "openai" => p.model # "" /\ p.key \in {"weak", "strong"}

Profiles(s) ==
  IF s.models # <<>> THEN s.models
  ELSE <<[id |-> "default", provider |-> s.provider, model |-> s.model,
          url |-> s.baseURL, inlineKey |-> FALSE, key |-> s.apiKey]>>

DefaultModelID(s) ==
  IF s.models = <<>> \/ s.defaultModel = "" THEN Profiles(s)[1].id
  ELSE s.defaultModel

ConfigureModels(s) ==
  LET ids == [i \in DOMAIN Profiles(s) |-> Profiles(s)[i].id] IN
  /\ Len(ids) <= 20 /\ Distinct(ids)
  /\ \A i \in DOMAIN ids : BuildModelProfile(Profiles(s)[i])
  /\ \E i \in DOMAIN ids : ids[i] = DefaultModelID(s)

\* The embedding of the AI file: [provider, dimensions, complete, inlineKey, key].
ApplyEmbeddingConfig(e) ==
  /\ ~e.inlineKey
  /\ \/ e.provider = "hash" /\ (e.dimensions = 0 \/ e.dimensions >= 64)
     \/ /\ e.provider = "openai" /\ e.complete /\ e.dimensions >= 64
        /\ e.key \in {"weak", "strong"}

ApplyAIConfigFile(s) ==
  /\ s.environmentModels = "off"        \* one source of the model settings
  /\ s.aiFile = "supported"             \* readable, one object, version 1
  /\ s.models # <<>> /\ ConfigureModels(s)
  /\ ApplyEmbeddingConfig(s.fileEmbedding)

DefaultProfile(s) ==
  Profiles(s)[CHOOSE i \in DOMAIN Profiles(s) : Profiles(s)[i].id = DefaultModelID(s)]

ModelsAllowed(s) ==
  IF s.aiFile # "none" THEN ApplyAIConfigFile(s) ELSE ConfigureModels(s)

\* The settings as the AI file and the default profile leave them.
Merged(s) ==
  LET e == s.fileEmbedding
      d == DefaultProfile(s)
      file == s.aiFile # "none" IN
  [s EXCEPT !.provider = d.provider, !.model = d.model, !.baseURL = d.url,
     !.apiKey = IF d.provider = "mock" THEN "absent" ELSE d.key,
     !.embeddingProvider = IF file THEN e.provider ELSE @,
     !.embeddingDimensions =
        IF ~file THEN @ ELSE IF e.dimensions = 0 THEN 384 ELSE e.dimensions,
     !.embeddingURL = IF file THEN IF e.complete THEN "url" ELSE "" ELSE @,
     !.embeddingKey = IF file THEN IF e.provider = "hash" THEN "absent" ELSE e.key ELSE @]

\* An OpenAI embedder falls back on the key and the address of the chat model.
Embedding(c) ==
  IF c.embeddingProvider # "openai" THEN c
  ELSE [c EXCEPT !.embeddingKey = IF @ = "absent" THEN c.apiKey ELSE @,
                 !.embeddingURL = IF @ = "" THEN c.baseURL ELSE @]

EmbeddingAllowed(c) ==
  \/ c.embeddingProvider = "hash"
  \/ c.embeddingProvider = "openai" /\ c.embeddingKey # "absent" /\ c.embeddingURL # ""

Loaded(s) == Embedding(Merged(s))

\* config.Load: what it refuses ends the process before anything is opened.
Admits(s) ==
  /\ InRange(s) /\ Parsed(s) /\ Related(s)
  /\ s.approvalMode \in {"off", "risky", "all"}
  /\ ConnectorsAllowed(s) /\ Resolve(s)
  /\ StoreAllowed(s) /\ SharedStateAllowed(s) /\ ProductionAllowed(s)
  /\ ModelsAllowed(s)
  /\ EmbeddingAllowed(Loaded(s))

-----------------------------------------------------------------------------
(* The checks of the constructors, in the order in which run() calls them. *)

NewTelemetry(c) ==
  /\ c.otelSampleRatio \in 0 .. 100
  /\ c.otel = "on" => c.otelEndpoint = "url"

NewAuth(c) ==
  c.auth = "on" =>
    /\ c.githubClient # "" /\ c.githubSecret # "absent"
    /\ c.githubRedirect \in {"http callback", "https callback", "other url"}

NewSecurity(c) ==
  /\ c.rateLimit = "on" => c.requestsPerSecond > 0 /\ c.burst >= 1
  /\ c.dailyRequests >= 0 /\ c.dailyChats >= 0 /\ c.dailyUploadBytes >= 0
  /\ c.origins \subseteq {"origin"}
  /\ c.proxies \subseteq {"network", "everything"}

Boundaries(c) == NewAuth(c) /\ NewSecurity(c)

ConnectOfficeExecutor(c) ==
  c.officeExecutor = "microsoft_graph" =>
    c.officeCommand # "" /\ c.mcpConnectTimeout > 0 /\ c.mcpCallTimeout > 0

ConnectMCP(c) ==
  c.mcp = "on" =>
    c.mcpConnectTimeout > 0 /\ c.mcpCallTimeout > 0 /\ c.mcpMaxOutput > 0

NewEmbedder(c) ==
  \/ c.embeddingProvider = "hash" /\ c.embeddingDimensions >= 64
  \/ /\ c.embeddingProvider = "openai" /\ c.embeddingDimensions >= 1
     /\ c.embeddingKey # "absent" /\ c.embeddingURL # ""

\* Integer division: an odd size has a smaller half than Load's check allows.
NewKnowledge(c) ==
  c.chunkSize >= 100 /\ c.chunkOverlap \in 0 .. (c.chunkSize \div 2) - 1

NewSemantic(c) ==
  c.messageRecallLimit <= 20 /\ c.messageRecallMinScore \in 0 .. 100

NewMemory(c) ==
  /\ c.memoryAutoCapture = "on" => c.memoryMaxCandidates \in 1 .. 10
  /\ c.memoryRecallLimit \in 1 .. 20 /\ c.memoryRecallMinScore \in 0 .. 100

\* One runtime per profile; the default one has to be among them.
NewRuntimes(c) ==
  /\ \A i \in DOMAIN Profiles(c) : Profiles(c)[i].provider \in {"mock", "openai"}
  /\ c.inputGuard = "on" => c.topicThreshold \in 0 .. 100
  /\ \E i \in DOMAIN Profiles(c) : Profiles(c)[i].id = DefaultModelID(c)

NewApproval(c) ==
  c.multiAgent = "on" /\ c.approvalMode # "off" =>
    c.approvalMode \in {"risky", "all"} /\ c.approvalTimeout > 0

NewSummary(c) ==
  c.summary = "on" =>
    /\ c.summaryTrigger \in 4 .. 500 /\ c.summaryMaxRunes \in 500 .. LongestSummary
    /\ c.summaryKeepRecent >= 2 /\ c.summaryKeepRecent < c.summaryTrigger

Services(c) ==
  /\ NewEmbedder(c) /\ NewKnowledge(c) /\ NewSemantic(c) /\ NewMemory(c)
  /\ NewRuntimes(c) /\ NewApproval(c) /\ NewSummary(c)

NewCaptureWorker(c) == c.memoryLease > c.memoryTask

\* The settings whose value only a constructor looks at.
LeftToConstructors(c) ==
  \/ c.otel = "on" /\ c.otelEndpoint # "url"
  \/ c.storeProvider = "postgres" /\ c.embeddingDimensions > 2000
  \/ ~ (c.origins \subseteq {"origin"})
  \/ ~ (c.proxies \subseteq {"network", "everything"})
  \/ c.chunkSize % 2 = 1 /\ 2 * c.chunkOverlap = c.chunkSize - 1
=============================================================================
