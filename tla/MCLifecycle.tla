---------------------------- MODULE MCLifecycle ----------------------------
(***************************************************************************)
(* Instances of Lifecycle: every environment that differs from the local   *)
(* one in a setting or in two related ones, or from the production one in  *)
(* one, opened undisturbed; and a few deployments over old databases, some *)
(* with traffic and some with two replicas, with failing calls and deaths. *)
(***************************************************************************)
EXTENDS Lifecycle

Server(n, t, e) == [name |-> n, tools |-> t, env |-> e]
Profile(i, p, m, k) ==
  [id |-> i, provider |-> p, model |-> m, url |-> "", inlineKey |-> FALSE, key |-> k]

Local ==
  [requestTimeout |-> 90, maxIterations |-> 8, topicThreshold |-> 8,
   otelSampleRatio |-> 100, maxHandoffs |-> 6, maxParallel |-> 3,
   specialistTimeout |-> 30, retryCount |-> 1, approvalTimeout |-> 60,
   chunkSize |-> 800, chunkOverlap |-> 120, embeddingDimensions |-> 384,
   postgresMaxConns |-> 10, replicaCount |-> 1, messageRecallLimit |-> 3,
   messageRecallMinScore |-> 55, memoryMaxCandidates |-> 3,
   memoryRecallLimit |-> 5, memoryRecallMinScore |-> 25, memoryPoll |-> 1,
   memoryTask |-> 90, memoryLease |-> 120, memoryRetryBase |-> 2,
   memoryAttempts |-> 5, backgroundPoll |-> 1, backgroundTask |-> 90,
   backgroundLease |-> 120, backgroundRetryBase |-> 2, backgroundAttempts |-> 5,
   requestsPerSecond |-> 10, burst |-> 20, dailyRequests |-> 10000,
   dailyChats |-> 500, dailyUploadBytes |-> 104857, sessionTTL |-> 86400,
   summaryTrigger |-> 20, summaryKeepRecent |-> 12, summaryMaxRunes |-> 4000,
   mcpConnectTimeout |-> 10, mcpCallTimeout |-> 20, mcpMaxOutput |-> 12000,
   reflection |-> "on", inputGuard |-> "on", implicitFeedback |-> "on",
   otel |-> "off", prometheus |-> "off", multiAgent |-> "off",
   messageRecall |-> "on", memoryAutoCapture |-> "on", memoryRecall |-> "on",
   rateLimit |-> "on", csrf |-> "on", cookieSecure |-> "off", auth |-> "off",
   summary |-> "on", mcp |-> "off", officeWrite |-> "off",
   postgresDSN |-> "absent", redisURL |-> "absent", githubSecret |-> "absent",
   metricsToken |-> "absent", apiKey |-> "absent", embeddingKey |-> "absent",
   approvalMode |-> "risky", officeExecutor |-> "disabled", officeCommand |-> "",
   servers |-> <<>>, storeProvider |-> "sqlite", environment |-> "development",
   githubClient |-> "", githubRedirect |-> "", proxies |-> {}, origins |-> {},
   otelEndpoint |-> "url", provider |-> "mock", model |-> "qwen-plus",
   baseURL |-> "", models |-> <<>>, defaultModel |-> "", aiFile |-> "none",
   environmentModels |-> "off", embeddingProvider |-> "hash",
   embeddingURL |-> "",
   fileEmbedding |-> [provider |-> "hash", dimensions |-> 0, complete |-> FALSE,
                      inlineKey |-> FALSE, key |-> "absent"]]

Production ==
  [Local EXCEPT !.environment = "production", !.storeProvider = "postgres",
     !.postgresDSN = "strong", !.redisURL = "strong", !.metricsToken = "strong",
     !.replicaCount = 2, !.auth = "on", !.cookieSecure = "on",
     !.githubClient = "id", !.githubSecret = "strong",
     !.githubRedirect = "https callback", !.proxies = {"network"},
     !.provider = "openai", !.apiKey = "strong", !.baseURL = "url",
     !.embeddingProvider = "openai", !.embeddingDimensions = 1024,
     !.otel = "on", !.prometheus = "on"]

\* Numbers on both sides of every bound.
Numbers ==
  LET all == {AgentBounds, KnowledgeBounds, MemoryBounds, BackgroundBounds,
              BoundaryBounds, SummaryBounds, ConnectorBounds} IN
  UNION {UNION {{<<k, v>> : v \in {b[k][1] - 1, b[k][1], b[k][2]} \cup
                    (IF b[k][2] = Unbounded THEN {} ELSE {b[k][2] + 1})}
                : k \in DOMAIN b} : b \in all}

Turned == {<<f, v>> : f \in Flags, v \in {"on", "off", "malformed"}}
Given == {<<k, v>> : k \in Secrets, v \in {"absent", "weak", "ambiguous"}}

Files == Server("files", <<"read">>, <<"TZ">>)
Lists ==
  {<<"servers", v>> : v \in
     {<<Files>>, <<Files, Files>>, <<Server("", <<"read">>, <<>>)>>,
      <<Server("files", <<>>, <<>>)>>, <<Server("files", <<"read", "read">>, <<>>)>>,
      <<Server("files", <<"read">>, <<"ZORA_API_KEY">>)>>,
      <<Files, Server("mail", <<"list">>, <<>>)>>}}
  \cup {<<"models", v>> : v \in
     {<<Profile("a", "mock", "", "absent")>>,
      <<Profile("a", "openai", "m", "strong"), Profile("b", "mock", "", "absent")>>,
      <<Profile("a", "openai", "", "strong")>>,
      <<Profile("a", "openai", "m", "absent")>>,
      <<Profile("a", "mock", "", "absent"), Profile("a", "mock", "", "absent")>>,
      <<[Profile("a", "mock", "", "absent") EXCEPT !.inlineKey = TRUE]>>}}
  \cup {<<"proxies", v>> : v \in {{"malformed"}, {"everything"}, {"network"}, {}}}
  \cup {<<"origins", v>> : v \in {{"malformed"}, {"origin"}}}
  \cup {<<"fileEmbedding", v>> : v \in
     [provider : {"hash", "openai"}, dimensions : {0, 63, 64}, complete : {TRUE},
      inlineKey : {FALSE}, key : {"absent", "strong"}]}

Names ==
  {<<"approvalMode", "off">>, <<"approvalMode", "some">>,
   <<"officeExecutor", "microsoft_graph">>, <<"officeCommand", "graph">>,
   <<"storeProvider", "postgres">>, <<"storeProvider", "sqlite">>,
   <<"environment", "production">>, <<"githubRedirect", "other url">>,
   <<"githubRedirect", "http callback">>, <<"otelEndpoint", "malformed">>,
   <<"provider", "openai">>, <<"provider", "other">>, <<"defaultModel", "b">>,
   <<"aiFile", "supported">>, <<"aiFile", "unreadable">>,
   <<"environmentModels", "on">>, <<"embeddingProvider", "openai">>,
   <<"embeddingURL", "url">>, <<"postgresDSN", "strong">>,
   <<"redisURL", "strong">>, <<"chunkOverlap", 50>>, <<"chunkOverlap", 49>>,
   <<"chunkSize", 101>>, <<"memoryLease", 90>>, <<"backgroundLease", 90>>,
   <<"summaryKeepRecent", 20>>, <<"summaryKeepRecent", 19>>,
   <<"embeddingDimensions", 2001>>, <<"memoryTask", 120>>}

Deviations == Numbers \cup Turned \cup Given \cup Lists \cup Names

\* The settings that some check relates to one another.
Coupled ==
  {{"chunkSize", "chunkOverlap"}, {"memoryTask", "memoryLease"},
   {"backgroundTask", "backgroundLease"}, {"summaryTrigger", "summaryKeepRecent"},
   {"storeProvider", "postgresDSN", "redisURL", "replicaCount", "auth"},
   {"mcp", "servers"}, {"officeExecutor", "officeCommand", "officeWrite"},
   {"models", "defaultModel", "aiFile", "fileEmbedding", "environmentModels"},
   {"provider", "apiKey", "embeddingProvider", "embeddingURL", "embeddingKey",
    "embeddingDimensions", "storeProvider"},
   {"otel", "otelEndpoint"}, {"multiAgent", "approvalMode"}}

Pairs == UNION {{<<d, f>> : d, f \in {e \in Deviations : e[1] \in c}} : c \in Coupled}

With(base, d) == [base EXCEPT ![d[1]] = d[2]]

Environments ==
  {With(With(Local, p[1]), p[2]) : p \in Pairs}
  \cup {With(b, d) : b \in {Local, Production}, d \in Deviations}

Connected == [Local EXCEPT !.mcp = "on", !.servers = <<Files>>]
Cluster ==
  [Production EXCEPT !.mcp = "on", !.summary = "off",
     !.servers = <<Files, Server("mail", <<"list">>, <<>>)>>]

Fresh ==
  [extension |-> FALSE, tables |-> "missing", columns |-> {}, indexes |-> {},
   dimensions |-> 0, memories |-> <<>>, documents |-> <<>>]

Memory(s, m, e, u) == [slot |-> s, manual |-> m, edited |-> e, updated |-> u]

\* The first version had neither slots nor versions ...
Early(d) ==
  [Fresh EXCEPT !.tables = "present", !.dimensions = d, !.extension = d > 384,
     !.memories = <<Memory("", TRUE, FALSE, 1), Memory("", FALSE, FALSE, 2)>>,
     !.documents = <<[group |-> 0, version |-> 1], [group |-> 0, version |-> 1]>>]

\* ... a later one had slots, which nothing kept distinct.
Keyed(d) ==
  [Early(d) EXCEPT !.columns = MemoryColumns,
     !.memories = <<Memory("j", TRUE, FALSE, 1), Memory("j", FALSE, FALSE, 2),
                    Memory("k", FALSE, FALSE, 2), Memory("k", FALSE, TRUE, 1)>>]

Deployment(e, d, s) == [environment |-> e, database |-> d, stress |-> s]

MCDeployments ==
  {Deployment(e, Fresh, {}) : e \in Environments}
  \cup {Deployment(Connected, d, {"traffic", "faults"})
         : d \in {Fresh, Early(384), Keyed(384)}}
  \cup {Deployment(Cluster, d, {"replicas", "faults"}) : d \in {Fresh, Keyed(1024)}}
  \cup {Deployment(Cluster, Fresh, {"traffic", "faults"})}
=============================================================================
