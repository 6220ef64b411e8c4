------------------------- MODULE MCLocalCoordinator -------------------------
(* The instance of the local coordinator for model checking. *)
EXTENDS LocalCoordinator

CONSTANTS sa, sb, sc, j1, j2, j3, plugin, pdf, csv

St(s, deps) == [stage |-> s, dependsOn |-> deps]

MCPipelines ==
  { <<St(sa, <<>>)>>,
    <<St(sa, <<>>), St(sb, <<sa>>), St(sc, <<sa, sb>>)>>,
    \* two that name what is not there, and leave their tasks behind
    <<St(sa, <<>>), St(sb, <<sa, sc>>)>>,
    <<St(sb, <<sc>>), St(sa, <<sb>>)>>,
    \* a dependency named twice
    <<St(sb, <<>>), St(sa, <<sb, sb>>)>> }

MCMaps ==
  { sa :> <<>>,
    sa :> <<>> @@ sb :> <<>> @@ sc :> <<sb>>,
    sa :> <<sb>> @@ sb :> <<>> }

\* All graphs of three stages, a dependency perhaps named twice.
Deps == {<<>>, <<sa, sb>>, <<sa, sc>>, <<sb, sc>>}
          \cup {<<s>> : s \in Stages} \cup {<<s, s>> : s \in Stages}

Graphs == {<<St(sa, x), St(sb, y), St(sc, z)>> : x \in Deps, y \in Deps, z \in Deps}

Payload(j, p) ==
  [job |-> j, isObject |-> TRUE, fits |-> TRUE, malformed |-> {}, extension |-> TRUE,
   pipeline |-> p]

Good(j) == Payload(j, <<St(sa, <<>>), St(sb, <<sa>>)>>)
Loop(j) == Payload(j, <<St(sb, <<sa>>), St(sa, <<sb>>)>>)

MixedPayloads ==
  { <<>>,
    <<Good(j1), Good(j2)>>, <<Good(j1), Loop(j2)>>, <<Loop(j1), Good(j2)>>,
    <<Payload(j1, <<St(sa, <<sc>>)>>), Good(j2)>>,
    <<Payload(j1, <<St(sa, <<>>), St(sa, <<>>)>>)>>,
    <<[Good(j1) EXCEPT !.extension = FALSE], Good(j2)>>,
    <<[Good(j1) EXCEPT !.isObject = FALSE], [Good(j2) EXCEPT !.fits = FALSE],
      Payload(j3, <<St(sb, <<sc>>)>>)>>,
    <<Payload(j1, <<St(sa, <<sb>>)>>), Payload(j2, <<>>),
      [Good(j3) EXCEPT !.malformed = {"pipeline", "meta"}]>> }

MCBatches ==
  [name \in {"graphs", "mixed", "good"} |->
     CASE name = "graphs" ->
            [payloads : {<<Payload(j1, p)>> : p \in Graphs}, hasConfig : {TRUE},
             haveIds : {TRUE}]
       [] name = "mixed" ->
            [payloads : MixedPayloads, hasConfig : BOOLEAN, haveIds : BOOLEAN]
       [] name = "good" ->
            [payloads : {<<Good(j1)>>, <<Good(j1), Good(j2)>>}, hasConfig : {TRUE},
             haveIds : {TRUE}]]

MCExtras == Jobs \X Stages

MCStageContext ==
  [js \in Jobs \X Stages |-> [plugin |-> plugin, extension |-> pdf, extras |-> js]]

Of(s) == MCStageContext[<<j1, s>>]
Other == [plugin |-> plugin, extension |-> csv, extras |-> ANY]

MCSeeds ==
  { <<[key |-> Global, n |-> 3], [key |-> OfExtension(Other), n |-> 2], [key |-> Other, n |-> 1]>>,
    <<[key |-> Other, n |-> 5]>> }

Never == [n \in Calls |-> 0]

Given(js, calls) == [jobs |-> js, batches |-> "good", contexts |-> {}, of |-> calls @@ Never]
Stores(cs, calls) == [jobs |-> {}, batches |-> "good", contexts |-> cs, of |-> calls @@ Never]

MCSlices ==
  { \* one job through completions, failures and retries, also of lost tasks
    Given({j1}, "create" :> 2 @@ "mark" :> 4),
    Given({j1}, "create" :> 1 @@ "mark" :> 6),
    Given({j1}, "create" :> 1 @@ "mark" :> 5 @@ "init" :> 1),
    \* a job exported and brought back, pruned and created again
    Given({j1}, "create" :> 1 @@ "mark" :> 4 @@ "flush" :> 1 @@ "export" :> 1 @@ "import" :> 1),
    Given({j1}, "create" :> 2 @@ "mark" :> 2 @@ "flush" :> 1 @@ "prune" :> 1 @@ "export" :> 1
                  @@ "import" :> 1 @@ "reset" :> 1),
    \* tags and groups
    Given({j1}, "create" :> 1 @@ "mark" :> 2 @@ "organise" :> 2 @@ "prune" :> 1),
    Given({j1}, "create" :> 1 @@ "organise" :> 3 @@ "export" :> 1 @@ "import" :> 1),
    Given({j1, j2}, "create" :> 2 @@ "organise" :> 3),
    Given({j1, j2}, "create" :> 2 @@ "mark" :> 3 @@ "prune" :> 1),
    \* the queue
    Given({j1, j2, j3}, "offer" :> 6 @@ "drain" :> 5 @@ "clean" :> 1 @@ "clear" :> 1),
    \* the intake
    [Given({}, "build" :> 1) EXCEPT !.batches = "graphs"],
    [Given({}, "handle" :> 1 @@ "build" :> 1) EXCEPT !.batches = "mixed"],
    \* times, for stages that are then built
    Stores({Of(sa), Plain(Of(sa))}, "tick" :> 2 @@ "record" :> 4 @@ "forget" :> 1 @@ "save" :> 1
                                      @@ "load" :> 1),
    Stores({Of(sa), Plain(Of(sa))}, "record" :> 2 @@ "build" :> 1),
    \* sizes, evicted, pruned, seeded and restored
    Stores({Of(sa), Of(sb), Other}, "observe" :> 4 @@ "predict" :> 1),
    Stores({Of(sa), Plain(Of(sa)), Other}, "observe" :> 3 @@ "contract" :> 1
                                      @@ "save" :> 1 @@ "load" :> 1),
    Stores({Of(sa), Other}, "tick" :> 2 @@ "observe" :> 3 @@ "predict" :> 1 @@ "seed" :> 1
                              @@ "forget" :> 1),
    \* cpu and memory
    Stores({Of(sa), Other}, "tick" :> 1 @@ "cpu" :> 2 @@ "memory" :> 1 @@ "contract" :> 2
                              @@ "forget" :> 1 @@ "save" :> 1 @@ "load" :> 1) }

=============================================================================
