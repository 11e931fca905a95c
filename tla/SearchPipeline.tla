--------------------------- MODULE SearchPipeline ---------------------------
(***************************************************************************)
(* The pipeline of the search agent (run_search_inner, agent/search): plan   *)
(* the queries, send them, merge the results, fetch their pages, assemble a  *)
(* context within a token budget, and have the model write the answer.       *)
(*                                                                         *)
(* A result is its URL and an entry has a number of tokens.  Requests of one *)
(* phase run at once, and their answers are used in the order of the         *)
(* requests, which is the order the model takes them in.                     *)
(***************************************************************************)
EXTENDS Naturals, Sequences, FiniteSets, SequencesExt

CONSTANTS Urls,           \* links of results
          MaxQueries,     \* bound: queries of a plan
          MaxLinks,       \* bound: links of one answer
          MaxPaa,         \* max_people_also_ask
          EntryTokens,    \* tokens an entry may have
          QuickTokens,    \* max_total_tokens
          ThoroughTokens  \* max_total_tokens_thorough

ASSUME SearchAssumption ==
  /\ {MaxQueries, MaxLinks, MaxPaa, QuickTokens, ThoroughTokens} \subseteq Nat
  /\ EntryTokens \subseteq Nat

VARIABLES
  searchPc,  \* control state of the pipeline
  hasModel,  \* whether a model resolved for the search agent
  depth,     \* "quick" or "thorough"
  requests,  \* answers of the search service not yet merged
  results,   \* the merged results
  tokens,    \* tokens of their entries
  context,   \* the entries given to the model, by place
  found      \* what the pipeline returned

searchVars == <<searchPc, hasModel, depth, requests, results, tokens, context, found>>
-----------------------------------------------------------------------------
Link(url) == <<"link", url>>
KnowledgeGraph == <<"#knowledge_graph">>
PeopleAlsoAsk == <<"#people_also_ask">>
Entries == {Link(url) : url \in Urls} \cup {KnowledgeGraph, PeopleAlsoAsk}

SearchTypeOK ==
  /\ searchPc \in {"off", "plan", "collect", "enrich", "assemble", "synthesize", "done",
                   "panicked"}
  /\ hasModel \in BOOLEAN
  /\ depth \in {"quick", "thorough"}
  /\ requests \in 0 .. 3 * MaxQueries
  /\ results \in Seq(Entries)
  /\ tokens \in Seq(EntryTokens)
  /\ context \in Seq(Nat)
  /\ found \in {"none", "ok", "error"}

SearchOff ==
  /\ searchPc = "off" /\ hasModel = FALSE /\ depth = "thorough" /\ requests = 0
  /\ results = <<>> /\ tokens = <<>> /\ context = <<>> /\ found = "none"

Found(result) == searchPc' = "done" /\ found' = result

\* Without a key of the search service there is nothing to do.
StartSearch ==
  /\ searchPc = "off"
  /\ results' = <<>> /\ tokens' = <<>> /\ context' = <<>>
  /\ \/ Found("error") /\ UNCHANGED hasModel
     \/ searchPc' = "plan" /\ hasModel' \in BOOLEAN /\ UNCHANGED found
  /\ UNCHANGED <<depth, requests>>

\* Answers to wait for: three variants of a query, or one if quick.
Variants(d, queries) == IF d = "quick" THEN queries ELSE 3 * queries

\* The model's plan, or the query as it is when there is no model, no answer
\* or no plan in it.
Plan ==
  /\ searchPc = "plan"
  /\ \E d \in {"quick", "thorough"}, n \in 1 .. MaxQueries :
       /\ hasModel \/ (d = "thorough" /\ n = 1)
       /\ depth' = d
       /\ requests' = Variants(d, n)
  /\ searchPc' = "collect"
  /\ UNCHANGED <<hasModel, results, tokens, context, found>>

\* extract_json slices from the first { to a last } that stands before it.
PlanPanics ==
  /\ searchPc = "plan" /\ hasModel
  /\ searchPc' = "panicked"
  /\ UNCHANGED <<hasModel, depth, requests, results, tokens, context, found>>

\* Links not seen before, in their order.
AddLinks(rs, links) ==
  LET added[k \in 0 .. Len(links)] ==
        IF k = 0 THEN rs
        ELSE IF Contains(added[k - 1], Link(links[k]))
             THEN added[k - 1]
             ELSE Append(added[k - 1], Link(links[k]))
  IN  added[Len(links)]

Asked(rs) == Cardinality({k \in 1 .. Len(rs) : rs[k] = PeopleAlsoAsk})

\* collect_and_dedup of one answer: the first knowledge graph, new links, and
\* questions up to the limit.
Merge(rs, graph, links, questions) ==
  LET top == IF graph /\ ~Contains(rs, KnowledgeGraph) THEN <<KnowledgeGraph>> ELSE <<>>
      more == AddLinks(rs \o top, links)
      room == MaxPaa - Asked(more)
  IN  more \o [k \in 1 .. (IF questions < room THEN questions ELSE room) |-> PeopleAlsoAsk]

Collect ==
  /\ searchPc = "collect" /\ requests > 0
  /\ requests' = requests - 1
  /\ \/ \E graph \in BOOLEAN, n \in 0 .. MaxLinks, questions \in 0 .. 1 :
          \E links \in [1 .. n -> Urls] : results' = Merge(results, graph, links, questions)
     \/ UNCHANGED results
  /\ UNCHANGED <<searchPc, hasModel, depth, tokens, context, found>>

Collected ==
  /\ searchPc = "collect" /\ requests = 0
  /\ IF results = <<>> THEN Found("error") ELSE searchPc' = "enrich" /\ UNCHANGED found
  /\ UNCHANGED <<hasModel, depth, requests, results, tokens, context>>

\* The pages that can be fetched, cut to their limit; the order stays.
Enrich ==
  /\ searchPc = "enrich"
  /\ tokens' \in [1 .. Len(results) -> EntryTokens]
  /\ searchPc' = "assemble"
  /\ UNCHANGED <<hasModel, depth, requests, results, context, found>>

Budget == IF depth = "thorough" THEN ThoroughTokens ELSE QuickTokens

\* Mutant: an entry that does not fit is skipped.
TakeFitting(ts, budget) ==
  LET after[k \in 0 .. Len(ts)] ==
        IF k = 0 THEN [total |-> 0, taken |-> <<>>, full |-> FALSE]
        ELSE IF after[k - 1].total + ts[k] > budget
             THEN after[k - 1]
             ELSE [total |-> after[k - 1].total + ts[k],
                   taken |-> Append(after[k - 1].taken, k), full |-> FALSE]
  IN  after[Len(ts)].taken

\* create_context stops at the first entry that does not fit.
Take(ts, budget) ==
  LET after[k \in 0 .. Len(ts)] ==
        IF k = 0 THEN [total |-> 0, taken |-> <<>>, full |-> FALSE]
        ELSE IF after[k - 1].full \/ after[k - 1].total + ts[k] > budget
             THEN [after[k - 1] EXCEPT !.full = TRUE]
             ELSE [total |-> after[k - 1].total + ts[k],
                   taken |-> Append(after[k - 1].taken, k), full |-> FALSE]
  IN  after[Len(ts)].taken

Assemble ==
  /\ searchPc = "assemble"
  /\ context' = Take(tokens, Budget)
  /\ searchPc' = "synthesize"
  /\ UNCHANGED <<hasModel, depth, requests, results, tokens, found>>

\* Without a model there is no answer, whatever was found.
Synthesize ==
  /\ searchPc = "synthesize"
  /\ (hasModel /\ Found("ok")) \/ Found("error")
  /\ UNCHANGED <<hasModel, depth, requests, results, tokens, context>>

SearchStep == Plan \/ PlanPanics \/ Collect \/ Collected \/ Enrich \/ Assemble \/ Synthesize
-----------------------------------------------------------------------------
\* What the model is given to write from is the longest run of results, from
\* the first, that fits the budget, no link twice, one knowledge graph and no
\* more questions than the limit (agent/search/agent.rs).
Total(ts, n) ==
  LET sum[k \in 0 .. Len(ts)] == IF k = 0 THEN 0 ELSE sum[k - 1] + ts[k] IN sum[n]
ContextFitsBudget ==
  searchPc \in {"synthesize", "done"} /\ tokens # <<>> =>
    /\ \E n \in 0 .. Len(tokens) :
         /\ context = [k \in 1 .. n |-> k]
         /\ Total(tokens, n) <= Budget
         /\ n < Len(tokens) => Total(tokens, n + 1) > Budget
    /\ \A i, j \in 1 .. Len(results) :
         i # j /\ results[i] = results[j] => results[i] = PeopleAlsoAsk
    /\ Asked(results) <= MaxPaa
=============================================================================
