----------------------------- MODULE Catalogue -----------------------------
(***************************************************************************)
(* The model router's choice: the catalogue of models that is compiled in, *)
(* and the score that ranks them.  Costs are in 1/100000 of a dollar for   *)
(* 1000 tokens; scores, floating-point in the code, are ten thousand times *)
(* the code's, which makes every term an integer.                          *)
(***************************************************************************)
EXTENDS Integers, SequencesExt

Model(provider, name, context, coding, reasoning, latency, input, output, structured) ==
    [provider |-> provider, name |-> name, context |-> context, coding |-> coding,
     reasoning |-> reasoning, latency |-> latency, input |-> input, output |-> output,
     structured |-> structured]

OpenAIModels ==
    << Model("openai", "gpt-4o",      128000, 9,  8,  2500,  500, 1500, TRUE),
       Model("openai", "gpt-4o-mini", 128000, 7,  6,   800,   15,   60, TRUE),
       Model("openai", "o1-preview",  128000, 8, 10, 15000, 1500, 6000, FALSE),
       Model("openai", "o1-mini",     128000, 7,  8,  4000,  300, 1200, FALSE) >>

AnthropicModels ==
    << Model("anthropic", "claude-sonnet-4", 200000,  9,  9, 3000,  300, 1500, TRUE),
       Model("anthropic", "claude-opus-4",   200000, 10, 10, 8000, 1500, 7500, TRUE),
       Model("anthropic", "claude-haiku-4",  200000,  6,  5,  600,   25,  125, TRUE) >>

GeminiModels ==
    << Model("gemini", "gemini-2.5-pro",   1000000, 9, 9, 4000, 125, 1000, TRUE),
       Model("gemini", "gemini-2.5-flash", 1000000, 7, 7, 1200,  15,   60, TRUE) >>

GroqModels ==
    << Model("groq", "llama-4-scout",    128000, 7, 7, 300, 13, 69, TRUE),
       Model("groq", "llama-4-maverick", 128000, 8, 8, 500, 20, 32, TRUE),
       Model("groq", "mixtral-8x7b",      32768, 6, 6, 200, 24, 24, TRUE) >>

FireworksModels ==
    << Model("fireworks", "deepseek-v3",   128000, 8, 8, 2000, 90, 90, TRUE),
       Model("fireworks", "llama-v3p3-70b", 128000, 7, 7,  800, 13, 50, TRUE),
       Model("fireworks", "qwen2p5-72b",    32768, 7, 7,  600, 90, 90, TRUE) >>

BifrostModels ==
    << Model("bifrost", "bifrost/gpt-4o",        128000, 9, 8, 2500, 500, 1500, TRUE),
       Model("bifrost", "bifrost/claude-sonnet", 200000, 9, 9, 3000, 300, 1500, TRUE),
       Model("bifrost", "bifrost/gemini-flash", 1000000, 7, 7, 1200,  15,   60, TRUE) >>

(* AllProviders, in the order in which they are asked.                     *)
AllProviders ==
    OpenAIModels \o AnthropicModels \o GeminiModels \o GroqModels \o FireworksModels \o BifrostModels

AllModels == ToSet(AllProviders)

(* DefaultConfig: the dearest model allowed and, where scores tie, the     *)
(* provider preferred.                                                     *)
MaxCostPer1K     == 10000
ProviderPriority == <<"openai", "bifrost", "anthropic", "groq", "fireworks", "gemini">>

providerRank(provider) == CHOOSE k \in DOMAIN ProviderPriority : ProviderPriority[k] = provider

(* The model when none fits: it is not looked up in the catalogue.         *)
fallbackModel == Model("openai", "gpt-4o", 128000, 8, 8, 3000, 500, 1500, TRUE)

-----------------------------------------------------------------------------
taskTypeForRole(role) ==
    CASE role = "planner"                              -> "architecture"
      [] role \in {"reviewer", "security_reviewer"}    -> "review"
      [] role = "test_runner"                          -> "test"
      [] role \in {"docs_writer", "release_manager"}   -> "docs"
      [] OTHER                                         -> "code"

difficultyForRisk(risk) ==
    CASE risk = "high"     -> "hard"
      [] risk = "critical" -> "expert"
      [] risk = "medium"   -> "medium"
      [] OTHER             -> "easy"

(* scoreModel, for the normal latency the runner asks for.                 *)
ForTask(m, taskType) ==
    LET structured == IF m.structured THEN 50000 ELSE 0
    IN  CASE taskType \in {"code", "refactor"} -> 50000 * m.coding + structured
          [] taskType = "debug"        -> 40000 * m.reasoning + 30000 * m.coding
          [] taskType = "review"       -> 50000 * m.reasoning
          [] taskType = "test"         -> 40000 * m.coding + structured
          [] taskType = "architecture" -> 60000 * m.reasoning + (5 * m.context) \div 2
          [] taskType = "docs"         -> 20000 * m.coding - 10 * m.output
          [] taskType = "simple"       -> -20 * m.output - 200 * m.latency

ForDifficulty(m, difficulty) ==
    CASE difficulty = "easy"               -> -5 * m.output
      [] difficulty \in {"hard", "expert"} -> 30000 * m.reasoning + 20000 * m.coding
      [] OTHER                             -> 0

scoreModel(m, taskType, difficulty) ==
    500000 + ForTask(m, taskType) + ForDifficulty(m, difficulty) - 200 * m.latency - 3 * m.output

(* SelectModel: the models of the connected providers that fit, the best   *)
(* first.  The sort is not stable, so that any of the first ones may come  *)
(* out; without one that fits, the default comes out, connected or not.    *)
Fitting(connected, size, costCap) ==
    { m \in AllModels : /\ m.provider \in connected
                        /\ size <= m.context
                        /\ m.output <= IF costCap = 0 THEN MaxCostPer1K ELSE costCap }

SelectModel(connected, taskType, difficulty, size, costCap) ==
    LET fitting  == Fitting(connected, size, costCap)
        score(m) == scoreModel(m, taskType, difficulty)
        Before(m, o) == \/ score(m) > score(o)
                        \/ score(m) = score(o) /\ providerRank(m.provider) < providerRank(o.provider)
    IN  IF fitting = {} THEN {fallbackModel}
        ELSE { m \in fitting : ~\E o \in fitting : Before(o, m) }

=============================================================================
