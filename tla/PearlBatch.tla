------------------------------ MODULE PearlBatch ------------------------------
(***************************************************************************)
(* What the decode loops of the engine share (PearlRounds and              *)
(* SpecRhythmEngine): the batch, the KV caches and the target's outputs.   *)
(*                                                                         *)
(* A KV cache maps a position to the token whose key and value were last   *)
(* written there, so a prediction depends on what the cache holds and not  *)
(* on what token_ids says.  What a model predicts after a sequence of      *)
(* cached tokens is the constant TargetSupport: the tokens of non-zero     *)
(* probability, of which a greedy target takes the argmax.  The draft      *)
(* model may propose anything.                                             *)
(***************************************************************************)
EXTENDS PearlState, FiniteSets

CONSTANTS
    NumRequests,                \* len(prompt_token_ids)
    Prompt,                     \* request index -> prompt_token_ids
    MaxTokens,                  \* request index -> params.max_tokens
    Gamma,
    MaxNumSeqs,
    NumBuckets,                 \* target_verification_graph_buckets
    MaxModelLen,
    BlockSize,                  \* kvcache_block_size
    Greedy,                     \* temperature = 0 for the whole batch
    TargetSupport(_)            \* external: the target model

Request == 0..(NumRequests - 1)

Side == {"draft", "target"}

InitialBatchSize == IF NumRequests < MaxNumSeqs THEN NumRequests ELSE MaxNumSeqs

(* The positions the page table of a sequence can hold.                    *)
Capacity == ((MaxModelLen + BlockSize - 1) \div BlockSize) * BlockSize

(* The guards generate_batch puts on its arguments.                        *)
ASSUME BatchAssumption ==
    /\ NumRequests \in Nat \ {0}
    /\ Gamma \in Nat \ {0}
    /\ MaxNumSeqs \in Nat \ {0}
    /\ NumBuckets \in Nat \ {0}
    /\ MaxModelLen \in Nat \ {0}
    /\ BlockSize \in Nat \ {0}
    /\ Greedy \in BOOLEAN
    /\ Prompt \in [Request -> Seq(Token) \ {<<>>}]
    /\ MaxTokens \in [Request -> Nat \ {0}]
    /\ \A r \in Request : Len(Prompt[r]) + MaxTokens[r] + Gamma <= MaxModelLen

(* The target model returns a distribution over the vocabulary.            *)
ASSUME SupportAssumption ==
    \A n \in 0..Capacity : \A prefix \in [1..n -> Token] :
        TargetSupport(prefix) \subseteq Token /\ TargetSupport(prefix) # {}

AllRequests == [i \in 1..NumRequests |-> i - 1]

Members(s) == {s[i] : i \in 1..Len(s)}

(* The members of s that are in S, in the order of s.                      *)
Keep(s, S) ==
    LET kept[n \in 0..Len(s)] ==
            IF n = 0 THEN <<>>
            ELSE IF s[n] \in S THEN Append(kept[n - 1], s[n]) ELSE kept[n - 1]
    IN  kept[Len(s)]

PromptLen(r) == Len(Prompt[r])

IsFinished(st, r) == Finished(st, PromptLen(r), MaxTokens[r])
------------------------------------------------------------------------------
EmptyCache == [p \in 1..Capacity |-> NoToken]

(* Write tokens at consecutive positions of one request's cache, the first *)
(* at (1-based) position start.                                            *)
Written(cache, start, tokens) ==
    [p \in DOMAIN cache |->
        IF p \in start..(start + Len(tokens) - 1) THEN tokens[p - start + 1]
                                                  ELSE cache[p]]

(* After prefill.  Capturing the decode graphs (on or off) leaves the      *)
(* first token at the Gamma positions past it in the target's cache.       *)
PrefilledCache(r, first, captured) ==
    Written(EmptyCache, 1,
            Prompt[r] \o (IF captured THEN [i \in 1..(Gamma + 1) |-> first] ELSE <<>>))

CachedPrefix(cache, p) == [q \in 1..p |-> cache[q]]

(* Mutant of DraftFeed: the last token of the sequence is not fed.         *)
DraftFeedSkipsLast(st, window) == window

(* A draft row feeds its last token and then its own proposals but the     *)
(* last, one position further each.                                        *)
DraftFeed(st, window) == <<st.tokens[Len(st.tokens)]>> \o SubSeq(window, 1, Len(window) - 1)

DraftLastPosition(st, width) == Len(st.tokens) + width - 1

(* Mutant of VerificationWindow: the window keeps its first token.         *)
VerificationWindowTooWide(st, window) ==
    TakeLast(st.tokens, VerificationSize(st, Gamma, 0)) \o <<window[1]>>

(* The verification part of a proposal: the unverified tail of token_ids   *)
(* without its first token, and the first token of the new window.         *)
VerificationWindow(st, window) ==
    TakeLast(st.tokens, VerificationSize(st, Gamma, 0) - 1) \o <<window[1]>>

(* _bucket_target_verification_widths: the number of Gamma-wide rows is    *)
(* rounded up to a graph bucket, at the cost of the first one-token rows.  *)
PaddedPostCount(size, post) ==
    LET width == (size + NumBuckets - 1) \div NumBuckets
        counts == {n \in 0..size : n % width = 0 \/ n = size}
    IN  CHOOSE n \in counts : n >= post /\ \A m \in counts : m >= post => n <= m

ModelWidths(sizes) ==
    LET rows == 1..Len(sizes)
        post == {i \in rows : sizes[i] > 1}
        padding == PaddedPostCount(Len(sizes), Cardinality(post)) - Cardinality(post)
    IN  [i \in rows |-> IF i \in post \/ Cardinality({j \in rows \ post : j < i}) < padding
                        THEN Gamma ELSE 1]

(* Mutant of TargetStart: one position too early.                          *)
TargetStartTooEarly(st, size) == Len(st.tokens) - size

(* A target row feeds its last size tokens and repeats the last one to     *)
(* fill the model width.                                                   *)
TargetStart(st, size) == Len(st.tokens) - size + 1

TargetFeed(st, size, width) ==
    LET tokens == TakeLast(st.tokens, size)
    IN  [j \in 1..width |-> IF j <= size THEN tokens[j] ELSE tokens[size]]

Argmax(prefix) == CHOOSE t \in TargetSupport(prefix) : TRUE

(* What the target's forward returns for a row of the given size, once the *)
(* row is in the cache.                                                    *)
Predictions(cache, st, size) ==
    [j \in 1..size |-> TargetSupport(CachedPrefix(cache, TargetStart(st, size) + j - 1))]

Verdicts(supports, proposed) ==
    IF Greedy
    THEN {GreedyVerdict([j \in 1..Len(supports) |-> CHOOSE t \in supports[j] : TRUE], proposed)}
    ELSE StochasticVerdicts(supports, proposed)

(* The first tokens the prefill may return.                                *)
FirstTokens(r) == IF Greedy THEN {Argmax(Prompt[r])} ELSE TargetSupport(Prompt[r])
=============================================================================
