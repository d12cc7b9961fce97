---------------------------- MODULE NgramSpecDecode ----------------------------
(***************************************************************************)
(* The n-gram speculator kernel (csrc/attention/ngram_spec_decode), on one *)
(* row.  A call appends the tokens sampled in the last step to the row: as *)
(* many leading slots as there are valid slots, whichever those are.  Then *)
(* it looks for an earlier occurrence of the row's last n tokens, min_n <= *)
(* n <= max_n, and proposes the up to k tokens that followed it.  The      *)
(* kernel searches in one of three ways: token by token ("scalar",         *)
(* block_rows > 1), with a vector comparison of the first token ("vector", *)
(* block_rows <= 1), or in chunks of a row too large for the unified       *)
(* buffer ("chunked", is_large_row).                                       *)
(***************************************************************************)
EXTENDS Integers, Sequences, FiniteSetsExt

CONSTANTS
  Paths,         \* ways to search that are considered
  VocabSize,     \* vocab_size
  MaxSeqLen,     \* max_seq_len, a multiple of the alignment of a row
  MaxNewTokens,  \* max_new_tokens
  MinN, MaxN,    \* min_n, max_n
  K,             \* k
  CmpMax,        \* positions per vector comparison: CMP_MAX, 8192 in the source
  StaleTokens,   \* what an earlier request may have left in the row
  Lane           \* a vector comparison covers a multiple of this: 64 in the source

Vocab == 0..(VocabSize - 1)
NoToken == -1

VARIABLES
  path,        \* the way this instance of the kernel searches
  token_ids,   \* position -> token, the whole row; stale behind num_tokens
  num_tokens,  \* num_tokens_no_spec of the next call
  appended,    \* valid_count of the last call
  next_token,  \* next_token_ids
  draft        \* draft_token_ids without its padding; num_valid is its length

ngramVars == <<path, token_ids, num_tokens, appended, next_token, draft>>

NoMatch == [pos |-> -1, len |-> 0]
Lengths(nt) == {n \in MinN..MaxN : n < nt}

\* The positions before the suffix where the row continues like s, of n tokens.
Occurrences(row, nt, n, s) ==
  {pos \in 0..(nt - n - 1) : \A i \in 0..(n - 1) : row[pos + i] = s[i]}
Suffix(row, nt, n) == [i \in 0..(n - 1) |-> row[nt - n + i]]

\* Mutant of ScalarSearch: the window may be the suffix itself.
ScalarSearchSelf(row, nt) ==
  LET at(n) == {pos \in 0..(nt - n) : \A i \in 0..(n - 1) : row[pos + i] = row[nt - n + i]}
      ns == {n \in MinN..MaxN : n <= nt}
  IN IF ns = {} THEN NoMatch ELSE [pos |-> Min(at(Max(ns))), len |-> Max(ns)]

\* Every length is searched; a longer match replaces a shorter one.
ScalarSearch(row, nt) ==
  LET at(n) == Occurrences(row, nt, n, Suffix(row, nt, n))
      ns == {n \in Lengths(nt) : at(n) # {}}
  IN IF ns = {} THEN NoMatch ELSE [pos |-> Min(at(Max(ns))), len |-> Max(ns)]

\* Positions whose mask bit the vector comparison does not write, because the row
\* ends in the middle of a lane: CompareScalar is rounded down there, unless
\* nothing of it remains.
Unmasked(nt, n) ==
  {p \in 0..(nt - n - 1) :
     LET off == (p \div CmpMax) * CmpMax
         full == ((MaxSeqLen - off) \div Lane) * Lane
     IN full > 0 /\ p - off >= full}

\* The vector search.  Once some length has matched, a longer one is only looked
\* for in the first CMP_MAX positions.  garbage: the unmasked positions whose stale
\* bit is set, for which the first token is not compared.
VectorSearch(row, nt, garbage) ==
  LET tail(n) == Suffix(row, nt, n)
      at(n) == {pos \in 0..(nt - n - 1) :
                  /\ IF pos \in Unmasked(nt, n) THEN pos \in garbage
                     ELSE row[pos] = tail(n)[0]
                  /\ \A i \in 1..(n - 1) : row[pos + i] = tail(n)[i]}
      near(n) == {pos \in at(n) : pos < CmpMax}
      ns == {n \in Lengths(nt) : at(n) # {}}
      longer == {n \in ns : n > Min(ns) /\ near(n) # {}}
  IN IF ns = {} THEN NoMatch
     ELSE IF longer = {} THEN [pos |-> Min(at(Min(ns))), len |-> Min(ns)]
     ELSE [pos |-> Min(near(Max(longer))), len |-> Max(longer)]

\* The chunked search ends with the shortest length that matches.  It takes the
\* suffixes from the last max_n tokens, or the first ones of a shorter row.
ChunkedSearch(row, nt) ==
  LET first == Max({nt - MaxN, 0})
      at(n) == Occurrences(row, nt, n, [i \in 0..(n - 1) |-> row[first + MaxN - n + i]])
      ns == {n \in Lengths(nt) : at(n) # {}}
  IN IF ns = {} THEN NoMatch ELSE [pos |-> Min(at(Min(ns))), len |-> Min(ns)]

\* The up to k tokens behind a match; num_valid_draft_tokens ends them at a -1.
Continuation(row, nt, match) ==
  LET start == match.pos + match.len
      holes == {i \in 1..(nt - start) : row[start + i - 1] = NoToken}
  IN IF match = NoMatch THEN << >>
     ELSE [i \in 1..Min({K, nt - start} \cup {h - 1 : h \in holes}) |-> row[start + i - 1]]

\* A request enters with a prompt; what lies behind it in the row does not matter
\* to a search that stays within num_tokens.
NgramInit ==
  /\ path \in Paths
  /\ num_tokens \in 1..MaxN
  /\ \E stale \in StaleTokens, prompt \in [0..(MaxN - 1) -> Vocab] :
       token_ids = [i \in 0..(MaxSeqLen - 1) |->
                      IF i < num_tokens THEN prompt[i] ELSE stale]
  /\ appended = 0
  /\ next_token = token_ids[num_tokens - 1]
  /\ draft = << >>

\* A row of sampled slots.  A slot without a token of the vocabulary may be anywhere.
Sampled == [1..MaxNewTokens -> Vocab \cup {NoToken, VocabSize}]
IsValid(val) == val # NoToken /\ val < VocabSize

\* ComputeOneRow and the loop body of ProcessChunkedRows.
ComputeOneRow(sampled, discard) ==
  LET seq_len == num_tokens
      kept == [j \in DOMAIN sampled |-> IF IsValid(sampled[j]) THEN sampled[j] ELSE NoToken]
      slots == {j \in DOMAIN sampled : IsValid(sampled[j])}
      valid == IF discard THEN 0 ELSE Min({Cardinality(slots), MaxSeqLen - seq_len})
      nt == seq_len + valid
      row == [i \in DOMAIN token_ids |->
                IF i \in seq_len..(nt - 1) THEN kept[i - seq_len + 1] ELSE token_ids[i]]
  IN
  /\ token_ids' = row
  /\ num_tokens' = nt
  /\ appended' = valid
  /\ next_token' = IF valid > 0 THEN kept[valid] ELSE token_ids[seq_len - 1]
  /\ \E garbage \in IF path # "vector" THEN {{}}
                    ELSE SUBSET UNION {Unmasked(nt, n) : n \in MinN..MaxN} :
       LET match == CASE valid = 0 \/ nt < MinN -> NoMatch
                      [] path = "scalar" -> ScalarSearch(row, nt)
                      [] path = "vector" -> VectorSearch(row, nt, garbage)
                      [] path = "chunked" -> ChunkedSearch(row, nt)
       IN draft' = Continuation(row, nt, match)
  /\ UNCHANGED path

NgramNext == \E sampled \in Sampled, discard \in BOOLEAN : ComputeOneRow(sampled, discard)

NgramSpec == NgramInit /\ [][NgramNext]_ngramVars

--------------------------------------------------------------------------------
\* The earlier occurrences of the row's suffixes, in the terms of the row alone.
Matches ==
  LET nt == num_tokens
      tokens == [i \in 1..nt |-> token_ids[i - 1]]
  IN {m \in [pos : 0..(nt - 1), len : MinN..MaxN] :
        /\ m.pos + m.len < nt
        /\ SubSeq(tokens, m.pos + 1, m.pos + m.len) = SubSeq(tokens, nt - m.len + 1, nt)}

\* What may be drafted behind a match: tokens of the row, up to k and up to a -1.
Follows(m) ==
  LET after == {i \in (m.pos + m.len)..(num_tokens - 1) :
                  i < m.pos + m.len + K
                    /\ \A h \in (m.pos + m.len)..i : token_ids[h] # NoToken}
  IN [i \in 1..Cardinality(after) |-> token_ids[m.pos + m.len + i - 1]]

\* After a call that appended tokens, whichever way the kernel searches: the next
\* token is the last of the row, a suffix of the row that occurs earlier leads to
\* a draft, and the draft is what followed such an occurrence, without the -1 of
\* an invalid slot.  Two cases are left out, in which the kernel compares something
\* else: a row shorter than max_n that is searched in chunks, and positions that
\* share the row's last, incomplete lane.
DraftContinuesSuffix ==
  /\ next_token = token_ids[num_tokens - 1]
  /\ \/ appended = 0
     \/ path = "chunked" /\ num_tokens < MaxN
     \/ path = "vector" /\ num_tokens - MinN > (MaxSeqLen \div Lane) * Lane
     \/ Matches = {} /\ draft = << >>
     \/ \E m \in Matches : draft = Follows(m)

\* What the reference of the kernel's test computes (golden_ngram_spec_decode in
\* tests/e2e/nightly/single_node/ops/singlecard_ops/test_ngram_spec_decode.py, which
\* stops at the first suffix length that occurs): the draft follows the first
\* occurrence of the shortest suffix that occurs.
DraftMatchesGolden ==
  appended > 0 /\ Matches # {} =>
    \E m \in Matches :
      /\ \A other \in Matches :
           m.len < other.len \/ (m.len = other.len /\ m.pos <= other.pos)
      /\ draft = Follows(m)
================================================================================
