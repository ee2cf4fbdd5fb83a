--------------------------- MODULE PipelineProofs ---------------------------
(***************************************************************************)
(* Proofs that the staking pallet with session rotation implements the     *)
(* abstract pipeline, that nobody holds two places in one stage, that a    *)
(* registration is dropped only after its bond could be taken back, and    *)
(* that the best of the fit candidates are the ones taken.                 *)
(***************************************************************************)
EXTENDS StakingRefinement, XodeStakingProofs

-----------------------------------------------------------------------------
(* The accounts of a list of candidates, and the fit ones among them.      *)
Members(s) == {c.who : c \in Range(s)}

FitOf(s) == {c.who : c \in {d \in Range(s) : Fit(d)}}

LEMMA FitAreMembers ==
  ASSUME NEW s
  PROVE  FitOf(s) \subseteq Members(s)
BY DEF FitOf, Members

(* Editing entries in place, without touching what makes them fit.         *)
LEMMA SameFit ==
  ASSUME NEW s, NEW t, DOMAIN t = DOMAIN s,
         \A i \in DOMAIN s : t[i].who = s[i].who /\ (Fit(t[i]) <=> Fit(s[i]))
  PROVE  Members(t) = Members(s) /\ FitOf(t) = FitOf(s)
<1>1. \A c \in Range(t) : \E d \in Range(s) : d.who = c.who /\ (Fit(d) <=> Fit(c))
  BY DEF Range
<1>2. \A d \in Range(s) : \E c \in Range(t) : d.who = c.who /\ (Fit(d) <=> Fit(c))
  BY DEF Range
<1> QED  BY <1>1, <1>2 DEF Members, FitOf

LEMMA StatusKeepsFit ==
  ASSUME NEW c \in CandidateInfo, NEW status
  PROVE  /\ WithStatus(c, status).who = c.who
         /\ Fit(WithStatus(c, status)) <=> Fit(c)
BY DEF CandidateInfo, WithStatus, Fit

LEMMA AuthoredKeepsFit ==
  ASSUME NEW c \in CandidateInfo, NEW now
  PROVE  /\ Authored(c, now).who = c.who
         /\ Fit(Authored(c, now)) <=> Fit(c)
BY DEF CandidateInfo, Authored, Fit

-----------------------------------------------------------------------------
(* The waiting list: nobody twice, and no place wasted.                    *)
LEMMA PlacesLemma ==
  ASSUME NEW s \in Seq(CandidateInfo), UniqueWho(s)
  PROVE  /\ UniqueWho(Chosen(s))
         /\ \/ Len(DesiredCandidates) + Len(Chosen(s)) = MaxCandidates
            \/ \A c \in Range(s) : Fit(c) /\ c.who \notin Desired => c \in Range(Chosen(s))
<1> DEFINE F == {i \in DOMAIN s : Fit(s[i]) /\ s[i].who \notin Desired}
           fit == Retain(s, F)
           room == MaxCandidates - Len(DesiredCandidates)
           n == MinOf(Len(fit), room)
<1> HIDE DEF F
<1>1. F \in SUBSET DOMAIN s
  BY DEF F
<1>2. /\ fit \in Seq(CandidateInfo)
      /\ Range(fit) = {s[i] : i \in F}
      /\ \E p \in Injection(DOMAIN fit, F) : \A k \in DOMAIN fit : fit[k] = s[p[k]]
  BY <1>1, RetainLemma
<1>3. UniqueWho(fit)
  BY <1>1, <1>2, UniqueFromInjection, Zenon
<1> HIDE DEF fit
<1>4. Len(fit) \in Nat /\ DOMAIN fit = 1 .. Len(fit) /\ \A i \in 1 .. Len(fit) : fit[i] \in CandidateInfo
  BY <1>2, LenProperties
<1>5. room \in Nat /\ Len(DesiredCandidates) \in Nat
  BY DesiredAssumption, ConfigAssumption, LenProperties
<1>6. n \in Nat /\ n <= Len(fit) /\ (n = room \/ n = Len(fit))
  BY <1>4, <1>5 DEF MinOf
<1>7. Chosen(s) = SubSeq(fit, 1, n)
  BY DEF Chosen, F, fit
<1> HIDE DEF n
<1>8. /\ Len(Chosen(s)) = n
      /\ DOMAIN Chosen(s) = 1 .. n
      /\ \A i \in 1 .. n : Chosen(s)[i] = fit[i]
  <2>1. /\ SubSeq(fit, 1, n) \in Seq(CandidateInfo)
        /\ Len(SubSeq(fit, 1, n)) = IF 1 <= n THEN n - 1 + 1 ELSE 0
        /\ \A i \in 1 .. n - 1 + 1 : SubSeq(fit, 1, n)[i] = fit[1 + i - 1]
    BY <1>4, <1>6, SubSeqProperties
  <2>2. Len(Chosen(s)) = n /\ \A i \in 1 .. n : Chosen(s)[i] = fit[i]
    BY <1>6, <1>7, <2>1
  <2>3. DOMAIN Chosen(s) = 1 .. Len(Chosen(s))
    BY <1>7, <2>1, LenProperties
  <2> QED  BY <2>2, <2>3
<1>9. UniqueWho(Chosen(s))
  <2>0. Len(fit) \in Nat /\ n \in Nat /\ n <= Len(fit)
    BY <1>4, <1>6
  <2>1. \A i \in 1 .. n : i \in 1 .. Len(fit)
    BY <2>0
  <2>2. \A i \in 1 .. n : i \in DOMAIN fit
    BY <1>4, <2>1, Zenon
  <2> QED  BY <1>3, <1>8, <2>2 DEF UniqueWho
<1>10. CASE n = room
  <2>1. Len(DesiredCandidates) + n = MaxCandidates
    BY <1>5, <1>10, ConfigAssumption
  <2> QED  BY <1>8, <1>9, <2>1
<1>11. CASE n = Len(fit)
  <2>1. Range(fit) \subseteq Range(Chosen(s))
    BY <1>4, <1>8, <1>11 DEF Range
  <2>2. \A c \in Range(s) : Fit(c) /\ c.who \notin Desired => c \in Range(fit)
    BY <1>2 DEF Range, F
  <2> QED  BY <1>9, <2>1, <2>2
<1> QED  BY <1>6, <1>9, <1>10, <1>11

(* The waiting list has as many places as accounts.                        *)
LEMMA WaitingLemma ==
  ASSUME NEW s \in Seq(CandidateInfo), UniqueWho(s)
  PROVE  /\ IsInjective(refresh_waiting_list(s))
         /\ Len(refresh_waiting_list(s)) = Len(DesiredCandidates) + Len(Chosen(s))
<1> DEFINE ch == Chosen(s)
           names == [k \in DOMAIN ch |-> ch[k].who]
           w == DesiredCandidates \o names
           n == Len(DesiredCandidates)
<1>1. ch \in Seq(CandidateInfo) /\ UniqueWho(ch) /\ \A c \in Range(ch) : c.who \notin Desired
  BY ChosenLemma, PlacesLemma
<1> HIDE DEF ch
<1>2. Len(ch) \in Nat /\ DOMAIN ch = 1 .. Len(ch) /\ \A k \in DOMAIN ch : ch[k].who \in Accounts
  <2>1. Len(ch) \in Nat /\ DOMAIN ch = 1 .. Len(ch) /\ \A k \in DOMAIN ch : ch[k] \in CandidateInfo
    BY <1>1, LenProperties
  <2>2. \A c \in CandidateInfo : c.who \in Accounts
    BY DEF CandidateInfo
  <2> QED  BY <2>1, <2>2
<1>3. names \in [1 .. Len(ch) -> Accounts]
  BY <1>2
<1>4. names \in Seq(Accounts) /\ Len(names) = Len(ch)
  BY <1>2, <1>3
<1>5. \A k \in 1 .. Len(ch) : names[k] = ch[k].who
  BY <1>2
<1> HIDE DEF names
<1>6. DesiredCandidates \in Seq(Accounts) /\ n \in Nat /\ DOMAIN DesiredCandidates = 1 .. n
  BY DesiredAssumption, LenProperties
<1>7. /\ w \in Seq(Accounts)
      /\ Len(w) = n + Len(names)
      /\ \A i \in 1 .. n + Len(names) :
           w[i] = IF i <= n THEN DesiredCandidates[i] ELSE names[i - n]
  BY <1>4, <1>6, ConcatProperties
<1> HIDE DEF w
<1>8. DOMAIN w = 1 .. n + Len(ch)
  BY <1>4, <1>7, LenProperties
<1>9. \A i \in 1 .. n : w[i] = DesiredCandidates[i] /\ w[i] \in Desired
  BY <1>2, <1>4, <1>6, <1>7 DEF Desired, Range
<1> HIDE DEF n
<1>10. \A i \in n + 1 .. n + Len(ch) : i - n \in 1 .. Len(ch) /\ w[i] = ch[i - n].who
  <2> TAKE i \in n + 1 .. n + Len(ch)
  <2>1. i \in 1 .. n + Len(ch) /\ ~(i <= n) /\ i - n \in 1 .. Len(ch)
    BY <1>2, <1>6
  <2>2. w[i] = names[i - n]
    BY <1>4, <1>7, <2>1
  <2> QED  BY <1>5, <2>1, <2>2
<1>11. \A i \in n + 1 .. n + Len(ch) : w[i] \notin Desired
  BY <1>1, <1>2, <1>10 DEF Range
<1>12. ASSUME NEW i \in DOMAIN w, NEW j \in DOMAIN w, w[i] = w[j]
       PROVE  i = j
  <2>1. CASE i \in 1 .. n /\ j \in 1 .. n
    <3>1. DesiredCandidates[i] = DesiredCandidates[j]
      BY <1>9, <1>12, <2>1
    <3> QED  BY <1>6, <2>1, <3>1, DesiredAssumption DEF IsInjective, n
  <2>2. CASE i \in n + 1 .. n + Len(ch) /\ j \in n + 1 .. n + Len(ch)
    <3>1. i - n \in DOMAIN ch /\ j - n \in DOMAIN ch /\ ch[i - n].who = ch[j - n].who
      BY <1>2, <1>10, <1>12, <2>2
    <3>2. i - n = j - n
      BY <1>1, <3>1 DEF UniqueWho
    <3> QED  BY <1>2, <1>6, <2>2, <3>2
  <2>3. ~(i \in 1 .. n /\ j \in n + 1 .. n + Len(ch)) /\ ~(j \in 1 .. n /\ i \in n + 1 .. n + Len(ch))
    BY <1>9, <1>11, <1>12
  <2> QED  BY <1>2, <1>6, <1>8, <2>1, <2>2, <2>3
<1> QED  BY <1>4, <1>7, <1>12 DEF IsInjective, refresh_waiting_list, w, names, ch, n

(* A list without duplicates has as many accounts as places.               *)
LEMMA InjectiveCardinality ==
  ASSUME NEW v \in Seq(Accounts), IsInjective(v)
  PROVE  Cardinality(Range(v)) = Len(v)
<1>1. Len(v) \in Nat /\ DOMAIN v = 1 .. Len(v) /\ v \in [1 .. Len(v) -> Accounts]
  BY LenProperties
<1>2. v \in [1 .. Len(v) -> Range(v)]
  BY <1>1 DEF Range
<1>3. v \in Bijection(1 .. Len(v), Range(v))
  BY <1>1, <1>2 DEF Bijection, Injection, Surjection, IsInjective, Range
<1>4. IsFiniteSet(1 .. Len(v)) /\ Cardinality(1 .. Len(v)) = Len(v)
  <2>1. 1 \in Int /\ Len(v) \in Int
    BY <1>1
  <2>2. Cardinality(1 .. Len(v)) = IF 1 > Len(v) THEN 0 ELSE Len(v) - 1 + 1
    BY <2>1, FS_Interval
  <2>3. IsFiniteSet(1 .. Len(v))
    BY <2>1, FS_Interval
  <2> QED  BY <1>1, <2>2, <2>3
<1>5. IsFiniteSet(Range(v)) /\ Cardinality(Range(v)) = Cardinality(1 .. Len(v))
  BY <1>3, <1>4, FS_Bijection, Zenon DEF ExistsBijection
<1> QED  BY <1>4, <1>5

(* A part of a list without duplicates has none.                           *)
LEMMA KeysInjective ==
  ASSUME NEW v \in Seq(Accounts), IsInjective(v)
  PROVE  IsInjective(HasKeys(v))
<1> DEFINE K == {i \in DOMAIN v : v[i] \in NextKeys}
           k == Retain(v, K)
<1>1. K \in SUBSET DOMAIN v
  OBVIOUS
<1> HIDE DEF K
<1>2. \E p \in Injection(DOMAIN k, K) : \A j \in DOMAIN k : k[j] = v[p[j]]
  BY <1>1, RetainLemma
<1>3. PICK p \in Injection(DOMAIN k, K) : \A j \in DOMAIN k : k[j] = v[p[j]]
  BY <1>2
<1> HIDE DEF k
<1>4. IsInjective(k)
  BY <1>1, <1>3 DEF IsInjective, Injection
<1> QED  BY <1>4 DEF HasKeys, K, k

-----------------------------------------------------------------------------
(* What each step of a session change does to who is registered and fit.   *)

LEMMA UniqueEntry ==
  ASSUME NEW s, UniqueWho(s), NEW c \in Range(s), NEW d \in Range(s), c.who = d.who
  PROVE  c = d
BY DEF Range, UniqueWho

LEMMA RecordFit ==
  ASSUME NEW s, CandidatesOK(s), NEW authors, NEW now
  PROVE  LET t == record_authored_block(s, authors, now)
         IN  Members(t) = Members(s) /\ FitOf(t) = FitOf(s)
<1> DEFINE t == record_authored_block(s, authors, now)
<1>1. /\ DOMAIN t = DOMAIN s
      /\ \A i \in DOMAIN s :
           t[i] = IF s[i].who \in authors THEN Authored(s[i], now) ELSE s[i]
  BY DEF record_authored_block
<1> HIDE DEF t
<1>2. \A i \in DOMAIN s : t[i].who = s[i].who /\ (Fit(t[i]) <=> Fit(s[i]))
  BY <1>1, AuthoredKeepsFit DEF CandidatesOK
<1>3. Members(t) = Members(s) /\ FitOf(t) = FitOf(s)
  BY <1>1, <1>2, SameFit
<1> QED  BY <1>3 DEF t

(* A validator that is not desired is too far along to be dropped.         *)
ValidatorsSafe(s) ==
  \A c \in Range(s) : c.who \in Range(Validators) \ Desired => c.status \in {"Queuing", "Authoring"}

LEMMA QueueFit ==
  ASSUME NEW s, CandidatesOK(s), ValidatorsSafe(s), NEW waiting
  PROVE  LET t == queue_authors(s, waiting)
         IN  Members(t) = Members(s) /\ FitOf(t) = FitOf(s) /\ ValidatorsSafe(t)
<1> DEFINE t == queue_authors(s, waiting)
<1>1. /\ DOMAIN t = DOMAIN s
      /\ \A i \in DOMAIN s :
           \/ t[i] = s[i]
           \/ s[i].status = "Waiting" /\ t[i] = WithStatus(s[i], "Queuing")
  BY DEF queue_authors
<1> HIDE DEF t
<1>2. \A i \in DOMAIN s : s[i] \in CandidateInfo /\ s[i] \in Range(s)
  BY DEF CandidatesOK, Range
<1>3. \A i \in DOMAIN s : t[i].who = s[i].who /\ (Fit(t[i]) <=> Fit(s[i]))
  BY <1>1, <1>2, StatusKeepsFit
<1>4. Members(t) = Members(s) /\ FitOf(t) = FitOf(s)
  BY <1>1, <1>3, SameFit
<1>5. "Queuing" \in Status
  BY DEF Status
<1>6. \A i \in DOMAIN s : t[i].status \in {s[i].status, "Queuing"}
  BY <1>1, <1>2, <1>5, StatusEdits
<1>7. ValidatorsSafe(t)
  <2> SUFFICES ASSUME NEW d \in Range(t), d.who \in Range(Validators) \ Desired
               PROVE  d.status \in {"Queuing", "Authoring"}
    BY DEF ValidatorsSafe
  <2>1. PICK i \in DOMAIN s : d = t[i]
    BY <1>1 DEF Range
  <2> QED  BY <1>2, <1>3, <1>6, <2>1 DEF ValidatorsSafe
<1> QED  BY <1>4, <1>7 DEF t

(* slash_stale_authors makes validators unfit, but nobody desired.         *)
LEMMA SlashFit ==
  ASSUME NEW s, CandidatesOK(s), ValidatorsSafe(s), NEW authors, NEW now \in Nat
  PROVE  LET u == slash_stale_authors(s, authors, now)
         IN  /\ Members(u) = Members(s)
             /\ FitOf(u) \subseteq FitOf(s)
             /\ FitOf(s) \ FitOf(u) \subseteq Range(Validators) \ Desired
             /\ ValidatorsSafe(u)
<1> DEFINE t == MarkStale(s, authors, now)
           Ends(u) == /\ Members(u) = Members(s)
                      /\ FitOf(u) \subseteq FitOf(s)
                      /\ FitOf(s) \ FitOf(u) \subseteq Range(Validators) \ Desired
                      /\ ValidatorsSafe(u)
<1>1. /\ t = [i \in DOMAIN s |-> t[i]]
      /\ DOMAIN t = DOMAIN s
      /\ \A i \in DOMAIN s :
           t[i] = IF IsStale(s[i], authors, now) THEN TakenOffline(s[i], now) ELSE s[i]
  BY DEF MarkStale
<1> HIDE DEF t
<1>2. \A i \in DOMAIN s : s[i] \in CandidateInfo /\ s[i] \in Range(s)
  BY DEF CandidatesOK, Range
<1>3. \A i \in DOMAIN s : /\ t[i] \in CandidateInfo
                          /\ t[i].who = s[i].who
                          /\ t[i].status = s[i].status
  BY <1>1, <1>2, TimeEdits
<1>4. \A i \in DOMAIN s : ~Fit(TakenOffline(s[i], now))
  BY <1>2 DEF Fit, TakenOffline, CandidateInfo
<1>5. \A i \in DOMAIN s : /\ Fit(t[i]) => Fit(s[i])
                          /\ s[i].who \notin Range(Validators) \ Desired => t[i] = s[i]
  BY <1>1, <1>4 DEF IsStale
<1>6. Members(t) = Members(s)
  BY <1>1, <1>3 DEF Members, Range
<1>7. FitOf(t) \subseteq FitOf(s)
  BY <1>1, <1>3, <1>5 DEF FitOf, Range
<1>8. FitOf(s) \ FitOf(t) \subseteq Range(Validators) \ Desired
  <2> SUFFICES ASSUME NEW i \in DOMAIN s, Fit(s[i]), s[i].who \notin Range(Validators) \ Desired
               PROVE  s[i].who \in FitOf(t)
    BY DEF FitOf, Range
  <2>1. t[i] = s[i] /\ t[i] \in Range(t)
    BY <1>1, <1>5 DEF Range
  <2> QED  BY <2>1 DEF FitOf
<1>9. ValidatorsSafe(t)
  <2> SUFFICES ASSUME NEW i \in DOMAIN s, t[i].who \in Range(Validators) \ Desired
               PROVE  t[i].status \in {"Queuing", "Authoring"}
    BY <1>1 DEF ValidatorsSafe, Range
  <2> QED  BY <1>2, <1>3 DEF ValidatorsSafe
<1>10. t \in Seq(CandidateInfo)
  BY <1>1, <1>3, MapLemma DEF CandidatesOK
<1>11. Range(sort_proposed_candidates(t)) = Range(t)
  BY <1>10, SortLemma
<1>12. Ends(sort_proposed_candidates(t))
  BY <1>6, <1>7, <1>8, <1>9, <1>11 DEF Members, FitOf, ValidatorsSafe
<1>13. Ends(s)
  OBVIOUS
<1>14. slash_stale_authors(s, authors, now) \in {s, sort_proposed_candidates(t)}
  BY DEF slash_stale_authors, t
<1> HIDE DEF Ends
<1>15. Ends(slash_stale_authors(s, authors, now))
  BY <1>12, <1>13, <1>14
<1> QED  BY <1>15 DEF Ends

(* prepare_next_waiting_list drops only unfit candidates with a low status. *)
LEMMA PrepareFit ==
  ASSUME NEW s, CandidatesOK(s)
  PROVE  LET t == prepare_next_waiting_list(s)
         IN  /\ Members(t) \subseteq Members(s)
             /\ FitOf(t) = FitOf(s)
             /\ \A c \in Range(s) : c.who \notin Members(t) => ~Kept(c)
<1> DEFINE K == {i \in DOMAIN s : Kept(s[i])}
           k == Retain(s, K)
           t == [i \in DOMAIN k |-> Downgraded(k[i])]
<1>1. DOMAIN t = DOMAIN k /\ \A i \in DOMAIN k : t[i] = Downgraded(k[i])
  OBVIOUS
<1> HIDE DEF t, k, K
<1>2. K \in SUBSET DOMAIN s /\ s \in Seq(CandidateInfo)
  BY DEF K, CandidatesOK
<1>3. k \in Seq(CandidateInfo) /\ Range(k) = {s[i] : i \in K}
  BY <1>2, RetainLemma DEF k
<1>4. \A c : c \in Range(k) <=> c \in Range(s) /\ Kept(c)
  BY <1>3 DEF Range, K
<1>5. \A i \in DOMAIN k : k[i] \in CandidateInfo
  BY <1>3, LenProperties
<1>6. \A i \in DOMAIN k : t[i].who = k[i].who /\ (Fit(t[i]) <=> Fit(k[i]))
  BY <1>1, <1>5, StatusKeepsFit DEF Downgraded
<1>7. Members(t) = Members(k) /\ FitOf(t) = FitOf(k)
  BY <1>1, <1>6, SameFit
<1>8. Members(k) \subseteq Members(s) /\ FitOf(k) = FitOf(s)
  BY <1>4 DEF Members, FitOf, Kept
<1>9. \A c \in Range(s) : Kept(c) => c.who \in Members(k)
  BY <1>4 DEF Members
<1>10. t = prepare_next_waiting_list(s)
  BY DEF prepare_next_waiting_list, t, k, K
<1> QED  BY <1>7, <1>8, <1>9, <1>10

(* The rest of the session change only sets statuses.                      *)
LEMMA NewSessionFit ==
  ASSUME NEW s, CandidatesOK(s), NEW inv
  PROVE  LET t == new_session(MarkWaiting(s), inv)
         IN  Members(t) = Members(s) /\ FitOf(t) = FitOf(s)
<1> DEFINE m == MarkWaiting(s)
           t == new_session(m, inv)
<1>1. /\ DOMAIN m = DOMAIN s
      /\ \A i \in DOMAIN s : m[i] \in {s[i], WithStatus(s[i], "Waiting")}
  BY DEF MarkWaiting
<1>2. /\ DOMAIN t = DOMAIN m
      /\ \A i \in DOMAIN m : t[i] \in {m[i], WithStatus(m[i], "Authoring")}
  BY DEF new_session
<1> HIDE DEF m, t
<1>3. "Waiting" \in Status /\ \A i \in DOMAIN s : s[i] \in CandidateInfo
  BY DEF Status, CandidatesOK
<1>4. \A i \in DOMAIN s : /\ m[i].who = s[i].who
                          /\ Fit(m[i]) <=> Fit(s[i])
                          /\ m[i] \in CandidateInfo
  BY <1>1, <1>3, StatusKeepsFit, StatusEdits
<1>5. \A i \in DOMAIN m : t[i].who = m[i].who /\ (Fit(t[i]) <=> Fit(m[i]))
  BY <1>1, <1>2, <1>4, StatusKeepsFit
<1>6. Members(m) = Members(s) /\ FitOf(m) = FitOf(s)
  BY <1>1, <1>4, SameFit
<1>7. Members(t) = Members(m) /\ FitOf(t) = FitOf(m)
  BY <1>2, <1>5, SameFit
<1> QED  BY <1>6, <1>7 DEF t, m

-----------------------------------------------------------------------------
(* A session change as a whole.                                            *)
LEMMA SessionChange ==
  ASSUME IndInv, NEW authors \in BlockAuthors, SessionBlock(authors)
  PROVE  /\ Abstract!Slash
         /\ Abstract!Advance
         /\ Abstract!Enter
         /\ RegisteredAccounts' \subseteq RegisteredAccounts
         /\ \A c \in Range(ProposedCandidates) : c.who \notin RegisteredAccounts' =>
              c.who \notin FitAccounts /\ (c.who \in Desired \/ OutOfPipeline(c.who))
         /\ IsInjective(WaitingCandidates')
<1> DEFINE now == block_number + 1
           W == Range(WaitingCandidates)
           I == Range(Invulnerables)
           Q == Range(QueuedKeys)
           V == Range(Validators)
           a == ProposedCandidates
           r == record_authored_block(a, authors, now)
           q == queue_authors(r, WaitingCandidates)
           s == slash_stale_authors(q, add_actual_author(authors), now)
           p == prepare_next_waiting_list(s)
           t == new_session(MarkWaiting(p), WaitingCandidates)
<1>1. now \in Nat /\ OtherTypes /\ StageInv(a, W, I, Q, V)
  BY SplitIndInv, Typing DEF ListInv
<1>2. StageInv(r, W, I, Q, V)
  BY <1>1, RecordStage
<1>3. QueuedInv(q, W, I)
  BY <1>2, QueueLemma
<1>4. QueuedInv(s, W, I)
  BY <1>1, <1>3, SlashLemma
<1>5. PreparedInv(p, W, I)
  BY <1>4, PrepareLemma
<1>6. CandidatesOK(a) /\ CandidatesOK(r) /\ CandidatesOK(q) /\ CandidatesOK(s) /\ CandidatesOK(p)
  BY <1>1, <1>2, <1>3, <1>4, <1>5, StageParts DEF QueuedInv, PreparedInv
<1>7. ValidatorsSafe(r)
  BY <1>2, StageParts DEF ValidatorsSafe
<1>8. Members(r) = Members(a) /\ FitOf(r) = FitOf(a)
  BY <1>6, RecordFit
<1>9. Members(q) = Members(r) /\ FitOf(q) = FitOf(r) /\ ValidatorsSafe(q)
  BY <1>6, <1>7, QueueFit
<1>10. /\ Members(s) = Members(q)
       /\ FitOf(s) \subseteq FitOf(q)
       /\ FitOf(q) \ FitOf(s) \subseteq V \ Desired
       /\ ValidatorsSafe(s)
  BY <1>1, <1>6, <1>9, SlashFit
<1>11. /\ Members(p) \subseteq Members(s)
       /\ FitOf(p) = FitOf(s)
       /\ \A c \in Range(s) : c.who \notin Members(p) => ~Kept(c)
  BY <1>6, PrepareFit
<1>12. Members(t) = Members(p) /\ FitOf(t) = FitOf(p)
  BY <1>6, NewSessionFit
<1>13. NextInvulnerables = WaitingCandidates
  <2>1. DesiredCandidates[1] \in Desired
    BY DesiredAssumption, LenProperties DEF Desired, Range
  <2>2. WaitingCandidates # <<>>
    BY <1>1, <2>1 DEF Range, StageInv
  <2> QED  BY <2>2 DEF NextInvulnerables
<1>14. /\ WaitingCandidates' = refresh_waiting_list(p)
       /\ ProposedCandidates' = t
       /\ Invulnerables' = WaitingCandidates
       /\ Validators' = QueuedKeys
       /\ QueuedKeys' = HasKeys(WaitingCandidates)
  BY <1>13 DEF SessionBlock, Prepared
<1> HIDE DEF t, p, s, q, r
<1>15. /\ RegisteredAccounts = Members(a) /\ FitAccounts = FitOf(a)
       /\ RegisteredAccounts' = Members(t) /\ FitAccounts' = FitOf(t)
  BY <1>14 DEF RegisteredAccounts, FitAccounts, Members, FitOf
<1>16. FitAccounts' \subseteq FitAccounts /\ FitAccounts \ FitAccounts' \subseteq V \ Desired
  BY <1>8, <1>9, <1>10, <1>11, <1>12, <1>15
<1>17. Abstract!Slash
  BY <1>16 DEF Abstract!Slash
<1>18. Abstract!Advance
  <2>1. Range(HasKeys(WaitingCandidates)) \subseteq W
    BY <1>1, HasKeysLemma DEF OtherTypes
  <2> QED  BY <1>14, <2>1 DEF Abstract!Advance
<1>19. /\ IsInjective(WaitingCandidates')
       /\ WaitingCandidates' \in Seq(Accounts)
       /\ Len(WaitingCandidates') <= MaxCandidates
       /\ Len(WaitingCandidates') = Len(DesiredCandidates) + Len(Chosen(p))
       /\ Range(WaitingCandidates') = Desired \union Members(Chosen(p))
  BY <1>6, <1>14, RefreshLemma, WaitingLemma DEF CandidatesOK, Members
<1>20. Cardinality(Range(WaitingCandidates')) = Len(WaitingCandidates')
  BY <1>19, InjectiveCardinality
<1>21. Abstract!Enter
  <2> DEFINE picks == Members(Chosen(p))
  <2>1. \A c \in Range(Chosen(p)) : c \in Range(p) /\ Fit(c) /\ c.who \notin Desired
    BY <1>6, ChosenLemma DEF CandidatesOK
  <2>2. picks \in SUBSET (FitAccounts' \ Desired)
    BY <1>12, <1>15, <2>1 DEF Members, FitOf
  <2>3. \/ Len(DesiredCandidates) + Len(Chosen(p)) = MaxCandidates
        \/ \A c \in Range(p) : Fit(c) /\ c.who \notin Desired => c \in Range(Chosen(p))
    BY <1>6, PlacesLemma DEF CandidatesOK
  <2>4. picks = FitAccounts' \ Desired \/ Cardinality(Range(WaitingCandidates')) = MaxCandidates
    <3>1. CASE Len(DesiredCandidates) + Len(Chosen(p)) = MaxCandidates
      BY <1>19, <1>20, <3>1
    <3>2. CASE \A c \in Range(p) : Fit(c) /\ c.who \notin Desired => c \in Range(Chosen(p))
      <4>1. FitAccounts' \ Desired \subseteq picks
        BY <1>12, <1>15, <3>2 DEF Members, FitOf
      <4> QED  BY <2>2, <4>1
    <3> QED  BY <2>3, <3>1, <3>2
  <2>5. Cardinality(Range(WaitingCandidates')) <= MaxCandidates
    BY <1>19, <1>20
  <2>6. Range(WaitingCandidates)' = Desired \union picks
    BY <1>19
  <2> HIDE DEF picks
  <2>7. Abstract!Cardinality(Range(WaitingCandidates)') = Cardinality(Range(WaitingCandidates)')
    BY Zenon DEF Abstract!Cardinality, Cardinality
  <2> QED  BY <2>2, <2>4, <2>5, <2>6, <2>7 DEF Abstract!Enter
<1>22. RegisteredAccounts' \subseteq RegisteredAccounts
  BY <1>8, <1>9, <1>10, <1>11, <1>12, <1>15
<1>23. ASSUME NEW c \in Range(a), c.who \notin RegisteredAccounts'
       PROVE  c.who \notin FitAccounts /\ (c.who \in Desired \/ OutOfPipeline(c.who))
  <2>1. c.who \in Members(s) /\ c.who \notin Members(p)
    BY <1>8, <1>9, <1>10, <1>12, <1>15, <1>23 DEF Members
  <2>2. PICK d \in Range(s) : d.who = c.who
    BY <2>1 DEF Members
  <2>3. ~Kept(d)
    BY <1>11, <2>1, <2>2
  <2>4. ~Fit(d) /\ d.status \notin {"Queuing", "Authoring"}
    BY <2>3 DEF Kept
  <2>5. c.who \notin V \ Desired
    BY <1>10, <2>2, <2>4 DEF ValidatorsSafe
  <2>6. c.who \in Desired \/ OutOfPipeline(c.who)
    BY <1>4, <2>2, <2>4, <2>5 DEF QueuedInv, OutOfPipeline
  <2>7. c.who \notin FitOf(s)
    <3> SUFFICES ASSUME NEW e \in Range(s), Fit(e), e.who = c.who
                 PROVE  FALSE
      BY DEF FitOf
    <3>1. e = d
      BY <1>6, <2>2, UniqueEntry DEF CandidatesOK
    <3> QED  BY <2>4, <3>1
  <2>8. c.who \notin FitAccounts
    BY <1>8, <1>9, <1>10, <1>15, <2>5, <2>7
  <2> QED  BY <2>6, <2>8
<1> QED  BY <1>17, <1>18, <1>19, <1>21, <1>22, <1>23

-----------------------------------------------------------------------------
(* What a block does to the entries of the candidates.                     *)

(* The same account with the same bond, stake and authorship.              *)
SameEntry(c, d) ==
  /\ c.who = d.who /\ c.bond = d.bond /\ c.leaving = d.leaving
  /\ c.total_stake = d.total_stake /\ c.last_authored = d.last_authored

(* s and t differ in statuses only.                                        *)
SamePlaces(t, s) ==
  /\ DOMAIN t = DOMAIN s
  /\ \A i \in DOMAIN s : SameEntry(t[i], s[i]) /\ t[i].offline = s[i].offline

(* Every entry of t is one of s, statuses aside.                           *)
Descends(t, s) == \A c \in Range(t) : \E d \in Range(s) : SameEntry(c, d) /\ c.offline = d.offline

LEMMA DescendsInPlace ==
  ASSUME NEW s, NEW t, SamePlaces(t, s)
  PROVE  Descends(t, s)
BY DEF Descends, Range, SamePlaces

LEMMA DescendsThrough ==
  ASSUME NEW s, NEW t, NEW u, Descends(t, s), Descends(u, t)
  PROVE  Descends(u, s)
BY DEF Descends, SameEntry

LEMMA StatusKeepsEntry ==
  ASSUME NEW c \in CandidateInfo, NEW status
  PROVE  SameEntry(WithStatus(c, status), c) /\ WithStatus(c, status).offline = c.offline
BY DEF CandidateInfo, WithStatus, SameEntry

LEMMA QueueInPlace ==
  ASSUME NEW s, CandidatesOK(s), NEW waiting
  PROVE  SamePlaces(queue_authors(s, waiting), s)
<1> DEFINE t == queue_authors(s, waiting)
<1>1. /\ DOMAIN t = DOMAIN s
      /\ \A i \in DOMAIN s : t[i] \in {s[i], WithStatus(s[i], "Queuing")}
  BY DEF queue_authors
<1> HIDE DEF t
<1>2. \A i \in DOMAIN s : SameEntry(t[i], s[i]) /\ t[i].offline = s[i].offline
  BY <1>1, StatusKeepsEntry DEF CandidatesOK, SameEntry
<1>3. SamePlaces(t, s)
  BY <1>1, <1>2 DEF SamePlaces
<1> QED  BY <1>3 DEF t

(* slash_stale_authors takes offline exactly the stale.                    *)
SlashedFrom(t, s, authors, now) ==
  \A c \in Range(t) : \E d \in Range(s) :
    SameEntry(c, d) /\ (c.offline <=> d.offline \/ IsStale(d, authors, now))

LEMMA SlashEntries ==
  ASSUME NEW s, CandidatesOK(s), NEW authors, NEW now \in Nat
  PROVE  SlashedFrom(slash_stale_authors(s, authors, now), s, authors, now)
<1> DEFINE t == MarkStale(s, authors, now)
<1>1. /\ t = [i \in DOMAIN s |-> t[i]]
      /\ DOMAIN t = DOMAIN s
      /\ \A i \in DOMAIN s :
           t[i] = IF IsStale(s[i], authors, now) THEN TakenOffline(s[i], now) ELSE s[i]
  BY DEF MarkStale
<1> HIDE DEF t
<1>2. \A i \in DOMAIN s : s[i] \in CandidateInfo
  BY DEF CandidatesOK
<1>3. \A i \in DOMAIN s : t[i] \in CandidateInfo /\ t[i].who = s[i].who
  BY <1>1, <1>2, TimeEdits
<1>4. \A c \in CandidateInfo : SameEntry(TakenOffline(c, now), c) /\ TakenOffline(c, now).offline
  BY DEF CandidateInfo, TakenOffline, SameEntry
<1>5. \A i \in DOMAIN s : /\ SameEntry(t[i], s[i])
                          /\ t[i].offline <=> s[i].offline \/ IsStale(s[i], authors, now)
  <2> TAKE i \in DOMAIN s
  <2>1. CASE IsStale(s[i], authors, now)
    BY <1>1, <1>2, <1>4, <2>1
  <2>2. CASE ~IsStale(s[i], authors, now)
    BY <1>1, <2>2 DEF SameEntry
  <2> QED  BY <2>1, <2>2
<1>6. t \in Seq(CandidateInfo)
  BY <1>1, <1>3, MapLemma DEF CandidatesOK
<1>7. Range(sort_proposed_candidates(t)) = Range(t)
  BY <1>6, SortLemma
<1>8. SlashedFrom(sort_proposed_candidates(t), s, authors, now)
  BY <1>1, <1>5, <1>7 DEF SlashedFrom, Range
<1>9. CASE \E c \in Range(s) : IsStale(c, authors, now)
  BY <1>8, <1>9 DEF slash_stale_authors, t
<1>10. CASE ~\E c \in Range(s) : IsStale(c, authors, now)
  <2>1. SlashedFrom(s, s, authors, now)
    BY <1>10 DEF SlashedFrom, SameEntry
  <2>2. slash_stale_authors(s, authors, now) = s
    BY <1>10 DEF slash_stale_authors
  <2> QED  BY <2>1, <2>2
<1> QED  BY <1>9, <1>10

LEMMA PrepareInPlace ==
  ASSUME NEW s, CandidatesOK(s)
  PROVE  LET k == Retain(s, {i \in DOMAIN s : Kept(s[i])})
         IN  SamePlaces(prepare_next_waiting_list(s), k) /\ Descends(k, s)
<1> DEFINE K == {i \in DOMAIN s : Kept(s[i])}
           k == Retain(s, K)
           t == [i \in DOMAIN k |-> Downgraded(k[i])]
<1>1. DOMAIN t = DOMAIN k /\ \A i \in DOMAIN k : t[i] = Downgraded(k[i])
  OBVIOUS
<1> HIDE DEF t, k, K
<1>2. K \in SUBSET DOMAIN s /\ s \in Seq(CandidateInfo)
  BY DEF K, CandidatesOK
<1>3. k \in Seq(CandidateInfo) /\ Range(k) = {s[i] : i \in K}
  BY <1>2, RetainLemma DEF k
<1>4. Descends(k, s)
  BY <1>2, <1>3 DEF Descends, Range, SameEntry
<1>5. \A i \in DOMAIN k : k[i] \in CandidateInfo
  BY <1>3, LenProperties
<1>6. \A i \in DOMAIN k : SameEntry(t[i], k[i]) /\ t[i].offline = k[i].offline
  <2>1. \A c \in CandidateInfo : SameEntry(Downgraded(c), c) /\ Downgraded(c).offline = c.offline
    BY StatusKeepsEntry DEF Downgraded, SameEntry
  <2> QED  BY <1>1, <1>5, <2>1
<1>7. SamePlaces(t, k)
  BY <1>1, <1>6 DEF SamePlaces
<1>8. t = prepare_next_waiting_list(s)
  BY DEF prepare_next_waiting_list, t, k, K
<1> QED  BY <1>4, <1>7, <1>8 DEF k, K

LEMMA NewSessionInPlace ==
  ASSUME NEW s, CandidatesOK(s), NEW inv
  PROVE  SamePlaces(new_session(MarkWaiting(s), inv), s)
<1> DEFINE m == MarkWaiting(s)
           t == new_session(m, inv)
<1>1. /\ DOMAIN m = DOMAIN s
      /\ \A i \in DOMAIN s : m[i] \in {s[i], WithStatus(s[i], "Waiting")}
  BY DEF MarkWaiting
<1>2. /\ DOMAIN t = DOMAIN m
      /\ \A i \in DOMAIN m : t[i] \in {m[i], WithStatus(m[i], "Authoring")}
  BY DEF new_session
<1> HIDE DEF m, t
<1>3. "Waiting" \in Status /\ \A i \in DOMAIN s : s[i] \in CandidateInfo
  BY DEF Status, CandidatesOK
<1>4. \A i \in DOMAIN s : m[i] \in CandidateInfo
  BY <1>1, <1>3, StatusEdits
<1>5. \A i \in DOMAIN s : SameEntry(m[i], s[i]) /\ m[i].offline = s[i].offline
  BY <1>1, <1>3, StatusKeepsEntry DEF SameEntry
<1>6. \A i \in DOMAIN m : SameEntry(t[i], m[i]) /\ t[i].offline = m[i].offline
  BY <1>1, <1>2, <1>4, StatusKeepsEntry DEF SameEntry
<1>7. SamePlaces(t, s)
  BY <1>1, <1>2, <1>5, <1>6 DEF SamePlaces, SameEntry
<1> QED  BY <1>7 DEF t, m

LEMMA SessionEntries ==
  ASSUME IndInv, NEW authors \in BlockAuthors, SessionBlock(authors)
  PROVE  SlashedFrom(ProposedCandidates',
                     record_authored_block(ProposedCandidates, authors, block_number + 1),
                     add_actual_author(authors), block_number + 1)
<1> DEFINE now == block_number + 1
           A == add_actual_author(authors)
           W == Range(WaitingCandidates)
           I == Range(Invulnerables)
           r == record_authored_block(ProposedCandidates, authors, now)
           q == queue_authors(r, WaitingCandidates)
           s == slash_stale_authors(q, A, now)
           p == prepare_next_waiting_list(s)
           t == new_session(MarkWaiting(p), NextInvulnerables)
<1>1. now \in Nat /\ StageInv(ProposedCandidates, W, I, Range(QueuedKeys), Range(Validators))
  BY SplitIndInv, Typing DEF ListInv
<1>2. StageInv(r, W, I, Range(QueuedKeys), Range(Validators))
  BY <1>1, RecordStage
<1>3. QueuedInv(q, W, I)
  BY <1>2, QueueLemma
<1>4. QueuedInv(s, W, I)
  BY <1>1, <1>3, SlashLemma
<1>5. PreparedInv(p, W, I)
  BY <1>4, PrepareLemma
<1>6. CandidatesOK(r) /\ CandidatesOK(q) /\ CandidatesOK(s) /\ CandidatesOK(p)
  BY <1>2, <1>3, <1>4, <1>5, StageParts DEF QueuedInv, PreparedInv
<1>7. Descends(q, r)
  BY <1>6, QueueInPlace, DescendsInPlace
<1>8. SlashedFrom(s, q, A, now)
  BY <1>1, <1>6, SlashEntries
<1>9. Descends(p, s)
  BY <1>6, PrepareInPlace, DescendsInPlace, DescendsThrough
<1>10. Descends(t, p)
  BY <1>6, NewSessionInPlace, DescendsInPlace
<1>11. ProposedCandidates' = t
  BY DEF SessionBlock, Prepared
<1> HIDE DEF t, p, s, q, r, A, now
<1>12. Descends(t, s)
  BY <1>9, <1>10, DescendsThrough
<1>13. \A c, d : SameEntry(c, d) => (IsStale(c, A, now) <=> IsStale(d, A, now))
  BY DEF SameEntry, IsStale
<1>14. ASSUME NEW c \in Range(t)
       PROVE  \E d \in Range(r) : SameEntry(c, d) /\ (c.offline <=> d.offline \/ IsStale(d, A, now))
  <2>1. PICK e \in Range(s) : SameEntry(c, e) /\ c.offline = e.offline
    BY <1>12 DEF Descends
  <2>2. PICK f \in Range(q) : SameEntry(e, f) /\ (e.offline <=> f.offline \/ IsStale(f, A, now))
    BY <1>8 DEF SlashedFrom
  <2>3. PICK d \in Range(r) : SameEntry(f, d) /\ f.offline = d.offline
    BY <1>7 DEF Descends
  <2>4. SameEntry(c, d)
    BY <2>1, <2>2, <2>3 DEF SameEntry
  <2>5. c.offline <=> d.offline \/ IsStale(d, A, now)
    BY <1>13, <2>1, <2>2, <2>3
  <2> QED  BY <2>4, <2>5
<1> QED  BY <1>11, <1>14 DEF SlashedFrom, r, A, now

(* An entry c after the next block, authored by authors, and the entry d it
   was before.                                                             *)
CarriedOver(c, d, authors) ==
  /\ c.who = d.who /\ c.bond = d.bond /\ c.total_stake = d.total_stake
  /\ c.last_authored = IF c.who \in authors THEN block_number + 1 ELSE d.last_authored
  /\ c.offline <=>
       \/ d.offline
       \/ /\ EndsSession(block_number + 1)
          /\ IsStale(c, add_actual_author(authors), block_number + 1)

LEMMA RecordEntries ==
  ASSUME IndInv, NEW authors,
         NEW c \in Range(record_authored_block(ProposedCandidates, authors, block_number + 1))
  PROVE  \E d \in Range(ProposedCandidates) :
           /\ c.who = d.who /\ c.bond = d.bond /\ c.total_stake = d.total_stake
           /\ c.last_authored = IF c.who \in authors THEN block_number + 1 ELSE d.last_authored
           /\ c.offline = d.offline
<1> DEFINE s == ProposedCandidates
           now == block_number + 1
<1>1. PICK i \in DOMAIN s : c = IF s[i].who \in authors THEN Authored(s[i], now) ELSE s[i]
  BY DEF record_authored_block, Range
<1>2. s[i] \in Range(s) /\ s[i] \in CandidateInfo
  BY Typing DEF Range
<1>3. /\ Authored(s[i], now).last_authored = now
      /\ Authored(s[i], now).who = s[i].who
      /\ Authored(s[i], now).bond = s[i].bond
      /\ Authored(s[i], now).total_stake = s[i].total_stake
      /\ Authored(s[i], now).offline = s[i].offline
  BY <1>2 DEF Authored, CandidateInfo
<1> QED  BY <1>1, <1>2, <1>3

(* A block changes no bond and no stake, credits its author, and, at the end
   of a session, takes the stale offline.                                  *)
LEMMA BlockEntries ==
  ASSUME IndInv, NEW authors \in BlockAuthors,
         Block(authors) \/ SessionBlock(authors)
  PROVE  /\ block_number' = block_number + 1 /\ UNCHANGED <<account, Delegations>>
         /\ \A c \in Range(ProposedCandidates') :
              \E d \in Range(ProposedCandidates) : CarriedOver(c, d, authors)
<1> DEFINE now == block_number + 1
           A == add_actual_author(authors)
           r == record_authored_block(ProposedCandidates, authors, now)
<1>1. block_number' = block_number + 1 /\ UNCHANGED <<account, Delegations>>
  BY DEF Block, SessionBlock
<1>2. CASE Block(authors)
  <2>1. ProposedCandidates' = r /\ ~EndsSession(now)
    BY <1>2 DEF Block
  <2> QED  BY <1>1, <2>1, RecordEntries DEF CarriedOver
<1>3. CASE SessionBlock(authors)
  <2> SUFFICES ASSUME NEW c \in Range(ProposedCandidates')
               PROVE  \E d \in Range(ProposedCandidates) : CarriedOver(c, d, authors)
    BY <1>1
  <2>1. EndsSession(now)
    BY <1>3 DEF SessionBlock
  <2>2. PICK e \in Range(r) : SameEntry(c, e) /\ (c.offline <=> e.offline \/ IsStale(e, A, now))
    BY <1>3, SessionEntries DEF SlashedFrom
  <2>3. PICK d \in Range(ProposedCandidates) :
          /\ e.who = d.who /\ e.bond = d.bond /\ e.total_stake = d.total_stake
          /\ e.last_authored = IF e.who \in authors THEN now ELSE d.last_authored
          /\ e.offline = d.offline
    BY RecordEntries
  <2>4. IsStale(e, A, now) <=> IsStale(c, A, now)
    BY <2>2 DEF SameEntry, IsStale
  <2> HIDE DEF A, now, r
  <2>5. CarriedOver(c, d, authors)
    BY <2>1, <2>2, <2>3, <2>4 DEF CarriedOver, SameEntry, A, now
  <2> QED  BY <2>5
<1> QED  BY <1>2, <1>3

-----------------------------------------------------------------------------
(* Either the stake behind c stays, or its delegations change with the sum. *)
StakeKept(c, d) ==
  \/ d.total_stake = c.total_stake /\ UNCHANGED Delegations
  \/ /\ d.total_stake = Total(Delegations'[c.who])
     /\ \A a \in Accounts \ {c.who} : Delegations'[a] = Delegations[a]

(* What is paid for it: nothing, or the difference of the bonds; anything, by
   a signer of bond_correction; or what is added to or removed from the
   delegations.                                                            *)
Pays(c, d) ==
  \/ d.bond = c.bond /\ UNCHANGED <<account, Delegations>>
  \/ AdjustReserve(c.who, c.bond, d.bond) /\ UNCHANGED Delegations
  \/ /\ c.who \in CorrectionSigners /\ d.bond = 0
     /\ \E v \in Nat : unreserve(c.who, v)
     /\ UNCHANGED Delegations
  \/ /\ d.bond = c.bond
     /\ \E who \in Accounts : \E amount \in Nat :
          /\ reserve(who, amount)
          /\ account[who].free >= amount
          /\ Delegations' = [Delegations EXCEPT ![c.who] =
                               AddDelegation(Delegations[c.who], who, amount)]
  \/ /\ d.bond = c.bond
     /\ \E who \in DOMAIN Delegations[c.who] :
          /\ unreserve(who, Delegations[c.who][who])
          /\ Delegations' = [Delegations EXCEPT ![c.who] =
                               RemoveDelegation(Delegations[c.who], who)]

(* An edit that need not be followed by a sort.                            *)
KeepsRank(c, d) == d.offline = c.offline /\ (d.offline \/ Combined(d) = Combined(c))

(* What all calls but register_candidate and those for session keys do: one
   candidate is edited, the stages and the block stay.                     *)
Edits(c, d) ==
  /\ d \in CandidateInfo /\ d.who = c.who /\ d.last_authored = c.last_authored
  /\ StakeKept(c, d)
  /\ Pays(c, d)
  /\ \/ ProposedCandidates' = sort_proposed_candidates(Amend(ProposedCandidates, d))
     \/ ProposedCandidates' = Amend(ProposedCandidates, d) /\ KeepsRank(c, d)
  /\ UNCHANGED <<pipeline, Validators, QueuedKeys, block_number>>

EditsOne == \E c \in Range(ProposedCandidates) : \E d : Edits(c, d)

LEMMA CandidateEdits ==
  ASSUME IndInv, NEW who \in Accounts,
         \/ \E b \in Bonds : bond_candidate(who, b)
         \/ \E v \in Commissions : set_commission_of_candidate(who, v)
         \/ offline_candidate(who)
         \/ online_candidate(who)
         \/ leave_candidate(who)
         \/ who \in CorrectionSigners /\ \E v \in Corrections : bond_correction(who, v)
  PROVE  EditsOne
<1> DEFINE s == ProposedCandidates
<1>0. block_number \in Nat /\ \A c \in Range(s) : c \in CandidateInfo
  BY Typing
<1>1. ASSUME NEW b \in Bonds, bond_candidate(who, b)
      PROVE  EditsOne
  <2>1. PICK c \in Range(s) :
          /\ c.who = who
          /\ AdjustReserve(who, c.bond, b)
          /\ s' = sort_proposed_candidates(
                    Amend(s, [c EXCEPT !.bond = b, !.last_updated = block_number]))
    BY <1>1 DEF bond_candidate
  <2> DEFINE d == [c EXCEPT !.bond = b, !.last_updated = block_number]
  <2>2. /\ d \in CandidateInfo /\ d.who = c.who /\ d.last_authored = c.last_authored
        /\ d.total_stake = c.total_stake /\ d.bond = b
    BY <1>0, InputAssumption DEF CandidateInfo
  <2>3. UNCHANGED <<pipeline, Delegations, Validators, QueuedKeys, block_number>>
    BY <1>1 DEF bond_candidate, session
  <2>4. s' = sort_proposed_candidates(Amend(s, d))
    BY <2>1
  <2> HIDE DEF d
  <2>5. StakeKept(c, d) /\ Pays(c, d)
    BY <2>1, <2>2, <2>3 DEF StakeKept, Pays
  <2>6. Edits(c, d)
    BY <2>2, <2>3, <2>4, <2>5 DEF Edits
  <2> QED  BY <2>6 DEF EditsOne
<1>2. ASSUME NEW v \in Commissions, set_commission_of_candidate(who, v)
      PROVE  EditsOne
  <2>1. PICK c \in Range(s) :
          s' = Amend(s, [c EXCEPT !.commission = v, !.last_updated = block_number])
    BY <1>2 DEF set_commission_of_candidate
  <2> DEFINE d == [c EXCEPT !.commission = v, !.last_updated = block_number]
  <2>A. v \in 1 .. 100
    BY <1>2, Zenon DEF set_commission_of_candidate
  <2>0. v \in 0 .. 100
    BY <2>A
  <2>2. /\ d \in CandidateInfo /\ d.who = c.who /\ d.last_authored = c.last_authored
        /\ d.total_stake = c.total_stake /\ d.bond = c.bond /\ d.offline = c.offline
    BY <1>0, <2>0 DEF CandidateInfo
  <2>3. UNCHANGED <<account, pipeline, Delegations, Validators, QueuedKeys, block_number>>
    BY <1>2 DEF set_commission_of_candidate, session
  <2>4. s' = Amend(s, d)
    BY <2>1
  <2> HIDE DEF d
  <2>5. StakeKept(c, d) /\ Pays(c, d) /\ KeepsRank(c, d)
    BY <2>2, <2>3 DEF StakeKept, Pays, KeepsRank, Combined
  <2>6. Edits(c, d)
    BY <2>2, <2>3, <2>4, <2>5 DEF Edits
  <2> QED  BY <2>6 DEF EditsOne
<1>3. ASSUME NEW off \in BOOLEAN, set_offline(who, off),
             UNCHANGED <<account, pipeline, Delegations, session, block_number>>
      PROVE  EditsOne
  <2>1. PICK c \in Range(s) :
          s' = sort_proposed_candidates(
                 Amend(s, [c EXCEPT !.offline = off, !.last_updated = block_number]))
    BY <1>3 DEF set_offline
  <2> DEFINE d == [c EXCEPT !.offline = off, !.last_updated = block_number]
  <2>2. /\ d \in CandidateInfo /\ d.who = c.who /\ d.last_authored = c.last_authored
        /\ d.total_stake = c.total_stake /\ d.bond = c.bond
    BY <1>0 DEF CandidateInfo
  <2>3. UNCHANGED <<account, pipeline, Delegations, Validators, QueuedKeys, block_number>>
    BY <1>3 DEF session
  <2>4. s' = sort_proposed_candidates(Amend(s, d))
    BY <2>1
  <2> HIDE DEF d
  <2>5. StakeKept(c, d) /\ Pays(c, d)
    BY <2>2, <2>3 DEF StakeKept, Pays
  <2>6. Edits(c, d)
    BY <2>2, <2>3, <2>4, <2>5 DEF Edits
  <2> QED  BY <2>6 DEF EditsOne
<1>4. CASE offline_candidate(who)
  BY <1>3, <1>4 DEF offline_candidate
<1>5. CASE online_candidate(who)
  BY <1>3, <1>5 DEF online_candidate
<1>6. CASE leave_candidate(who)
  <2>1. PICK c \in Range(s) :
          s' = Amend(s, [c EXCEPT !.leaving = TRUE, !.last_updated = block_number])
    BY <1>6 DEF leave_candidate
  <2> DEFINE d == [c EXCEPT !.leaving = TRUE, !.last_updated = block_number]
  <2>2. /\ d \in CandidateInfo /\ d.who = c.who /\ d.last_authored = c.last_authored
        /\ d.total_stake = c.total_stake /\ d.bond = c.bond /\ d.offline = c.offline
    BY <1>0 DEF CandidateInfo
  <2>3. UNCHANGED <<account, pipeline, Delegations, Validators, QueuedKeys, block_number>>
    BY <1>6 DEF leave_candidate, session
  <2>4. s' = Amend(s, d)
    BY <2>1
  <2> HIDE DEF d
  <2>5. StakeKept(c, d) /\ Pays(c, d) /\ KeepsRank(c, d)
    BY <2>2, <2>3 DEF StakeKept, Pays, KeepsRank, Combined
  <2>6. Edits(c, d)
    BY <2>2, <2>3, <2>4, <2>5 DEF Edits
  <2> QED  BY <2>6 DEF EditsOne
<1>7. ASSUME who \in CorrectionSigners, NEW v \in Corrections, bond_correction(who, v)
      PROVE  EditsOne
  <2>1. PICK c \in Range(s) :
          /\ c.who = who
          /\ c.offline
          /\ s' = Amend(s, [c EXCEPT !.bond = 0, !.last_updated = block_number])
    BY <1>7 DEF bond_correction
  <2> DEFINE d == [c EXCEPT !.bond = 0, !.last_updated = block_number]
  <2>2. /\ d \in CandidateInfo /\ d.who = c.who /\ d.last_authored = c.last_authored
        /\ d.total_stake = c.total_stake /\ d.bond = 0 /\ d.offline = c.offline
    BY <1>0 DEF CandidateInfo
  <2>3. /\ UNCHANGED <<pipeline, Delegations, Validators, QueuedKeys, block_number>>
        /\ v \in Nat /\ unreserve(who, v)
    BY <1>7, InputAssumption DEF bond_correction, session
  <2>4. s' = Amend(s, d)
    BY <2>1
  <2> HIDE DEF d
  <2>5. StakeKept(c, d) /\ Pays(c, d) /\ KeepsRank(c, d)
    BY <1>7, <2>1, <2>2, <2>3 DEF StakeKept, Pays, KeepsRank
  <2>6. Edits(c, d)
    BY <2>2, <2>3, <2>4, <2>5 DEF Edits
  <2> QED  BY <2>6 DEF EditsOne
<1> QED  BY <1>1, <1>2, <1>4, <1>5, <1>6, <1>7

LEMMA DelegationEdits ==
  ASSUME IndInv, NEW who \in Accounts, NEW candidate \in Accounts,
         \/ \E amount \in Stakes : stake_candidate(who, candidate, amount)
         \/ unstake_candidate(who, candidate)
  PROVE  EditsOne
<1> DEFINE s == ProposedCandidates
           old == Delegations[candidate]
           Paid(f) ==
             \/ \E amount \in Nat : /\ reserve(who, amount)
                                    /\ account[who].free >= amount
                                    /\ f = AddDelegation(old, who, amount)
             \/ /\ who \in DOMAIN old
                /\ unreserve(who, old[who])
                /\ f = RemoveDelegation(old, who)
<1>0. /\ DOMAIN Delegations = Accounts /\ IsDelegations(old)
      /\ block_number \in Nat /\ \A c \in Range(s) : c \in CandidateInfo
  BY Typing DEF OtherTypes
<1>1. ASSUME NEW f, IsDelegations(f), recompute_total_stake(candidate, f), Paid(f),
             Delegations' = [Delegations EXCEPT ![candidate] = f],
             UNCHANGED <<pipeline, session, block_number>>
      PROVE  EditsOne
  <2>1. PICK c \in Range(s) :
          /\ c.who = candidate
          /\ s' = sort_proposed_candidates(
                    Amend(s, [c EXCEPT !.total_stake = Total(f), !.last_updated = block_number]))
    BY <1>1 DEF recompute_total_stake
  <2> DEFINE d == [c EXCEPT !.total_stake = Total(f), !.last_updated = block_number]
  <2>2. Total(f) \in Nat
    BY <1>1, TotalNat DEF IsDelegations
  <2>3. /\ d \in CandidateInfo /\ d.who = c.who /\ d.last_authored = c.last_authored
        /\ d.total_stake = Total(f) /\ d.bond = c.bond
    BY <1>0, <2>2 DEF CandidateInfo
  <2>4. Delegations'[candidate] = f /\ \A a \in Accounts \ {candidate} : Delegations'[a] = Delegations[a]
    BY <1>0, <1>1
  <2>5. s' = sort_proposed_candidates(Amend(s, d))
    BY <2>1
  <2> HIDE DEF d
  <2>6. StakeKept(c, d)
    BY <2>1, <2>3, <2>4 DEF StakeKept
  <2>7. Pays(c, d)
    BY <1>1, <2>1, <2>3 DEF Pays
  <2> HIDE DEF Paid
  <2>8. Edits(c, d)
    BY <1>1, <2>3, <2>5, <2>6, <2>7 DEF Edits, session
  <2> QED  BY <2>8 DEF EditsOne
<1>2. ASSUME NEW amount \in Stakes, stake_candidate(who, candidate, amount)
      PROVE  EditsOne
  <2>1. amount \in Nat
    BY InputAssumption
  <2>2. IsDelegations(AddDelegation(old, who, amount))
    BY <1>0, <1>2, <2>1, AddType DEF stake_candidate
  <2>3. Paid(AddDelegation(old, who, amount))
    BY <1>2, <2>1 DEF stake_candidate
  <2> HIDE DEF Paid
  <2> QED  BY <1>1, <1>2, <2>2, <2>3 DEF stake_candidate
<1>3. CASE unstake_candidate(who, candidate)
  <2>1. IsDelegations(RemoveDelegation(old, who))
    BY <1>0, <1>3, RemoveType DEF unstake_candidate
  <2>2. Paid(RemoveDelegation(old, who))
    BY <1>3 DEF unstake_candidate
  <2> HIDE DEF Paid
  <2> QED  BY <1>1, <1>3, <2>1, <2>2 DEF unstake_candidate
<1> QED  BY <1>2, <1>3

LEMMA CallCases ==
  ASSUME IndInv, Call
  PROVE  EditsOne \/ KeyCall \/ \E who \in Accounts : register_candidate(who)
<1>1. CASE CandidateCall
  BY <1>1, CandidateEdits, InputAssumption DEF CandidateCall
<1>2. CASE CorrectionCall
  BY <1>2, CandidateEdits, InputAssumption DEF CorrectionCall
<1>3. CASE DelegatorCall
  BY <1>3, DelegationEdits, InputAssumption DEF DelegatorCall
<1> QED  BY <1>1, <1>2, <1>3 DEF Call

(* The entries after an edit, and after a registration.                    *)
LEMMA EditedEntries ==
  ASSUME IndInv, NEW c \in Range(ProposedCandidates), NEW d, Edits(c, d)
  PROVE  Range(ProposedCandidates') = {d} \union {e \in Range(ProposedCandidates) : e.who # c.who}
<1> DEFINE s == ProposedCandidates
           t == Amend(s, d)
<1>1. s \in Seq(CandidateInfo) /\ \A i \in DOMAIN s : s[i] \in CandidateInfo
  BY Typing, LenProperties
<1>2. /\ t = [i \in DOMAIN s |-> t[i]] /\ DOMAIN t = DOMAIN s
      /\ \A i \in DOMAIN s : t[i] = IF s[i].who = d.who THEN d ELSE s[i]
  BY DEF Amend
<1>3. d \in CandidateInfo /\ d.who = c.who /\ s' \in {t, sort_proposed_candidates(t)}
  BY DEF Edits
<1> HIDE DEF t
<1>4. t \in Seq(CandidateInfo)
  BY <1>1, <1>2, <1>3, MapLemma
<1>5. Range(s') = Range(t)
  BY <1>3, <1>4, SortLemma
<1>6. Range(t) = {d} \union {e \in Range(s) : e.who # c.who}
  BY <1>2, <1>3 DEF Range
<1> QED  BY <1>5, <1>6

LEMMA RegisteredEntries ==
  ASSUME IndInv, NEW who \in Accounts, register_candidate(who)
  PROVE  /\ NewCandidate(who) \in CandidateInfo
         /\ Range(ProposedCandidates') = Range(ProposedCandidates) \union {NewCandidate(who)}
         /\ \A e \in Range(ProposedCandidates) : e.who # who
<1> DEFINE s == ProposedCandidates
           c == NewCandidate(who)
<1>1. s \in Seq(CandidateInfo) /\ block_number \in Nat
  BY Typing
<1>2. c \in CandidateInfo
  BY <1>1 DEF NewCandidate, CandidateInfo, Status
<1>3. s' = Append(s, c)
  BY DEF register_candidate
<1> HIDE DEF c
<1>4. /\ DOMAIN s' = 1 .. Len(s) + 1
      /\ \A i \in 1 .. Len(s) : s'[i] = s[i]
      /\ s'[Len(s) + 1] = c
      /\ Len(s) \in Nat /\ DOMAIN s = 1 .. Len(s)
  BY <1>1, <1>2, <1>3, LenProperties, AppendProperties
<1>5. Range(s') = Range(s) \union {c}
  BY <1>4 DEF Range
<1>6. \A e \in Range(s) : e.who # who
  BY DEF register_candidate, Registered
<1> QED  BY <1>2, <1>5, <1>6 DEF c

(* Editing a candidate changes whether it is fit, at most.                 *)
LEMMA EditStep ==
  ASSUME IndInv, EditsOne
  PROVE  /\ RegisteredAccounts' = RegisteredAccounts
         /\ [Abstract!Next]_Abstract!vars
<1> DEFINE s == ProposedCandidates
<1>0. PICK c \in Range(s) : \E d : Edits(c, d)
  BY DEF EditsOne
<1>1. PICK d : Edits(c, d)
  BY <1>0
<1>4. d \in CandidateInfo /\ d.who = c.who
  BY <1>1 DEF Edits
<1>7. /\ \A e \in Range(s') : e = d \/ (e \in Range(s) /\ e.who # d.who)
      /\ d \in Range(s')
      /\ \A e \in Range(s) : e.who # d.who => e \in Range(s')
  BY <1>1, <1>4, EditedEntries
<1>8. c.who \in Accounts /\ c.who \in RegisteredAccounts
  BY <1>4 DEF RegisteredAccounts, CandidateInfo
<1>9. RegisteredAccounts' = RegisteredAccounts
  BY <1>4, <1>7, <1>8 DEF RegisteredAccounts
<1>10. Abstract!stages' = Abstract!stages
  BY <1>1 DEF Edits, Abstract!stages, pipeline
<1>11. CASE Fit(d)
  <2>1. FitAccounts' = FitAccounts \union {c.who}
    BY <1>4, <1>7, <1>11 DEF FitAccounts
  <2> QED  BY <1>8, <1>9, <1>10, <2>1 DEF Abstract!Next, Abstract!BecomeFit
<1>12. CASE ~Fit(d)
  <2>1. FitAccounts' = FitAccounts \ {c.who}
    BY <1>4, <1>7, <1>12 DEF FitAccounts
  <2> QED  BY <1>8, <1>9, <1>10, <2>1 DEF Abstract!Next, Abstract!BecomeUnfit
<1> QED  BY <1>9, <1>11, <1>12

(* A new candidate is registered and not fit.                              *)
LEMMA RegisterRefines ==
  ASSUME IndInv, NEW who \in Accounts, register_candidate(who)
  PROVE  /\ RegisteredAccounts' = RegisteredAccounts \union {who}
         /\ Abstract!Register(who)
<1> DEFINE s == ProposedCandidates
           c == NewCandidate(who)
<1>2. c.who = who /\ ~Fit(c)
  BY DEF NewCandidate, Fit
<1>5. Range(s') = Range(s) \union {c}
  BY RegisteredEntries
<1> HIDE DEF c
<1>6. RegisteredAccounts' = RegisteredAccounts \union {who}
  BY <1>2, <1>5 DEF RegisteredAccounts
<1>7. FitAccounts' = FitAccounts
  BY <1>2, <1>5 DEF FitAccounts
<1>8. who \notin RegisteredAccounts
  BY DEF register_candidate, Registered, RegisteredAccounts
<1>9. Abstract!stages' = Abstract!stages
  BY DEF register_candidate, Abstract!stages, pipeline, session
<1> QED  BY <1>6, <1>7, <1>8, <1>9 DEF Abstract!Register

(* The stages, the candidates and the block are left alone.                *)
LEMMA KeyRefines ==
  ASSUME KeyCall \/ UNCHANGED vars
  PROVE  UNCHANGED <<Abstract!vars, ProposedCandidates, pipeline, Validators, QueuedKeys, block_number>>
<1>1. UNCHANGED <<ProposedCandidates, pipeline, Validators, QueuedKeys, block_number>>
  BY DEF KeyCall, set_keys, purge_keys, vars, session
<1> QED  BY <1>1 DEF Abstract!vars, Abstract!stages, RegisteredAccounts, FitAccounts, pipeline

LEMMA BlockRefines ==
  ASSUME IndInv, NEW authors, Block(authors)
  PROVE  UNCHANGED <<Abstract!vars, pipeline, Validators, QueuedKeys>>
<1>1. CandidatesOK(ProposedCandidates)
  BY SplitIndInv, StageParts DEF ListInv
<1>2. ProposedCandidates' = record_authored_block(ProposedCandidates, authors, block_number + 1)
  BY DEF Block
<1>3. UNCHANGED <<pipeline, Validators, QueuedKeys>>
  BY DEF Block, session
<1>4. RegisteredAccounts' = RegisteredAccounts /\ FitAccounts' = FitAccounts
  BY <1>1, <1>2, RecordFit DEF RegisteredAccounts, FitAccounts, Members, FitOf
<1> QED  BY <1>3, <1>4 DEF Abstract!vars, Abstract!stages, pipeline

LEMMA SessionRefines ==
  ASSUME IndInv, IndInv', NEW authors \in BlockAuthors, SessionBlock(authors)
  PROVE  Abstract!Session
<1>1. ASSUME NEW who \in RegisteredAccounts \ RegisteredAccounts'
      PROVE  who \notin FitAccounts
  BY <1>1, SessionChange DEF RegisteredAccounts
<1>2. (Range(WaitingCandidates)' \union Range(Invulnerables)' \union Range(Validators)') \ Desired
        \subseteq RegisteredAccounts'
  BY DEF IndInv, GuardedBonded, Guarded, RegisteredAccounts
<1>3. Range(QueuedKeys)' \subseteq Range(Invulnerables)'
  BY DEF IndInv, QueuedAreInvulnerable
<1>4. Abstract!Forget
  BY <1>1, <1>2, <1>3, SessionChange DEF Abstract!Forget
<1> QED  BY <1>4, SessionChange DEF Abstract!Session

-----------------------------------------------------------------------------
(* Genesis has nobody registered and the genesis validators in every stage. *)
LEMMA InitRefines == Init => Abstract!Init /\ NoDoubleSlot
<1> SUFFICES ASSUME Init PROVE Abstract!Init /\ NoDoubleSlot
  OBVIOUS
<1>1. Range(ProposedCandidates) = {}
  BY DEF Init, Range
<1>2. RegisteredAccounts = {} /\ FitAccounts = {}
  BY <1>1 DEF RegisteredAccounts, FitAccounts
<1> QED  BY <1>2, DesiredAssumption DEF Init, Abstract!Init, NoDoubleSlot, Desired

(* Every step is an abstract step or none, and drops a registration only at a
   session end, of somebody who is desired or in no stage.                 *)
DropsLate ==
  \A c \in Range(ProposedCandidates) :
    c.who \notin RegisteredAccounts' =>
      SessionEnds /\ (c.who \in Desired \/ OutOfPipeline(c.who))

LEMMA StepRefines ==
  ASSUME IndInv, IndInv', [Next]_vars
  PROVE  [Abstract!Next]_Abstract!vars /\ DropsLate
<1>0. \A c \in Range(ProposedCandidates) : c.who \in RegisteredAccounts
  BY DEF RegisteredAccounts
<1>1. ASSUME NEW authors \in BlockAuthors, Block(authors)
      PROVE  [Abstract!Next]_Abstract!vars /\ DropsLate
  <2>1. Abstract!vars' = Abstract!vars
    BY <1>1, BlockRefines
  <2> QED  BY <1>0, <2>1 DEF Abstract!vars, DropsLate
<1>2. ASSUME NEW authors \in BlockAuthors, SessionBlock(authors)
      PROVE  [Abstract!Next]_Abstract!vars /\ DropsLate
  <2>1. Abstract!Session
    BY <1>2, SessionRefines
  <2>2. SessionEnds
    <3>1. block_number \in Nat
      BY Typing
    <3> QED  BY <1>2, <3>1 DEF SessionBlock, SessionEnds
  <2>3. DropsLate
    BY <1>2, <2>2, SessionChange DEF DropsLate
  <2> QED  BY <2>1, <2>3 DEF Abstract!Next
<1>3. CASE EditsOne
  BY <1>0, <1>3, EditStep DEF DropsLate
<1>4. CASE KeyCall \/ UNCHANGED vars
  <2>1. Abstract!vars' = Abstract!vars
    BY <1>4, KeyRefines
  <2> QED  BY <1>0, <2>1 DEF Abstract!vars, DropsLate
<1>5. ASSUME NEW who \in Accounts, register_candidate(who)
      PROVE  [Abstract!Next]_Abstract!vars /\ DropsLate
  <2>1. RegisteredAccounts' = RegisteredAccounts \union {who} /\ Abstract!Register(who)
    BY <1>5, RegisterRefines
  <2> QED  BY <1>0, <2>1 DEF Abstract!Next, DropsLate
<1>6. CASE Call
  BY <1>3, <1>4, <1>5, <1>6, CallCases
<1> QED  BY <1>1, <1>2, <1>4, <1>6 DEF Next

LEMMA SlotStep ==
  ASSUME IndInv, [Next]_vars, NoDoubleSlot
  PROVE  NoDoubleSlot'
<1>1. ASSUME NEW authors \in BlockAuthors, SessionBlock(authors)
      PROVE  NoDoubleSlot'
  <2>1. WaitingCandidates \in Seq(Accounts) /\ Desired \subseteq Range(WaitingCandidates)
    BY SplitIndInv, Typing DEF OtherTypes, ListInv, StageInv
  <2>2. DesiredCandidates[1] \in Desired
    BY DesiredAssumption, LenProperties DEF Desired, Range
  <2>3. NextInvulnerables = WaitingCandidates
    BY <2>1, <2>2 DEF Range, NextInvulnerables
  <2>4. /\ Invulnerables' = WaitingCandidates
        /\ Validators' = QueuedKeys
        /\ QueuedKeys' = HasKeys(WaitingCandidates)
    BY <1>1, <2>3 DEF SessionBlock
  <2>5. IsInjective(WaitingCandidates')
    BY <1>1, SessionChange
  <2>6. IsInjective(HasKeys(WaitingCandidates))
    BY <2>1, KeysInjective DEF NoDoubleSlot
  <2> QED  BY <2>4, <2>5, <2>6 DEF NoDoubleSlot
<1>2. ASSUME UNCHANGED <<pipeline, Validators, QueuedKeys>>
      PROVE  NoDoubleSlot'
  BY <1>2 DEF NoDoubleSlot, pipeline
<1>3. CASE Call
  <2>1. UNCHANGED <<pipeline, Validators, QueuedKeys>>
    BY <1>3, CallCases, KeyRefines DEF EditsOne, Edits, register_candidate, session
  <2> QED  BY <1>2, <2>1
<1>4. CASE UNCHANGED vars
  BY <1>2, <1>4 DEF vars, session
<1>5. ASSUME NEW authors \in BlockAuthors, Block(authors)
      PROVE  NoDoubleSlot'
  BY <1>2, <1>5 DEF Block, session
<1> QED  BY <1>1, <1>3, <1>4, <1>5 DEF Next

(* StakingImplementsPipeline: for any accounts, capacities, periods and calls,
   the pallet driven by the session pallet behaves as the abstract pipeline:
   its lists, statuses, sorts and silently ignored failures amount to moving
   everybody one stage per session.                                        *)
THEOREM StakingImplementsPipeline == Spec => ImplementsPipeline
<1>1. Init => Abstract!Init
  BY InitRefines
<1>2. IndInv /\ IndInv' /\ [Next]_vars => [Abstract!Next]_Abstract!vars
  BY StepRefines
<1> QED  BY <1>1, <1>2, Inductive, PTL DEF Spec, ImplementsPipeline, Abstract!Spec

(* OnePlaceEach: nobody holds two places in one stage, whoever registers as a
   candidate and whichever keys are set.                                   *)
THEOREM OnePlaceEach == Spec => []NoDoubleSlot
<1>1. Init => NoDoubleSlot
  BY InitRefines
<1>2. IndInv /\ [Next]_vars /\ NoDoubleSlot => NoDoubleSlot'
  BY SlotStep
<1> QED  BY <1>1, <1>2, Inductive, PTL DEF Spec

(* BondsCanBeTakenBack: a registration is dropped only at a session end, and
   only of a genesis validator or of somebody whom the guards of
   bond_candidate(0) and bond_correction let through.                      *)
THEOREM BondsCanBeTakenBack == Spec => UnbondWindow
<1>1. IndInv /\ IndInv' /\ [Next]_vars =>
        [\A c \in Range(ProposedCandidates) :
           (\A d \in Range(ProposedCandidates') : d.who # c.who) =>
             SessionEnds /\ (c.who \in Desired \/ OutOfPipeline(c.who))]_vars
  <2> SUFFICES ASSUME IndInv, IndInv', [Next]_vars,
                      NEW c \in Range(ProposedCandidates),
                      \A d \in Range(ProposedCandidates') : d.who # c.who
               PROVE  SessionEnds /\ (c.who \in Desired \/ OutOfPipeline(c.who))
    OBVIOUS
  <2>1. c.who \notin RegisteredAccounts'
    BY DEF RegisteredAccounts
  <2> QED  BY <2>1, StepRefines DEF DropsLate
<1> QED  BY <1>1, Inductive, PTL DEF Spec, UnbondWindow

-----------------------------------------------------------------------------
(* The order of the online candidates.                                     *)

LEMMA SortedIsOrdered ==
  ASSUME NEW s \in Seq(CandidateInfo)
  PROVE  OnlineOrdered(sort_proposed_candidates(s))
<1> DEFINE t == Arrange(s, DOMAIN s, SortOrder(s))
<1>1. TotalOrder(DOMAIN s, SortOrder(s))
  BY SortOrderTotal
<1>2. \A k, l \in DOMAIN t : k <= l =>
        \E p \in SortOrder(s) : /\ p[1] \in DOMAIN s /\ p[2] \in DOMAIN s
                               /\ t[k] = s[p[1]] /\ t[l] = s[p[2]]
  BY <1>1, ArrangeOrder
<1>3. \A e \in CandidateInfo : Combined(e) \in Nat /\ e.offline \in BOOLEAN
  BY DEF Combined, CandidateInfo
<1>4. \A i \in DOMAIN s : s[i] \in CandidateInfo
  BY LenProperties
<1>5. \A d, e \in CandidateInfo :
        ~d.offline /\ ~e.offline /\ (RanksBefore(d, e) \/ ~RanksBefore(e, d))
          => Combined(d) >= Combined(e)
  <2> SUFFICES ASSUME NEW d \in CandidateInfo, NEW e \in CandidateInfo,
                      ~d.offline, ~e.offline, RanksBefore(d, e) \/ ~RanksBefore(e, d)
               PROVE  Combined(d) >= Combined(e)
    OBVIOUS
  <2>1. Combined(d) \in Nat /\ Combined(e) \in Nat
    BY <1>3
  <2>2. \/ Combined(d) > Combined(e)
        \/ Combined(d) = Combined(e)
        \/ ~(Combined(e) > Combined(d))
    BY <1>3 DEF RanksBefore
  <2> QED  BY <2>1, <2>2
<1>6. \A p \in SortOrder(s) :
        RanksBefore(s[p[1]], s[p[2]]) \/ ~RanksBefore(s[p[2]], s[p[1]])
  BY DEF SortOrder
<1> HIDE DEF t
<1>7. ASSUME NEW k \in DOMAIN t, NEW l \in DOMAIN t, k <= l, ~t[k].offline, ~t[l].offline
      PROVE  Combined(t[k]) >= Combined(t[l])
  <2>1. PICK p \in SortOrder(s) : /\ p[1] \in DOMAIN s /\ p[2] \in DOMAIN s
                                 /\ t[k] = s[p[1]] /\ t[l] = s[p[2]]
    BY <1>2, <1>7
  <2> DEFINE d == s[p[1]]
             e == s[p[2]]
  <2>2. /\ d \in CandidateInfo /\ e \in CandidateInfo /\ t[k] = d /\ t[l] = e
        /\ RanksBefore(d, e) \/ ~RanksBefore(e, d)
    BY <1>4, <1>6, <2>1
  <2> HIDE DEF d, e
  <2>3. ~d.offline /\ ~e.offline
    BY <1>7, <2>2
  <2>4. Combined(d) >= Combined(e)
    BY <1>5, <2>2, <2>3
  <2> QED  BY <2>2, <2>4
<1>8. OnlineOrdered(t)
  BY <1>7 DEF OnlineOrdered
<1> QED  BY <1>8 DEF t, sort_proposed_candidates

(* Edits in place that leave the rank of whoever is online.                *)
LEMMA OrderedInPlace ==
  ASSUME NEW s, OnlineOrdered(s), NEW t, DOMAIN t = DOMAIN s,
         \A i \in DOMAIN s : ~t[i].offline => ~s[i].offline /\ Combined(t[i]) = Combined(s[i])
  PROVE  OnlineOrdered(t)
BY DEF OnlineOrdered

LEMMA OrderedSamePlaces ==
  ASSUME NEW s, OnlineOrdered(s), NEW t, SamePlaces(t, s)
  PROVE  OnlineOrdered(t)
<1>1. \A i \in DOMAIN s : ~t[i].offline => ~s[i].offline /\ Combined(t[i]) = Combined(s[i])
  BY DEF SamePlaces, SameEntry, Combined
<1> QED  BY <1>1, OrderedInPlace DEF SamePlaces

LEMMA OrderedRetained ==
  ASSUME NEW s \in Seq(CandidateInfo), OnlineOrdered(s), NEW I \in SUBSET DOMAIN s
  PROVE  OnlineOrdered(Retain(s, I))
<1> DEFINE t == Retain(s, I)
<1>1. \A k, l \in DOMAIN t : k <= l => \E i, j \in I : i <= j /\ t[k] = s[i] /\ t[l] = s[j]
  BY RetainOrder
<1> HIDE DEF t
<1>2. OnlineOrdered(t)
  BY <1>1 DEF OnlineOrdered
<1> QED  BY <1>2 DEF t

LEMMA OrderedRecord ==
  ASSUME NEW s, CandidatesOK(s), OnlineOrdered(s), NEW authors, NEW now
  PROVE  OnlineOrdered(record_authored_block(s, authors, now))
<1> DEFINE t == record_authored_block(s, authors, now)
<1>1. /\ DOMAIN t = DOMAIN s
      /\ \A i \in DOMAIN s : t[i] \in {s[i], Authored(s[i], now)}
  BY DEF record_authored_block
<1> HIDE DEF t
<1>2. \A c \in CandidateInfo : /\ Authored(c, now).offline = c.offline
                               /\ Authored(c, now).bond = c.bond
                               /\ Authored(c, now).total_stake = c.total_stake
  BY DEF CandidateInfo, Authored
<1>3. \A i \in DOMAIN s : ~t[i].offline => ~s[i].offline /\ Combined(t[i]) = Combined(s[i])
  BY <1>1, <1>2 DEF CandidatesOK, Combined
<1>4. OnlineOrdered(t)
  BY <1>1, <1>3, OrderedInPlace
<1> QED  BY <1>4 DEF t

LEMMA OrderedSlash ==
  ASSUME NEW s, CandidatesOK(s), OnlineOrdered(s), NEW authors, NEW now \in Nat
  PROVE  OnlineOrdered(slash_stale_authors(s, authors, now))
<1> DEFINE t == MarkStale(s, authors, now)
<1>1. /\ t = [i \in DOMAIN s |-> t[i]]
      /\ \A i \in DOMAIN s : t[i] \in {s[i], TakenOffline(s[i], now)}
  BY DEF MarkStale
<1> HIDE DEF t
<1>2. \A i \in DOMAIN s : t[i] \in CandidateInfo /\ t[i].who = s[i].who
  BY <1>1, TimeEdits DEF CandidatesOK
<1>3. t \in Seq(CandidateInfo)
  BY <1>1, <1>2, MapLemma DEF CandidatesOK
<1>4. OnlineOrdered(sort_proposed_candidates(t))
  BY <1>3, SortedIsOrdered
<1>5. slash_stale_authors(s, authors, now) \in {s, sort_proposed_candidates(t)}
  BY DEF slash_stale_authors, t
<1> QED  BY <1>4, <1>5

(* The chosen are the first of the fit.                                    *)
LEMMA ChosenAreFirst ==
  ASSUME NEW s \in Seq(CandidateInfo), OnlineOrdered(s),
         NEW c \in Range(s), Fit(c), c.who \notin Desired, c \notin Range(Chosen(s)),
         NEW d \in Range(Chosen(s))
  PROVE  Combined(d) >= Combined(c)
<1> DEFINE F == {i \in DOMAIN s : Fit(s[i]) /\ s[i].who \notin Desired}
           fit == Retain(s, F)
           room == MaxCandidates - Len(DesiredCandidates)
           n == MinOf(Len(fit), room)
<1> HIDE DEF F
<1>1. F \in SUBSET DOMAIN s
  BY DEF F
<1>2. fit \in Seq(CandidateInfo) /\ Range(fit) = {s[i] : i \in F}
  BY <1>1, RetainLemma
<1>3. \A k, l \in DOMAIN fit : k <= l => \E i, j \in F : i <= j /\ fit[k] = s[i] /\ fit[l] = s[j]
  BY <1>1, RetainOrder
<1> HIDE DEF fit
<1>4. Len(fit) \in Nat /\ DOMAIN fit = 1 .. Len(fit) /\ \A i \in 1 .. Len(fit) : fit[i] \in CandidateInfo
  BY <1>2, LenProperties
<1>5. room \in Nat
  BY DesiredAssumption, ConfigAssumption, LenProperties
<1>6. n \in Nat /\ n <= Len(fit)
  BY <1>4, <1>5 DEF MinOf
<1>7. Chosen(s) = SubSeq(fit, 1, n)
  BY DEF Chosen, F, fit
<1> HIDE DEF n
<1>8. DOMAIN Chosen(s) = 1 .. n /\ \A i \in 1 .. n : Chosen(s)[i] = fit[i]
  <2>1. /\ SubSeq(fit, 1, n) \in Seq(CandidateInfo)
        /\ Len(SubSeq(fit, 1, n)) = IF 1 <= n THEN n - 1 + 1 ELSE 0
        /\ \A i \in 1 .. n - 1 + 1 : SubSeq(fit, 1, n)[i] = fit[1 + i - 1]
    BY <1>4, <1>6, SubSeqProperties
  <2>2. Len(Chosen(s)) = n /\ \A i \in 1 .. n : Chosen(s)[i] = fit[i]
    BY <1>6, <1>7, <2>1
  <2>3. DOMAIN Chosen(s) = 1 .. Len(Chosen(s))
    BY <1>7, <2>1, LenProperties
  <2> QED  BY <2>2, <2>3
<1>9. PICK k \in 1 .. n : d = fit[k]
  BY <1>8 DEF Range
<1>10. c \in Range(fit)
  BY <1>2 DEF Range, F
<1>11. PICK l \in DOMAIN fit : c = fit[l]
  BY <1>10 DEF Range
<1>12. l \notin 1 .. n
  BY <1>8, <1>11 DEF Range
<1>13. k \in DOMAIN fit /\ k <= l
  BY <1>4, <1>6, <1>9, <1>12
<1>14. PICK i \in F, j \in F : i <= j /\ d = s[i] /\ c = s[j]
  BY <1>3, <1>9, <1>11, <1>13
<1>15. i \in DOMAIN s /\ j \in DOMAIN s /\ ~s[i].offline /\ ~s[j].offline
  BY <1>1, <1>14 DEF F, Fit
<1> QED  BY <1>14, <1>15 DEF OnlineOrdered

(* The best fit candidates wait after a session change.                    *)
BestTaken ==
  \A c \in Range(ProposedCandidates') :
    Fit(c) /\ c.who \notin Range(WaitingCandidates') =>
      /\ Len(WaitingCandidates') = MaxCandidates
      /\ \A d \in Range(ProposedCandidates') :
           d.who \in Range(WaitingCandidates') \ Desired => Combined(d) >= Combined(c)

LEMMA SessionRanks ==
  ASSUME IndInv, OnlineSorted, NEW authors \in BlockAuthors, SessionBlock(authors)
  PROVE  OnlineSorted' /\ BestTaken
<1> DEFINE now == block_number + 1
           A == add_actual_author(authors)
           W == Range(WaitingCandidates)
           I == Range(Invulnerables)
           a == ProposedCandidates
           r == record_authored_block(a, authors, now)
           q == queue_authors(r, WaitingCandidates)
           s == slash_stale_authors(q, A, now)
           K == {i \in DOMAIN s : Kept(s[i])}
           k == Retain(s, K)
           p == prepare_next_waiting_list(s)
           t == new_session(MarkWaiting(p), NextInvulnerables)
<1>1. now \in Nat /\ StageInv(a, W, I, Range(QueuedKeys), Range(Validators))
  BY SplitIndInv, Typing DEF ListInv
<1>2. StageInv(r, W, I, Range(QueuedKeys), Range(Validators))
  BY <1>1, RecordStage
<1>3. QueuedInv(q, W, I)
  BY <1>2, QueueLemma
<1>4. QueuedInv(s, W, I)
  BY <1>1, <1>3, SlashLemma
<1>5. PreparedInv(p, W, I)
  BY <1>4, PrepareLemma
<1>6. CandidatesOK(a) /\ CandidatesOK(r) /\ CandidatesOK(q) /\ CandidatesOK(s) /\ CandidatesOK(p)
  BY <1>1, <1>2, <1>3, <1>4, <1>5, StageParts DEF QueuedInv, PreparedInv
<1>7. OnlineOrdered(r)
  BY <1>6, OrderedRecord DEF OnlineSorted
<1>8. OnlineOrdered(q)
  BY <1>6, <1>7, QueueInPlace, OrderedSamePlaces
<1>9. OnlineOrdered(s)
  BY <1>1, <1>6, <1>8, OrderedSlash
<1>10. SamePlaces(p, k)
  BY <1>6, PrepareInPlace
<1>11. SamePlaces(t, p)
  BY <1>6, NewSessionInPlace
<1>12. /\ ProposedCandidates' = t
       /\ WaitingCandidates' = refresh_waiting_list(p)
  BY DEF SessionBlock, Prepared
<1>13. K \in SUBSET DOMAIN s
  OBVIOUS
<1> HIDE DEF t, p, k, K, s, q, r, A, now
<1>14. OnlineOrdered(k)
  BY <1>6, <1>9, <1>13, OrderedRetained DEF CandidatesOK, k
<1>15. OnlineOrdered(p)
  BY <1>10, <1>14, OrderedSamePlaces
<1>16. OnlineOrdered(t)
  BY <1>11, <1>15, OrderedSamePlaces
<1>17. /\ p \in Seq(CandidateInfo) /\ UniqueWho(p)
       /\ Range(WaitingCandidates') = Desired \union Members(Chosen(p))
       /\ Len(WaitingCandidates') = Len(DesiredCandidates) + Len(Chosen(p))
  BY <1>6, <1>12, RefreshLemma, WaitingLemma DEF CandidatesOK, Members
<1>18. \A c \in Range(t) : \E e \in Range(p) :
         e.who = c.who /\ Combined(e) = Combined(c) /\ (Fit(e) <=> Fit(c))
  BY <1>11 DEF SamePlaces, SameEntry, Range, Combined, Fit
<1>19. ASSUME NEW c \in Range(t), Fit(c), c.who \notin Range(WaitingCandidates')
       PROVE  /\ Len(WaitingCandidates') = MaxCandidates
              /\ \A d \in Range(t) :
                   d.who \in Range(WaitingCandidates') \ Desired => Combined(d) >= Combined(c)
  <2>1. PICK e \in Range(p) : e.who = c.who /\ Combined(e) = Combined(c) /\ Fit(e)
    BY <1>18, <1>19
  <2>2. e.who \notin Desired /\ e \notin Range(Chosen(p))
    BY <1>17, <1>19, <2>1 DEF Members
  <2>3. Len(WaitingCandidates') = MaxCandidates
    BY <1>17, <2>1, <2>2, PlacesLemma
  <2>4. ASSUME NEW d \in Range(t), d.who \in Range(WaitingCandidates') \ Desired
        PROVE  Combined(d) >= Combined(c)
    <3>1. PICK f \in Range(Chosen(p)) : f.who = d.who
      BY <1>17, <2>4 DEF Members
    <3>2. PICK g \in Range(p) : g.who = d.who /\ Combined(g) = Combined(d)
      BY <1>18
    <3>3. f \in Range(p)
      BY <1>17, ChosenLemma
    <3>4. f = g
      BY <1>17, <3>1, <3>2, <3>3, UniqueEntry
    <3>5. Combined(f) >= Combined(e)
      BY <1>15, <1>17, <2>1, <2>2, ChosenAreFirst
    <3> QED  BY <2>1, <3>2, <3>4, <3>5
  <2> QED  BY <2>3, <2>4
<1> QED  BY <1>12, <1>16, <1>19 DEF OnlineSorted, BestTaken

(* The calls that do not sort leave the order alone.                       *)
LEMMA EditRanks ==
  ASSUME IndInv, OnlineSorted, EditsOne
  PROVE  OnlineSorted'
<1> DEFINE s == ProposedCandidates
<1>0. PICK c \in Range(s) : \E d : Edits(c, d)
  BY DEF EditsOne
<1>1. PICK d : Edits(c, d)
  BY <1>0
<1> DEFINE t == Amend(s, d)
<1>2. s \in Seq(CandidateInfo) /\ UniqueWho(s) /\ \A i \in DOMAIN s : s[i] \in CandidateInfo
  BY SplitIndInv, LenProperties DEF ListInv, StageInv
<1>3. /\ t = [i \in DOMAIN s |-> t[i]] /\ DOMAIN t = DOMAIN s
      /\ \A i \in DOMAIN s : t[i] = IF s[i].who = d.who THEN d ELSE s[i]
  BY DEF Amend
<1>4. d \in CandidateInfo /\ d.who = c.who
  BY <1>1 DEF Edits
<1>5. s' = sort_proposed_candidates(t) \/ (s' = t /\ KeepsRank(c, d))
  BY <1>1 DEF Edits
<1> HIDE DEF t
<1>6. CASE s' = sort_proposed_candidates(t)
  <2>1. t \in Seq(CandidateInfo)
    BY <1>2, <1>3, <1>4, MapLemma
  <2> QED  BY <1>6, <2>1, SortedIsOrdered DEF OnlineSorted
<1>7. CASE s' = t /\ KeepsRank(c, d)
  <2>1. \A i \in DOMAIN s : s[i].who = d.who => s[i] = c
    BY <1>2, <1>4 DEF UniqueWho, Range
  <2>2. \A i \in DOMAIN s : ~t[i].offline => ~s[i].offline /\ Combined(t[i]) = Combined(s[i])
    BY <1>3, <1>7, <2>1 DEF KeepsRank
  <2>3. OnlineOrdered(t)
    BY <1>3, <2>2, OrderedInPlace DEF OnlineSorted
  <2> QED  BY <1>7, <2>3 DEF OnlineSorted
<1> QED  BY <1>5, <1>6, <1>7

(* Who registers comes last and has nothing.                               *)
LEMMA RegisterRanks ==
  ASSUME IndInv, OnlineSorted, NEW who \in Accounts, register_candidate(who)
  PROVE  OnlineSorted'
<1> DEFINE s == ProposedCandidates
           c == NewCandidate(who)
<1>1. s \in Seq(CandidateInfo) /\ block_number \in Nat /\ \A i \in DOMAIN s : s[i] \in CandidateInfo
  BY Typing, LenProperties
<1>2. c \in CandidateInfo /\ Combined(c) = 0
  BY RegisteredEntries DEF NewCandidate, Combined
<1>3. s' = Append(s, c)
  BY DEF register_candidate
<1> HIDE DEF c
<1>4. /\ DOMAIN s' = 1 .. Len(s) + 1
      /\ \A i \in 1 .. Len(s) : s'[i] = s[i]
      /\ s'[Len(s) + 1] = c
      /\ Len(s) \in Nat /\ DOMAIN s = 1 .. Len(s)
  BY <1>1, <1>2, <1>3, LenProperties, AppendProperties
<1>5. \A e \in CandidateInfo : Combined(e) \in Nat
  BY DEF Combined, CandidateInfo
<1>6. ASSUME NEW i \in DOMAIN s', NEW j \in DOMAIN s', i <= j, ~s'[i].offline, ~s'[j].offline
      PROVE  Combined(s'[i]) >= Combined(s'[j])
  <2>1. CASE j = Len(s) + 1
    <3>1. Combined(s'[i]) \in Nat
      BY <1>1, <1>2, <1>4, <1>5
    <3> QED  BY <1>2, <1>4, <2>1, <3>1
  <2>2. CASE j # Len(s) + 1
    <3>1. i \in DOMAIN s /\ j \in DOMAIN s /\ s'[i] = s[i] /\ s'[j] = s[j]
      BY <1>4, <1>6, <2>2
    <3> QED  BY <1>6, <3>1 DEF OnlineSorted, OnlineOrdered
  <2> QED  BY <2>1, <2>2
<1> QED  BY <1>6 DEF OnlineSorted, OnlineOrdered

LEMMA RankStep ==
  ASSUME IndInv, OnlineSorted, [Next]_vars
  PROVE  OnlineSorted' /\ (SessionEnds => BestTaken)
<1>0. block_number \in Nat
  BY Typing
<1>1. ASSUME NEW authors \in BlockAuthors, Block(authors)
      PROVE  OnlineSorted' /\ ~SessionEnds
  <2>1. CandidatesOK(ProposedCandidates)
    BY SplitIndInv, StageParts DEF ListInv
  <2>2. OnlineSorted'
    BY <1>1, <2>1, OrderedRecord DEF Block, OnlineSorted
  <2>3. ~SessionEnds
    BY <1>1 DEF Block, SessionEnds
  <2> QED  BY <2>2, <2>3
<1>2. ASSUME NEW authors \in BlockAuthors, SessionBlock(authors)
      PROVE  OnlineSorted' /\ BestTaken
  BY <1>2, SessionRanks
<1>3. CASE EditsOne
  BY <1>3, EditRanks DEF EditsOne, Edits, SessionEnds
<1>4. CASE KeyCall \/ UNCHANGED vars
  BY <1>4, KeyRefines DEF OnlineSorted, SessionEnds
<1>5. ASSUME NEW who \in Accounts, register_candidate(who)
      PROVE  OnlineSorted' /\ ~SessionEnds
  <2>1. ~SessionEnds
    BY <1>5 DEF register_candidate, SessionEnds
  <2> QED  BY <1>5, <2>1, RegisterRanks
<1>6. CASE Call
  BY <1>3, <1>4, <1>5, <1>6, CallCases
<1> QED  BY <1>1, <1>2, <1>4, <1>6 DEF Next

LEMMA InitRanks == Init => OnlineSorted
  BY DEF Init, OnlineSorted, OnlineOrdered

(* OnlineStaySorted: the online candidates are in the order of their bonds and
   stakes at all times, although four calls edit or append without a sort. *)
THEOREM OnlineStaySorted == Spec => []OnlineSorted
<1>1. IndInv /\ OnlineSorted /\ [Next]_vars => OnlineSorted'
  BY RankStep
<1> QED  BY <1>1, InitRanks, Inductive, PTL DEF Spec

(* BestAreTaken: at every session end the waiting list takes the best of the
   fit candidates and wastes no place, for any bonds, stakes and capacity. *)
THEOREM BestAreTaken == Spec => TopRanked
<1>1. IndInv /\ OnlineSorted /\ [Next]_vars =>
        [SessionEnds =>
           \A c \in Range(ProposedCandidates') :
             Fit(c) /\ c.who \notin Range(WaitingCandidates') =>
               /\ Len(WaitingCandidates') = MaxCandidates
               /\ \A d \in Range(ProposedCandidates') :
                    d.who \in Range(WaitingCandidates') \ Desired => Combined(d) >= Combined(c)]_vars
  BY RankStep DEF BestTaken
<1> QED  BY <1>1, OnlineStaySorted, Inductive, PTL DEF Spec, TopRanked
=============================================================================
