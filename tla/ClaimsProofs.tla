---------------------------- MODULE ClaimsProofs ----------------------------
(***************************************************************************)
(* Theorems about claims and links, for any tasks, callers, requests,      *)
(* transactions, users, Telegram accounts, tokens and webhook calls, and   *)
(* any number of errors, restarts and changes in between; and about the    *)
(* pages that send claims and purchases, for any wallets, amounts, caps,   *)
(* transactions, reloads and switches of the wallet.                       *)
(***************************************************************************)
EXTENDS AirdropClaim, Pages, FiniteSetTheorems, SequenceTheorems, TLAPS

-----------------------------------------------------------------------------
(* Links. *)

(* Places an update can be in once it has consumed its token. *)
Consumed == {"check", "mark", "find", "upsert", "linked"}

(* An update that has begun names a token that was issued; one that is     *)
(* past getAndDel is the one that consumed it.                             *)
UpdatesKnown ==
    \A u \in Updates :
       /\ ~ Stands(u, "new") => update[u].token \in Tokens /\ update[u].tg \in Telegrams
                                /\ issued[update[u].token] \in LinkUsers
       /\ update[u].at \in Consumed => u \in won[update[u].token]

(* A token that was consumed, or never issued, is not in Redis; and the    *)
(* update that consumed it was the only one.                               *)
TokensGone ==
    \A t \in Tokens :
       /\ issued[t] = NoUser => token[t] = "absent" /\ won[t] = {}
       /\ won[t] # {} => token[t] = "absent"
       /\ won[t] = {} \/ \E u \in Updates : won[t] = {u}

LinkInvariant == LinkTypeOK /\ UpdatesKnown /\ TokensGone /\ LinkFollowsConsent /\ OneOwner

LEMMA ConsumedOnce == TokensGone => TokenConsumedOnce
<1> SUFFICES ASSUME TokensGone, NEW t \in Tokens
             PROVE  Cardinality(won[t]) <= 1
  BY DEF TokenConsumedOnce
<1>1. CASE won[t] = {}
  BY <1>1, FS_EmptySet
<1>2. CASE won[t] # {}
  <2>1. PICK u \in Updates : won[t] = {u}
    BY <1>2 DEF TokensGone
  <2> QED
    BY <2>1, FS_Singleton
<1> QED
  BY <1>1, <1>2

LEMMA LinkInitInvariant == LinkInit => LinkInvariant
<1> SUFFICES ASSUME LinkInit
             PROVE  LinkInvariant
  OBVIOUS
<1>1. LinkTypeOK
  BY LinkAssumption DEF LinkInit, LinkTypeOK, LinkPlace, Account
<1>2. UpdatesKnown /\ TokensGone
  BY DEF LinkInit, UpdatesKnown, TokensGone, Stands, Consumed
<1>3. LinkFollowsConsent /\ OneOwner
  BY DEF LinkInit, LinkFollowsConsent, OneOwner
<1> QED
  BY <1>1, <1>2, <1>3 DEF LinkInvariant

(* What concerns tokens: making one, and letting keys expire. *)
LEMMA TokenStep ==
    ASSUME LinkInvariant, NEW t \in Tokens,
           (\E user \in LinkUsers : generateDeepLink(t, user)) \/ Expire(t) \/ ExpireMeta(t)
    PROVE  LinkInvariant'
<1> USE LinkAssumption DEF LinkInvariant
<1>1. CASE \E user \in LinkUsers : generateDeepLink(t, user)
  <2>1. PICK user \in LinkUsers : generateDeepLink(t, user)
    BY <1>1
  <2>2. LinkTypeOK'
    BY <2>1 DEF generateDeepLink, LinkTypeOK
  <2>3. UpdatesKnown'
    BY <2>1 DEF generateDeepLink, LinkTypeOK, UpdatesKnown, Stands
  <2>4. TokensGone'
    BY <2>1 DEF generateDeepLink, LinkTypeOK, TokensGone
  <2>5. LinkFollowsConsent' /\ OneOwner'
    BY <2>1 DEF generateDeepLink, LinkTypeOK, TokensGone, LinkFollowsConsent, OneOwner, Stands
  <2> QED
    BY <2>2, <2>3, <2>4, <2>5
<1>2. CASE Expire(t)
  <2>1. LinkTypeOK'
    BY <1>2 DEF Expire, LinkTypeOK
  <2>2. UpdatesKnown' /\ TokensGone'
    BY <1>2 DEF Expire, LinkTypeOK, UpdatesKnown, TokensGone, Stands
  <2>3. LinkFollowsConsent' /\ OneOwner'
    BY <1>2 DEF Expire, LinkFollowsConsent, OneOwner, Stands
  <2> QED
    BY <2>1, <2>2, <2>3
<1>3. CASE ExpireMeta(t)
  <2>1. LinkTypeOK'
    BY <1>3 DEF ExpireMeta, LinkTypeOK
  <2>2. UpdatesKnown' /\ TokensGone' /\ LinkFollowsConsent' /\ OneOwner'
    BY <1>3 DEF ExpireMeta, UpdatesKnown, TokensGone, LinkFollowsConsent, OneOwner, Stands
  <2> QED
    BY <2>1, <2>2
<1> QED
  BY <1>1, <1>2, <1>3

(* An update that only moves on: its token, the accounts and the histories *)
(* stay, and keys only go.                                                 *)
LEMMA MovingStep ==
    ASSUME LinkInvariant, LinkTypeOK', NEW u \in Updates, NEW place \in LinkPlace,
           ~ Stands(u, "new"), ~ Stands(u, "linked"),
           place # "new", place # "linked",
           place \in Consumed => update[u].at \in Consumed,
           Move(u, place),
           \A t \in Tokens : token'[t] = token[t] \/ token'[t] = "absent",
           UNCHANGED <<issued, accounts, won>>
    PROVE  LinkInvariant'
<1> USE DEF LinkInvariant
<1>1. /\ update'[u].at = place /\ update'[u].token = update[u].token /\ update'[u].tg = update[u].tg
      /\ \A v \in Updates : v # u => update'[v] = update[v]
  BY DEF Move, LinkTypeOK
<1>2. UpdatesKnown'
  BY <1>1 DEF UpdatesKnown, Stands
<1>3. TokensGone'
  BY DEF TokensGone
<1>4. LinkFollowsConsent'
  <2> SUFFICES ASSUME NEW a \in accounts
               PROVE  \E t \in Tokens : \E v \in won[t] :
                         issued[t] = a.user /\ update'[v].tg = a.tg /\ update'[v].at = "linked"
    BY DEF LinkFollowsConsent, Stands
  <2>0. PICK t \in Tokens : \E v \in won[t] : issued[t] = a.user /\ update[v].tg = a.tg /\ Stands(v, "linked")
    BY DEF LinkFollowsConsent
  <2>1. PICK v \in won[t] : issued[t] = a.user /\ update[v].tg = a.tg /\ Stands(v, "linked")
    BY <2>0
  <2>2. v # u /\ v \in Updates
    BY <2>1 DEF LinkTypeOK
  <2> QED
    BY <1>1, <2>1, <2>2 DEF Stands
<1>5. OneOwner'
  BY DEF OneOwner
<1> QED
  BY <1>2, <1>3, <1>4, <1>5

LEMMA MoveType ==
    ASSUME LinkTypeOK, NEW u \in Updates, NEW place \in LinkPlace, Move(u, place)
    PROVE  update' \in [Updates -> [at : LinkPlace, token : Tokens \cup {NoToken},
                                    tg : Telegrams \cup {NoTelegram}, late : BOOLEAN]]
<1>1. [update[u] EXCEPT !.at = place] \in [at : LinkPlace, token : Tokens \cup {NoToken},
                                           tg : Telegrams \cup {NoTelegram}, late : BOOLEAN]
  BY DEF LinkTypeOK
<1> QED
  BY <1>1 DEF Move, LinkTypeOK

(* The steps of a call that neither begin it, nor consume, nor link. *)
LEMMA OrdinaryStep ==
    ASSUME LinkInvariant, NEW u \in Updates,
           ReadMeta(u) \/ CheckExpiry(u) \/ MarkConsumed(u) \/ FindAccount(u) \/ Lose(u)
    PROVE  LinkInvariant'
<1> USE LinkAssumption
<1>0. LinkTypeOK /\ UpdatesKnown
  BY DEF LinkInvariant
<1>1. PICK place \in LinkPlace :
        /\ Move(u, place) /\ ~ Stands(u, "new") /\ ~ Stands(u, "linked")
        /\ place # "new" /\ place # "linked"
        /\ place \in Consumed => update[u].at \in Consumed
  <2>1. CASE ReadMeta(u)
    BY <2>1 DEF ReadMeta, Stands, LinkPlace, Consumed
  <2>2. CASE CheckExpiry(u)
    BY <2>2 DEF CheckExpiry, Stands, LinkPlace, Consumed
  <2>3. CASE MarkConsumed(u)
    BY <2>3 DEF MarkConsumed, Stands, LinkPlace, Consumed
  <2>4. CASE FindAccount(u)
    BY <2>4 DEF FindAccount, Stands, LinkPlace, Consumed
  <2>5. CASE Lose(u)
    BY <2>5 DEF Lose, Stands, LinkPlace, Consumed
  <2> QED
    BY <2>1, <2>2, <2>3, <2>4, <2>5
<1>2. update[u].token \in Tokens /\ update[u].tg \in Telegrams
  BY <1>0, <1>1 DEF UpdatesKnown
<1>3. UNCHANGED <<issued, accounts, won>>
  BY DEF ReadMeta, CheckExpiry, MarkConsumed, FindAccount, Lose
<1>4. /\ \A t \in Tokens : token'[t] = token[t] \/ token'[t] = "absent"
      /\ token' \in [Tokens -> {"absent", "live", "expired"}]
  BY <1>0, <1>2 DEF ReadMeta, CheckExpiry, MarkConsumed, FindAccount, Lose, LinkTypeOK
<1>5. meta' \in [Tokens -> Telegrams \cup {NoTelegram}]
  BY <1>0, <1>2 DEF ReadMeta, CheckExpiry, MarkConsumed, FindAccount, Lose, LinkTypeOK
<1>6. upsets' \in 0..MaxUpsets
  BY <1>0 DEF ReadMeta, CheckExpiry, MarkConsumed, FindAccount, Lose, Upset, LinkTypeOK
<1>7. LinkTypeOK'
  BY <1>0, <1>1, <1>3, <1>4, <1>5, <1>6, MoveType DEF LinkTypeOK
<1> QED
  BY <1>1, <1>3, <1>4, <1>7, MovingStep

LEMMA ValidateStep ==
    ASSUME LinkInvariant, NEW u \in Updates, NEW t \in Tokens, NEW tg \in Telegrams, validate(u, t, tg)
    PROVE  LinkInvariant'
<1> USE LinkAssumption DEF LinkInvariant
<1> DEFINE place == IF token[t] = "live" THEN "meta" ELSE "refused"
<1>1. /\ update'[u] = [at |-> place, token |-> t, tg |-> tg, late |-> FALSE]
      /\ \A v \in Updates : v # u => update'[v] = update[v]
      /\ UNCHANGED <<issued, accounts, won, upsets>>
      /\ issued[t] \in LinkUsers /\ Stands(u, "new")
      /\ \A s \in Tokens : token'[s] = token[s] \/ token'[s] = "absent"
  BY DEF validate, LinkTypeOK
<1>2. LinkTypeOK'
  <2>1. [at |-> place, token |-> t, tg |-> tg, late |-> FALSE]
          \in [at : LinkPlace, token : Tokens \cup {NoToken}, tg : Telegrams \cup {NoTelegram}, late : BOOLEAN]
    BY DEF LinkPlace
  <2>2. update' = [update EXCEPT ![u] = [at |-> place, token |-> t, tg |-> tg, late |-> FALSE]]
    BY DEF validate
  <2>3. update' \in [Updates -> [at : LinkPlace, token : Tokens \cup {NoToken},
                                 tg : Telegrams \cup {NoTelegram}, late : BOOLEAN]]
    BY <2>1, <2>2 DEF LinkTypeOK
  <2>4. /\ token' \in [Tokens -> {"absent", "live", "expired"}]
        /\ meta' \in [Tokens -> Telegrams \cup {NoTelegram}]
    BY DEF validate, LinkTypeOK
  <2> QED
    BY <1>1, <2>3, <2>4 DEF LinkTypeOK
<1>3. UpdatesKnown'
  BY <1>1 DEF UpdatesKnown, Stands, Consumed
<1>4. TokensGone'
  BY <1>1 DEF TokensGone
<1>5. LinkFollowsConsent'
  <2> SUFFICES ASSUME NEW a \in accounts
               PROVE  \E s \in Tokens : \E v \in won[s] :
                         issued[s] = a.user /\ update'[v].tg = a.tg /\ update'[v].at = "linked"
    BY <1>1 DEF LinkFollowsConsent, Stands
  <2>1. PICK s \in Tokens : \E v \in won[s] : issued[s] = a.user /\ update[v].tg = a.tg /\ Stands(v, "linked")
    BY DEF LinkFollowsConsent
  <2>2. PICK v \in won[s] : issued[s] = a.user /\ update[v].tg = a.tg /\ Stands(v, "linked")
    BY <2>1
  <2>3. v # u /\ v \in Updates
    BY <1>1, <2>2 DEF LinkTypeOK, Stands
  <2> QED
    BY <1>1, <2>2, <2>3 DEF Stands
<1>6. OneOwner'
  BY <1>1 DEF OneOwner
<1> QED
  BY <1>2, <1>3, <1>4, <1>5, <1>6

(* GETDEL: whoever gets the record is the first to consume the token. *)
LEMMA ConsumingStep ==
    ASSUME LinkInvariant, NEW u \in Updates, getAndDel(u)
    PROVE  LinkInvariant'
<1> USE LinkAssumption
<1> DEFINE t == update[u].token
<1>0. LinkTypeOK /\ UpdatesKnown /\ TokensGone
  BY DEF LinkInvariant
<1>1. t \in Tokens /\ issued[t] \in LinkUsers /\ update[u].at = "take"
  BY <1>0 DEF getAndDel, UpdatesKnown, Stands
<1>2. /\ token' = [token EXCEPT ![t] = "absent"]
      /\ \A s \in Tokens : token'[s] = token[s] \/ token'[s] = "absent"
      /\ token' \in [Tokens -> {"absent", "live", "expired"}] /\ token'[t] = "absent"
  BY <1>0, <1>1 DEF getAndDel, LinkTypeOK
<1>3. CASE token[t] = "absent"
  <2>1. Move(u, "refused") /\ UNCHANGED <<issued, meta, accounts, won, upsets>>
    BY <1>3 DEF getAndDel
  <2>2. "refused" \in LinkPlace /\ "refused" \notin Consumed
    BY DEF LinkPlace, Consumed
  <2>3. LinkTypeOK'
    BY <1>0, <1>2, <2>1, <2>2, MoveType DEF LinkTypeOK
  <2> QED
    BY <1>1, <1>2, <2>1, <2>2, <2>3, MovingStep DEF Stands
<1>4. CASE token[t] # "absent"
  <2>1. /\ update' = [update EXCEPT ![u].at = "check", ![u].late = (token[t] = "expired")]
        /\ won' = [won EXCEPT ![t] = @ \cup {u}] /\ UNCHANGED <<issued, meta, accounts, upsets>>
    BY <1>4 DEF getAndDel
  <2>2. won[t] = {}
    BY <1>0, <1>1, <1>4 DEF TokensGone
  <2>3. /\ update'[u].at = "check" /\ update'[u].token = t /\ update'[u].tg = update[u].tg
        /\ \A v \in Updates : v # u => update'[v] = update[v]
    BY <1>0, <2>1 DEF LinkTypeOK
  <2>4. won'[t] = {u} /\ \A s \in Tokens : s # t => won'[s] = won[s]
    BY <1>0, <1>1, <2>1, <2>2 DEF LinkTypeOK
  <2>5. LinkTypeOK'
    <3>1. [update[u] EXCEPT !.at = "check", !.late = (token[t] = "expired")]
            \in [at : LinkPlace, token : Tokens \cup {NoToken}, tg : Telegrams \cup {NoTelegram}, late : BOOLEAN]
      <4>1. ASSUME NEW b \in BOOLEAN
            PROVE  [update[u] EXCEPT !.at = "check", !.late = b]
                     \in [at : LinkPlace, token : Tokens \cup {NoToken}, tg : Telegrams \cup {NoTelegram}, late : BOOLEAN]
        <5>1. update[u] \in [at : LinkPlace, token : Tokens \cup {NoToken},
                             tg : Telegrams \cup {NoTelegram}, late : BOOLEAN]
          BY <1>0 DEF LinkTypeOK
        <5>2. [update[u] EXCEPT !.at = "check"]
                \in [at : LinkPlace, token : Tokens \cup {NoToken}, tg : Telegrams \cup {NoTelegram}, late : BOOLEAN]
          BY <5>1 DEF LinkPlace
        <5> QED
          BY <5>1, <5>2 DEF LinkPlace
      <4>2. (token[t] = "expired") \in BOOLEAN
        OBVIOUS
      <4> QED
        BY ONLY <4>1, <4>2, Zenon
    <3>2. update' \in [Updates -> [at : LinkPlace, token : Tokens \cup {NoToken},
                                   tg : Telegrams \cup {NoTelegram}, late : BOOLEAN]]
      BY <1>0, <2>1, <3>1 DEF LinkTypeOK
    <3>3. won' \in [Tokens -> SUBSET Updates]
      BY <1>0, <1>1, <2>1 DEF LinkTypeOK
    <3> QED
      BY <1>0, <1>2, <2>1, <3>2, <3>3 DEF LinkTypeOK
  <2>6. UpdatesKnown'
    <3> SUFFICES ASSUME NEW v \in Updates
                 PROVE  /\ update'[v].at # "new" => update'[v].token \in Tokens /\ update'[v].tg \in Telegrams
                                                    /\ issued[update'[v].token] \in LinkUsers
                        /\ update'[v].at \in Consumed => v \in won'[update'[v].token]
      BY <2>1 DEF UpdatesKnown, Stands
    <3>1. CASE v = u
      BY <1>0, <1>1, <2>3, <2>4, <3>1 DEF UpdatesKnown, Stands
    <3>2. CASE v # u
      <4>1. update'[v] = update[v]
        BY <2>3, <3>2
      <4>2. /\ update[v].at # "new" => update[v].token \in Tokens /\ update[v].tg \in Telegrams
                                       /\ issued[update[v].token] \in LinkUsers
            /\ update[v].at \in Consumed => v \in won[update[v].token] /\ update[v].token \in Tokens
        BY <1>0 DEF UpdatesKnown, Stands, Consumed
      <4> QED
        BY <2>2, <2>4, <4>1, <4>2
    <3> QED
      BY <3>1, <3>2
  <2>7. TokensGone'
    BY <1>0, <1>1, <1>2, <2>1, <2>4, LinkAssumption DEF TokensGone
  <2>8. LinkFollowsConsent'
    <3> SUFFICES ASSUME NEW a \in accounts
                 PROVE  \E s \in Tokens : \E v \in won'[s] :
                           issued[s] = a.user /\ update'[v].tg = a.tg /\ update'[v].at = "linked"
      BY <2>1 DEF LinkFollowsConsent, Stands
    <3>1. PICK s \in Tokens : \E v \in won[s] : issued[s] = a.user /\ update[v].tg = a.tg /\ Stands(v, "linked")
      BY DEF LinkInvariant, LinkFollowsConsent
    <3>2. PICK v \in won[s] : issued[s] = a.user /\ update[v].tg = a.tg /\ Stands(v, "linked")
      BY <3>1
    <3>3. v # u /\ v \in Updates /\ v \in won'[s]
      BY <1>0, <1>1, <2>2, <2>4, <3>2 DEF LinkTypeOK, Stands
    <3> QED
      BY <2>3, <3>2, <3>3 DEF Stands
  <2>9. OneOwner'
    BY <2>1 DEF LinkInvariant, OneOwner
  <2> QED
    BY <2>5, <2>6, <2>7, <2>8, <2>9 DEF LinkInvariant
<1> QED
  BY <1>3, <1>4

(* The upsert of linkAccount: the new account has this update behind it,   *)
(* and no other account names its user or its Telegram account.            *)
LEMMA LinkingStep ==
    ASSUME LinkInvariant, NEW u \in Updates, link(u)
    PROVE  LinkInvariant'
<1> DEFINE t == update[u].token
           user == issued[t]
           tg == update[u].tg
           others == {a \in accounts : a.user # user}
<1>0. LinkTypeOK /\ UpdatesKnown /\ TokensGone /\ LinkFollowsConsent /\ OneOwner
  BY DEF LinkInvariant
<1>1. update[u].at = "upsert" /\ t \in Tokens /\ tg \in Telegrams /\ user \in LinkUsers /\ u \in won[t]
  BY <1>0 DEF link, UpdatesKnown, Stands, Consumed
<1>2. UNCHANGED <<issued, token, meta, won, upsets>>
  BY DEF link
<1>3. CASE \E a \in others : a.tg = tg
  <2>1. Move(u, "refused") /\ UNCHANGED accounts
    BY <1>3 DEF link
  <2>2. "refused" \in LinkPlace /\ "refused" \notin Consumed
    BY DEF LinkPlace, Consumed
  <2>3. LinkTypeOK'
    BY <1>0, <1>2, <2>1, <2>2, MoveType DEF LinkTypeOK
  <2> QED
    BY <1>1, <1>2, <2>1, <2>2, <2>3, MovingStep DEF Stands
<1>4. CASE ~ \E a \in others : a.tg = tg
  <2>1. Move(u, "linked") /\ accounts' = others \cup {[user |-> user, tg |-> tg]}
    BY <1>4 DEF link
  <2>2. "linked" \in LinkPlace
    BY DEF LinkPlace
  <2>3. /\ update'[u].at = "linked" /\ update'[u].token = t /\ update'[u].tg = tg
        /\ \A v \in Updates : v # u => update'[v] = update[v]
    BY <1>0, <2>1 DEF Move, LinkTypeOK
  <2>4. LinkTypeOK'
    <3>1. accounts' \subseteq Account
      BY <1>0, <1>1, <2>1 DEF LinkTypeOK, Account
    <3> QED
      BY <1>0, <1>2, <2>1, <2>2, <3>1, MoveType DEF LinkTypeOK
  <2>5. UpdatesKnown'
    BY <1>0, <1>1, <1>2, <2>3 DEF UpdatesKnown, Stands, Consumed
  <2>6. TokensGone'
    BY <1>0, <1>2 DEF TokensGone
  <2>7. LinkFollowsConsent'
    <3> SUFFICES ASSUME NEW a \in accounts'
                 PROVE  \E s \in Tokens : \E v \in won[s] :
                           issued[s] = a.user /\ update'[v].tg = a.tg /\ update'[v].at = "linked"
      BY <1>2 DEF LinkFollowsConsent, Stands
    <3>1. CASE a = [user |-> user, tg |-> tg]
      BY <1>1, <2>3, <3>1
    <3>2. CASE a \in accounts
      <4>1. PICK s \in Tokens : \E v \in won[s] : issued[s] = a.user /\ update[v].tg = a.tg /\ Stands(v, "linked")
        BY <1>0, <3>2 DEF LinkFollowsConsent
      <4>2. PICK v \in won[s] : issued[s] = a.user /\ update[v].tg = a.tg /\ Stands(v, "linked")
        BY <4>1
      <4>3. v # u /\ v \in Updates
        BY <1>0, <1>1, <4>2 DEF LinkTypeOK, Stands
      <4> QED
        BY <2>3, <4>2, <4>3 DEF Stands
    <3> QED
      BY <2>1, <3>1, <3>2
  <2>8. OneOwner'
    BY <1>0, <1>4, <2>1 DEF OneOwner
  <2> QED
    BY <2>4, <2>5, <2>6, <2>7, <2>8 DEF LinkInvariant
<1> QED
  BY <1>3, <1>4

LEMMA UnlinkStep ==
    ASSUME LinkInvariant, NEW user \in LinkUsers, unlinkAccount(user)
    PROVE  LinkInvariant'
BY DEF LinkInvariant, unlinkAccount, LinkTypeOK, UpdatesKnown, TokensGone, LinkFollowsConsent,
       OneOwner, Stands

LEMMA LinkStepInvariant == LinkInvariant /\ [LinkNext]_linkVars => LinkInvariant'
<1> SUFFICES ASSUME LinkInvariant, [LinkNext]_linkVars
             PROVE  LinkInvariant'
  OBVIOUS
<1>1. CASE \E t \in Tokens : (\E user \in LinkUsers : generateDeepLink(t, user)) \/ Expire(t) \/ ExpireMeta(t)
  BY <1>1, TokenStep
<1>2. CASE \E u \in Updates, t \in Tokens, tg \in Telegrams : validate(u, t, tg)
  BY <1>2, ValidateStep
<1>3. CASE \E u \in Updates : Handle(u) \/ Lose(u)
  BY <1>3, OrdinaryStep, ConsumingStep, LinkingStep DEF Handle
<1>4. CASE \E user \in LinkUsers : unlinkAccount(user)
  BY <1>4, UnlinkStep
<1>5. CASE UNCHANGED linkVars
  BY <1>5 DEF linkVars, LinkInvariant, LinkTypeOK, UpdatesKnown, TokensGone, LinkFollowsConsent,
              OneOwner, Stands
<1> QED
  BY <1>1, <1>2, <1>3, <1>4, <1>5 DEF LinkNext

(* A deep-link token is consumed by one webhook call at most, every link   *)
(* was made by the call that consumed a token of that very user, from that *)
(* very Telegram account, and nobody shares an account                     *)
(* (verification.token.service.ts, account-linking.service.ts).            *)
THEOREM LinksAreSound == LinkSpec => []LinksInv
<1>1. LinkInvariant => LinksInv
  BY ConsumedOnce DEF LinkInvariant, LinksInv
<1> QED
  BY LinkInitInvariant, LinkStepInvariant, <1>1, PTL DEF LinkSpec

(* A link is replaced by its own user's or unlinked: no update of the bot  *)
(* for another user takes it over (unlink itself is open to anyone).       *)
THEOREM LinksAreNotTaken == LinkSpec => LinkNotTaken
<1> DEFINE Kept == \A a \in accounts :
              a \notin accounts' => \/ \A b \in accounts' : b.user # a.user /\ b.tg # a.tg
                                    \/ \E b \in accounts' : b.user = a.user
<1>1. ASSUME LinkInvariant, [LinkNext]_linkVars
      PROVE  [Kept]_linkVars
  <2>1. CASE \E u \in Updates : link(u)
    <3>1. PICK u \in Updates : link(u)
      BY <2>1
    <3>2. UNCHANGED accounts \/
          accounts' = {a \in accounts : a.user # issued[update[u].token]}
                      \cup {[user |-> issued[update[u].token], tg |-> update[u].tg]}
      BY <3>1 DEF link
    <3>3. ASSUME NEW a \in accounts, a \notin accounts'
          PROVE  \E b \in accounts' : b.user = a.user
      <4>1. a.user = issued[update[u].token]
        BY <3>2, <3>3
      <4>2. [user |-> issued[update[u].token], tg |-> update[u].tg] \in accounts'
        BY <3>2, <3>3
      <4> QED
        BY <4>1, <4>2
    <3> QED
      BY <3>3
  <2>2. CASE \E user \in LinkUsers : unlinkAccount(user)
    BY <1>1, <2>2 DEF unlinkAccount, LinkInvariant, OneOwner
  <2>3. CASE UNCHANGED accounts
    BY <2>3
  <2>4. \/ \E u \in Updates : link(u)
        \/ \E user \in LinkUsers : unlinkAccount(user)
        \/ UNCHANGED accounts
    BY <1>1 DEF LinkNext, linkVars, generateDeepLink, Expire, ExpireMeta, validate, Handle, ReadMeta,
                getAndDel, CheckExpiry, MarkConsumed, FindAccount, Lose
  <2> QED
    BY <2>1, <2>2, <2>3, <2>4
<1> QED
  BY LinkInitInvariant, LinkStepInvariant, <1>1, PTL DEF LinkSpec, LinkNotTaken

-----------------------------------------------------------------------------
(* Checks. *)

(* Where a caller is while it checks one task. *)
Named == {"ensure", "load", "account", "cache", "ask", "save", "touch"}

PlacesOf(p) ==
    CASE p \in Jobs -> {"off", "idle"} \cup Named
      [] p \in Gates -> {"off", "idle", "gate", "each", "load", "account", "ask", "save",
                        "touch", "passed", "refused"}
      [] p \in Sweeps -> {"off", "idle", "each", "load", "account", "ask", "save"}
      [] OTHER -> {"off", "idle", "tasks", "records", "store"}

(* What a caller of its kind can have at hand. *)
Fit(p, c) ==
    /\ c \in Local /\ c.at \in PlacesOf(p)
    /\ c.at \in Named => c.task \in VTasks
    /\ c.at = "store" => c.answer \in {"yes", "no"}

(* A yes was true once, and at a gate since the gate began; what a gate    *)
(* requires it has still to check, has found wanting, or was true.         *)
Begun == {"each", "load", "account", "ask", "save", "touch", "passed", "refused"}
Backed(p, c) ==
    /\ c.at \in {"save", "touch"} /\ c.answer = "yes" =>
          c.task \in everMember /\ (p \in Gates => c.task \in wasMember[p])
    /\ p \in Gates /\ c.at \in Begun =>
          /\ \A t \in VTasks : member[t] => t \in wasMember[p]
          /\ c.required \subseteq c.todo \cup c.failed \cup wasMember[p]
    /\ p \in Gates /\ c.at = "passed" => c.todo = {} /\ c.failed = {}

(* The cache, and what is still to be written to it, tells what was true.  *)
Told ==
    \A t \in VTasks : member[t] \/ memberCache[t] = "yes" \/ <<t, "yes">> \in late
                        => t \in everMember

ChecksInv ==
    VerifTypeOK /\ Told /\ \A p \in Callers : Fit(p, call[p]) /\ Backed(p, call[p])

LEMMA ChecksInitInv == VerifInit => ChecksInv
<1> SUFFICES ASSUME VerifInit PROVE ChecksInv
  OBVIOUS
<1>1. cast.moves \in Nat /\ cast.errors \in Nat /\ 0 \in 0..(Attempts - 1)
  BY VerificationAssumption DEF VerifInit
<1>2. Home \in Local /\ [Home EXCEPT !.at = "off"] \in Local
  BY <1>1 DEF Home, Local, Place, Status, Answer
<1>3. VerifTypeOK
  BY <1>1, <1>2 DEF VerifInit, VerifTypeOK, Status, Answer
<1>4. Told
  BY DEF VerifInit, Told
<1>5. \A p \in Callers : call[p].at \in {"off", "idle"}
  BY DEF VerifInit, Home
<1> QED
  BY <1>3, <1>4, <1>5 DEF ChecksInv, VerifTypeOK, Fit, Backed, PlacesOf, Named, Begun

(* A step of one caller, which leaves the world alone. *)
LEMMA CallerStep ==
    ASSUME ChecksInv, NEW p \in Callers, NEW c, Fit(p, c), Backed(p, c),
           call' = [call EXCEPT ![p] = c], UNCHANGED world,
           record' \in [VTasks -> Status], memberCache' \in [VTasks -> Answer],
           late' \subseteq VTasks \X Answer, eligCache' \in {"none", "yes", "no"},
           errors' \in 0..cast.errors, Told'
    PROVE  ChecksInv'
<1>1. call' \in [Callers -> Local]
  BY DEF ChecksInv, VerifTypeOK, Fit
<1>2. VerifTypeOK'
  BY <1>1 DEF ChecksInv, VerifTypeOK, world
<1>3. ASSUME NEW q \in Callers PROVE (Fit(q, call[q]) /\ Backed(q, call[q]))'
  <2>1. call'[q] = IF q = p THEN c ELSE call[q]
    BY DEF ChecksInv, VerifTypeOK
  <2>2. Fit(q, call'[q]) /\ Backed(q, call'[q])
    BY <2>1 DEF ChecksInv
  <2> QED
    BY <2>2 DEF Fit, Backed, world
<1> QED
  BY <1>2, <1>3 DEF ChecksInv

LEMMA LocalStep ==
    ASSUME ChecksInv, NEW p \in Callers, NEW c, Fit(p, c), Backed(p, c),
           call' = [call EXCEPT ![p] = c], UNCHANGED <<world, record, caches, errors>>
    PROVE  ChecksInv'
<1>1. /\ record' \in [VTasks -> Status] /\ memberCache' \in [VTasks -> Answer]
      /\ late' \subseteq VTasks \X Answer /\ eligCache' \in {"none", "yes", "no"}
      /\ errors' \in 0..cast.errors /\ Told' /\ UNCHANGED world
  BY DEF ChecksInv, VerifTypeOK, Told, caches, world
<1> QED
  BY <1>1, CallerStep

LEMMA RunKinds ==
    ASSUME NEW p \in Callers
    PROVE  /\ p \in Jobs => p \notin Gates /\ p \notin Sweeps /\ p \notin Lookups
           /\ p \in Gates => p \notin Jobs /\ p \notin Sweeps /\ p \notin Lookups
           /\ p \in Sweeps => p \notin Jobs /\ p \notin Gates /\ p \notin Lookups
           /\ p \in Lookups => p \notin Jobs /\ p \notin Gates /\ p \notin Sweeps
BY VerificationAssumption

(* What follows a check is in order, if VERIFIED was true at a gate. *)
LEMMA SettledInOrder ==
    ASSUME ChecksInv, NEW p \in Callers, call[p].at \in Named, NEW s,
           s = "VERIFIED" /\ p \in Gates => call[p].task \in wasMember[p]
    PROVE  Fit(p, Settled(p, s)) /\ Backed(p, Settled(p, s))
<1>1. Fit(p, call[p]) /\ Backed(p, call[p]) /\ call[p] \in Local
  BY DEF ChecksInv, Fit
<1>2. Attempts \in Nat /\ Home \in Local /\ 0 \in 0..(Attempts - 1)
  BY VerificationAssumption DEF Home, Local, Place, Status, Answer
<1>3. CASE p \in Jobs
  <2>1. CASE s = "error" /\ call[p].tries + 1 < Attempts
    <3>1. call[p].tries + 1 \in 0..(Attempts - 1)
      BY <1>1, <1>2, <2>1 DEF Local
    <3>2. Settled(p, s) = [call[p] EXCEPT !.at = "ensure", !.tries = @ + 1]
      BY <1>3, <2>1, RunKinds DEF Settled
    <3> QED
      BY <1>1, <1>3, <3>1, <3>2, RunKinds DEF Fit, Backed, Local, Place, PlacesOf, Named
  <2>2. CASE ~ (s = "error" /\ call[p].tries + 1 < Attempts)
    BY <1>2, <1>3, <2>2, RunKinds DEF Settled, Fit, Backed, PlacesOf, Named, Home
  <2> QED
    BY <2>1, <2>2
<1>4. CASE p \in Gates
  <2>1. Settled(p, s) =
          [call[p] EXCEPT !.at = "each", !.todo = @ \ {call[p].task}, !.task = NoTask,
                          !.seen = "NONE", !.answer = "none",
                          !.failed = IF s = "VERIFIED" THEN @ ELSE @ \cup {call[p].task}]
    BY <1>4, RunKinds DEF Settled
  <2>2. call[p].at \in Begun /\ call[p].task \in VTasks
    BY <1>1, <1>4, RunKinds DEF Fit, PlacesOf, Named, Begun
  <2>3. Settled(p, s) \in Local
    <3>1. /\ call[p].todo \ {call[p].task} \in SUBSET VTasks
          /\ (IF s = "VERIFIED" THEN call[p].failed ELSE call[p].failed \cup {call[p].task})
                \in SUBSET VTasks
      BY <1>1, <2>2 DEF Local
    <3>2. "each" \in Place /\ "NONE" \in Status /\ "none" \in Answer
      BY DEF Place, Status, Answer
    <3> QED
      BY <1>1, <2>1, <3>1, <3>2 DEF Local
  <2> QED
    BY <1>1, <1>4, <2>1, <2>2, <2>3, RunKinds DEF Fit, Backed, PlacesOf, Named, Begun, Local
<1>5. CASE p \notin Jobs /\ p \notin Gates
  <2>1. Settled(p, s) = [Home EXCEPT !.at = "each", !.todo = call[p].todo \ {call[p].task}]
    BY <1>5 DEF Settled
  <2>2. p \in Sweeps
    BY <1>1, <1>5 DEF Fit, PlacesOf, Named, Callers
  <2>3. [Home EXCEPT !.at = "each", !.todo = call[p].todo \ {call[p].task}] \in Local
    BY <1>1, <1>2 DEF Local, Place, Home
  <2>4. Settled(p, s).at = "each"
    BY <2>1 DEF Home
  <2> QED
    BY <1>5, <2>1, <2>2, <2>3, <2>4, RunKinds DEF Fit, Backed, PlacesOf, Named
<1> QED
  BY <1>3, <1>4, <1>5

LEMMA NewStatusIsBacked ==
    ASSUME ChecksInv, NEW p \in Callers, call[p].at \in {"save", "touch"}
    PROVE  /\ NewStatus(p) \in Status
           /\ NewStatus(p) = "VERIFIED" => call[p].task \in everMember
                                          /\ (p \in Gates => call[p].task \in wasMember[p])
BY DEF NewStatus, Status, ChecksInv, Backed

(* A check settles: what it leaves changed is in order. *)
LEMMA SettleStep ==
    ASSUME ChecksInv, NEW p \in Callers, call[p].at \in Named, NEW s, Settle(p, s),
           s = "VERIFIED" /\ p \in Gates => call[p].task \in wasMember[p],
           UNCHANGED <<world, caches>>, record' \in [VTasks -> Status], errors' \in 0..cast.errors
    PROVE  ChecksInv'
<1>1. Fit(p, Settled(p, s)) /\ Backed(p, Settled(p, s))
  BY SettledInOrder
<1>2. /\ memberCache' \in [VTasks -> Answer] /\ late' \subseteq VTasks \X Answer
      /\ eligCache' \in {"none", "yes", "no"} /\ Told' /\ UNCHANGED world
  BY DEF ChecksInv, VerifTypeOK, Told, caches, world
<1>3. call' = [call EXCEPT ![p] = Settled(p, s)]
  BY DEF Settle
<1> QED
  BY <1>1, <1>2, <1>3, CallerStep

LEMMA CheckStep ==
    ASSUME ChecksInv, NEW p \in Callers, Check(p)
    PROVE  ChecksInv'
<1> DEFINE t == call[p].task
<1>1. /\ Fit(p, call[p]) /\ Backed(p, call[p]) /\ call[p] \in Local
      /\ call \in [Callers -> Local] /\ record \in [VTasks -> Status]
      /\ memberCache \in [VTasks -> Answer] /\ late \subseteq VTasks \X Answer
      /\ eligCache \in {"none", "yes", "no"} /\ errors \in 0..cast.errors
  BY DEF ChecksInv, VerifTypeOK, Fit
<1>2. call[p].at \in Named /\ t \in VTasks
  BY <1>1 DEF Check, LoadRecord, LoadAccount, AskCache, AskLive, AskAndCache, SaveStatus,
              TouchStatus, At, Fit, Named
<1>3. CASE LoadRecord(p)
  <2>1. CASE Settle(p, "REJECTED") \/ Settle(p, "error")
    BY <1>1, <1>2, <1>3, <2>1, SettleStep DEF LoadRecord
  <2>2. CASE call' = [call EXCEPT ![p].at = "account", ![p].seen = record[t]]
    <3> DEFINE c == [call[p] EXCEPT !.at = "account", !.seen = record[t]]
    <3>1. call' = [call EXCEPT ![p] = c]
      BY <1>1, <2>2
    <3>2. Fit(p, c) /\ Backed(p, c)
      BY <1>1, <1>2, <1>3, RunKinds
         DEF LoadRecord, At, Fit, Backed, Local, Place, PlacesOf, Named, Begun
    <3> QED
      BY <1>3, <3>1, <3>2, LocalStep DEF LoadRecord
  <2> QED
    BY <1>3, <2>1, <2>2 DEF LoadRecord
<1>4. CASE LoadAccount(p)
  <2>1. CASE Go(p, IF p \in Jobs THEN "cache" ELSE "ask")
    <3> DEFINE c == [call[p] EXCEPT !.at = IF p \in Jobs THEN "cache" ELSE "ask"]
    <3>1. call' = [call EXCEPT ![p] = c]
      BY <1>1, <2>1 DEF Go
    <3>2. Fit(p, c) /\ Backed(p, c)
      BY <1>1, <1>2, <1>4, RunKinds
         DEF LoadAccount, At, Fit, Backed, Local, Place, PlacesOf, Named, Begun
    <3> QED
      BY <1>4, <3>1, <3>2, LocalStep DEF LoadAccount
  <2>2. CASE p \in Sweeps /\ call' = [call EXCEPT ![p].at = "save", ![p].answer = "failed"]
    <3> DEFINE c == [call[p] EXCEPT !.at = "save", !.answer = "failed"]
    <3>1. call' = [call EXCEPT ![p] = c]
      BY <1>1, <2>2
    <3>2. Fit(p, c) /\ Backed(p, c)
      BY <1>1, <1>2, <1>4, <2>2, RunKinds
         DEF LoadAccount, At, Fit, Backed, Local, Place, Answer, PlacesOf, Named, Begun
    <3> QED
      BY <1>4, <3>1, <3>2, LocalStep DEF LoadAccount
  <2>3. CASE Settle(p, "error")
    BY <1>1, <1>2, <1>4, <2>3, SettleStep DEF LoadAccount
  <2> QED
    BY <1>4, <2>1, <2>2, <2>3 DEF LoadAccount
<1>5. CASE AskCache(p)
  <2> DEFINE hit == memberCache[t]
             c == [call[p] EXCEPT !.at = IF hit = "none" THEN "ask" ELSE "save", !.answer = hit]
  <2>1. call' = [call EXCEPT ![p] = c]
    BY <1>1, <1>5 DEF AskCache
  <2>2. p \in Jobs
    BY <1>1, <1>5 DEF AskCache, At, Fit, PlacesOf
  <2>3. hit \in Answer /\ (hit = "yes" => t \in everMember)
    BY <1>1, <1>2 DEF ChecksInv, Told
  <2>4. Fit(p, c) /\ Backed(p, c)
    BY <1>1, <1>2, <2>2, <2>3, RunKinds DEF Fit, Backed, Local, Place, PlacesOf, Named, Begun
  <2> QED
    BY <1>5, <2>1, <2>4, LocalStep DEF AskCache
<1>6. CASE AskLive(p)
  <2>1. PICK a \in Answers(t) : call' = [call EXCEPT ![p].at = "save", ![p].answer = a]
    BY <1>6 DEF AskLive
  <2> DEFINE c == [call[p] EXCEPT !.at = "save", !.answer = a]
  <2>2. call' = [call EXCEPT ![p] = c]
    BY <1>1, <2>1
  <2>3. a \in Answer /\ (a = "yes" => member[t] /\ t \in everMember)
    BY <1>2, <2>1 DEF Answers, Answer, ChecksInv, Told
  <2>4. p \in Gates => call[p].at \in Begun
    BY <1>6 DEF AskLive, At, Begun
  <2>5. Fit(p, c) /\ Backed(p, c)
    BY <1>1, <1>2, <1>6, <2>3, <2>4, RunKinds
       DEF AskLive, At, Fit, Backed, Local, Place, PlacesOf, Named, Begun
  <2> QED
    BY <1>6, <2>2, <2>5, LocalStep DEF AskLive
<1>7. CASE AskAndCache(p)
  <2>1. PICK a \in IF memberCache[t] # "none" THEN {memberCache[t]} ELSE Answers(t) :
          /\ call' = [call EXCEPT ![p].at = "save", ![p].answer = a]
          /\ memberCache' = [memberCache EXCEPT ![t] = IF a = "failed" THEN @ ELSE a]
          /\ late' = late \cup {<<t, a>>}
    BY <1>7 DEF AskAndCache
  <2> DEFINE c == [call[p] EXCEPT !.at = "save", !.answer = a]
  <2>2. call' = [call EXCEPT ![p] = c]
    BY <1>1, <2>1
  <2>3. p \in Jobs /\ p \notin Gates
    BY <1>7, RunKinds DEF AskAndCache
  <2>4. a \in Answer /\ (a = "yes" => t \in everMember)
    BY <1>1, <1>2, <2>1 DEF Answers, Answer, ChecksInv, Told
  <2>5. Fit(p, c) /\ Backed(p, c)
    BY <1>1, <1>2, <2>3, <2>4, RunKinds DEF Fit, Backed, Local, Place, PlacesOf, Named, Begun
  <2>6. memberCache' \in [VTasks -> Answer] /\ late' \subseteq VTasks \X Answer
    BY <1>1, <1>2, <2>1, <2>4
  <2>7. Told'
    BY <1>1, <1>2, <1>7, <2>1, <2>4 DEF AskAndCache, ChecksInv, Told, world
  <2> QED
    BY <1>1, <1>7, <2>2, <2>5, <2>6, <2>7, CallerStep DEF AskAndCache
<1>8. CASE SaveStatus(p)
  <2>1. record' \in [VTasks -> Status]
    BY <1>1, <1>8, NewStatusIsBacked DEF SaveStatus, At
  <2>2. CASE p \in Sweeps
    BY <1>1, <1>2, <1>8, <2>1, <2>2, SettleStep, RunKinds DEF SaveStatus
  <2>3. CASE p \notin Sweeps
    <3> DEFINE c == [call[p] EXCEPT !.at = "touch"]
    <3>1. call' = [call EXCEPT ![p] = c]
      BY <1>1, <1>8, <2>3 DEF SaveStatus, Go
    <3>2. Fit(p, c) /\ Backed(p, c)
      BY <1>1, <1>2, <1>8, <2>3, RunKinds
         DEF SaveStatus, At, Fit, Backed, Local, Place, PlacesOf, Named, Begun
    <3>3. /\ memberCache' \in [VTasks -> Answer] /\ late' \subseteq VTasks \X Answer
          /\ eligCache' \in {"none", "yes", "no"} /\ Told' /\ errors' \in 0..cast.errors
          /\ UNCHANGED world
      BY <1>1, <1>8 DEF SaveStatus, ChecksInv, Told, caches, world
    <3> QED
      BY <2>1, <3>1, <3>2, <3>3, CallerStep
  <2> QED
    BY <2>2, <2>3
<1>9. CASE TouchStatus(p)
  <2>1. record' \in [VTasks -> Status]
    BY <1>1, <1>9, NewStatusIsBacked DEF TouchStatus, At
  <2>2. NewStatus(p) = "VERIFIED" /\ p \in Gates => t \in wasMember[p]
    BY <1>9, NewStatusIsBacked DEF TouchStatus, At
  <2>3. UNCHANGED <<world, caches, errors>> /\ Settle(p, NewStatus(p))
    BY <1>9 DEF TouchStatus
  <2>4. errors' \in 0..cast.errors
    BY <1>1, <2>3
  <2> QED
    BY <1>2, <2>1, <2>2, <2>3, <2>4, SettleStep
<1> QED
  BY <1>3, <1>4, <1>5, <1>6, <1>7, <1>8, <1>9 DEF Check

LEMMA ThrowStep ==
    ASSUME ChecksInv, NEW p \in Callers, CheckThrows(p)
    PROVE  ChecksInv'
<1>1. errors' \in 0..cast.errors
  BY VerificationAssumption DEF CheckThrows, ChecksInv, VerifTypeOK
<1>2. call[p].at \in Named /\ Settle(p, "error") /\ UNCHANGED <<world, caches>>
  BY DEF CheckThrows, Named
<1>3. record' \in [VTasks -> Status]
  BY DEF CheckThrows, ChecksInv, VerifTypeOK
<1> QED
  BY <1>1, <1>2, <1>3, SettleStep

(* What the user and the admins do, and what time does to the caches. *)
LEMMA WorldStep ==
    ASSUME ChecksInv, NEW t \in VTasks,
           \/ JoinOrLeave(t) \/ toggle(t) \/ LinkOrUnlink
           \/ EligibilityExpires \/ MemberExpires(t) \/ \E a \in Answer : LateWrite(t, a)
    PROVE  ChecksInv'
<1>1. cast.moves \in Nat /\ (Moved => moves' \in 0..cast.moves)
  BY VerificationAssumption DEF ChecksInv, VerifTypeOK, Moved
<1>2. CASE JoinOrLeave(t)
  <2>1. /\ member' = [member EXCEPT ![t] = ~@]
        /\ wasMember' = [g \in Gates |-> IF member'[t] THEN wasMember[g] \cup {t} ELSE wasMember[g]]
        /\ everMember' = IF member'[t] THEN everMember \cup {t} ELSE everMember
        /\ UNCHANGED <<cast, active, linked, record, caches, call, errors>>
    BY <1>2 DEF JoinOrLeave
  <2>2. VerifTypeOK'
    BY <1>1, <1>2, <2>1 DEF JoinOrLeave, ChecksInv, VerifTypeOK, caches
  <2>3. Told'
    BY <2>1 DEF ChecksInv, VerifTypeOK, Told, caches
  <2>4. ASSUME NEW p \in Callers PROVE (Fit(p, call[p]) /\ Backed(p, call[p]))'
    <3>1. Fit(p, call[p]) /\ Backed(p, call[p])
      BY DEF ChecksInv
    <3>2. everMember \subseteq everMember' /\ (p \in Gates => wasMember[p] \subseteq wasMember'[p])
      BY <2>1
    <3>3. ASSUME p \in Gates, \A u \in VTasks : member[u] => u \in wasMember[p]
          PROVE  \A u \in VTasks : member'[u] => u \in wasMember'[p]
      BY <2>1, <3>3 DEF ChecksInv, VerifTypeOK
    <3>4. Backed(p, call[p])'
      BY <2>1, <3>1, <3>2, <3>3 DEF Backed
    <3> QED
      BY <2>1, <3>1, <3>4 DEF Fit
  <2> QED
    BY <2>2, <2>3, <2>4 DEF ChecksInv
<1>3. CASE toggle(t) \/ LinkOrUnlink
  <2>1. UNCHANGED <<cast, member, wasMember, everMember, record, caches, call, errors>>
    BY <1>3 DEF toggle, LinkOrUnlink
  <2>2. VerifTypeOK'
    BY <1>1, <1>3, <2>1 DEF toggle, LinkOrUnlink, ChecksInv, VerifTypeOK, caches
  <2> QED
    BY <2>1, <2>2 DEF ChecksInv, Told, Fit, Backed, caches
<1>4. CASE EligibilityExpires \/ MemberExpires(t) \/ \E a \in Answer : LateWrite(t, a)
  <2>1. UNCHANGED <<world, record, call, errors>>
    BY <1>4 DEF EligibilityExpires, MemberExpires, LateWrite
  <2>2. VerifTypeOK'
    BY <1>4, <2>1
       DEF EligibilityExpires, MemberExpires, LateWrite, ChecksInv, VerifTypeOK, world, Answer
  <2>3. Told'
    BY <1>4, <2>1
       DEF EligibilityExpires, MemberExpires, LateWrite, ChecksInv, VerifTypeOK, Told, world, Answer
  <2> QED
    BY <2>1, <2>2, <2>3 DEF ChecksInv, Fit, Backed, world
<1> QED
  BY <1>2, <1>3, <1>4

LEMMA JobStarts ==
    ASSUME ChecksInv, NEW j \in Jobs, verifyTask(j) \/ ensurePending(j)
    PROVE  ChecksInv'
<1>1. /\ j \in Callers /\ call[j] \in Local /\ Fit(j, call[j]) /\ Backed(j, call[j])
      /\ call \in [Callers -> Local]
  BY DEF Callers, ChecksInv, VerifTypeOK
<1>2. CASE verifyTask(j)
  <2>1. PICK t \in cast.tasks : call' = [call EXCEPT ![j].at = "ensure", ![j].task = t]
    BY <1>2 DEF verifyTask
  <2> DEFINE c == [call[j] EXCEPT !.at = "ensure", !.task = t]
  <2>2. call' = [call EXCEPT ![j] = c]
    BY <1>1, <2>1
  <2>3. t \in VTasks
    BY VerificationAssumption DEF ChecksInv, VerifTypeOK
  <2>4. Fit(j, c) /\ Backed(j, c)
    BY <1>1, <2>3, RunKinds DEF Fit, Backed, Local, Place, PlacesOf, Named
  <2> QED
    BY <1>1, <1>2, <2>2, <2>4, LocalStep DEF verifyTask
<1>3. CASE ensurePending(j)
  <2> DEFINE c == [call[j] EXCEPT !.at = "load"]
  <2>1. call' = [call EXCEPT ![j] = c]
    BY <1>1, <1>3 DEF ensurePending, Go
  <2>2. Fit(j, c) /\ Backed(j, c)
    BY <1>1, <1>3, RunKinds DEF ensurePending, At, Fit, Backed, Local, Place, PlacesOf, Named
  <2>3. /\ record' \in [VTasks -> Status]
        /\ memberCache' \in [VTasks -> Answer] /\ late' \subseteq VTasks \X Answer
        /\ eligCache' \in {"none", "yes", "no"} /\ Told' /\ errors' \in 0..cast.errors
        /\ UNCHANGED world
    BY <1>3 DEF ensurePending, ChecksInv, VerifTypeOK, Status, Told, caches, world
  <2> QED
    BY <1>1, <2>1, <2>2, <2>3, CallerStep
<1> QED
  BY <1>2, <1>3

LEMMA SweepStarts ==
    ASSUME ChecksInv, NEW s \in Sweeps,
           reverificationAll(s) \/ SweepTask(s)
    PROVE  ChecksInv'
<1>1. /\ s \in Callers /\ call[s] \in Local /\ Fit(s, call[s]) /\ Backed(s, call[s])
      /\ call \in [Callers -> Local]
  BY DEF Callers, ChecksInv, VerifTypeOK
<1>2. CASE reverificationAll(s)
  <2> DEFINE c == [call[s] EXCEPT !.at = "each", !.todo = ActiveTasks]
  <2>1. call' = [call EXCEPT ![s] = c]
    BY <1>1, <1>2 DEF reverificationAll
  <2>2. Fit(s, c) /\ Backed(s, c)
    BY <1>1, RunKinds DEF ActiveTasks, Fit, Backed, Local, Place, PlacesOf, Named
  <2> QED
    BY <1>1, <1>2, <2>1, <2>2, LocalStep DEF reverificationAll
<1>3. CASE SweepTask(s)
  <2>1. CASE call' = [call EXCEPT ![s] = Home]
    <3>1. Fit(s, Home) /\ Backed(s, Home)
      BY VerificationAssumption, RunKinds
         DEF Fit, Backed, Home, Local, Place, Status, Answer, PlacesOf, Named, Begun
    <3> QED
      BY <1>1, <1>3, <2>1, <3>1, LocalStep DEF SweepTask
  <2>2. ASSUME NEW t \in call[s].todo,
               \/ call' = [call EXCEPT ![s].at = "load", ![s].task = t]
               \/ call' = [call EXCEPT ![s].todo = @ \ {t}]
        PROVE  ChecksInv'
    <3>1. t \in VTasks
      BY <1>1 DEF Local
    <3>2. CASE call' = [call EXCEPT ![s].at = "load", ![s].task = t]
      <4> DEFINE c == [call[s] EXCEPT !.at = "load", !.task = t]
      <4>1. call' = [call EXCEPT ![s] = c]
        BY <1>1, <3>2
      <4>2. Fit(s, c)
        BY <1>1, <3>1, RunKinds DEF Fit, Local, Place, PlacesOf
      <4>3. Backed(s, c)
        BY <1>1, <3>1, RunKinds DEF Backed, Local, Place, Named
      <4> QED
        BY <1>1, <1>3, <4>1, <4>2, <4>3, LocalStep DEF SweepTask
    <3>3. CASE call' = [call EXCEPT ![s].todo = @ \ {t}]
      <4> DEFINE c == [call[s] EXCEPT !.todo = @ \ {t}]
      <4>1. Fit(s, c) /\ Backed(s, c)
        BY <1>1, RunKinds DEF Fit, Backed, Local, PlacesOf, Named
      <4> QED
        BY <1>1, <1>3, <3>3, <4>1, LocalStep DEF SweepTask
    <3> QED
      BY <2>2, <3>2, <3>3
  <2> QED
    BY <1>3, <2>1, <2>2 DEF SweepTask
<1> QED
  BY <1>2, <1>3

LEMMA LookUpSteps ==
    ASSUME ChecksInv, NEW l \in Lookups, LookUpCache(l) \/ LookUpStep(l)
    PROVE  ChecksInv'
<1>1. /\ l \in Callers /\ call[l] \in Local /\ Fit(l, call[l]) /\ Backed(l, call[l])
      /\ call \in [Callers -> Local]
  BY DEF Callers, ChecksInv, VerifTypeOK
<1>2. CASE LookUpCache(l)
  <2> DEFINE c == [call[l] EXCEPT !.at = "tasks"]
  <2>1. Fit(l, c) /\ Backed(l, c) /\ call' = [call EXCEPT ![l] = c]
    BY <1>1, <1>2, RunKinds DEF LookUpCache, Go, Fit, Backed, Local, Place, PlacesOf, Named
  <2> QED
    BY <1>1, <1>2, <2>1, LocalStep DEF LookUpCache
<1>3. CASE LookUpTasks(l)
  <2> DEFINE c == [call[l] EXCEPT !.at = IF ActiveTasks = {} THEN "idle" ELSE "records",
                                  !.todo = ActiveTasks]
  <2>1. call' = [call EXCEPT ![l] = c]
    BY <1>1, <1>3 DEF LookUpTasks
  <2>2. Fit(l, c) /\ Backed(l, c)
    BY <1>1, RunKinds DEF Fit, Backed, Local, Place, PlacesOf, Named, ActiveTasks
  <2> QED
    BY <1>1, <1>3, <2>1, <2>2, LocalStep DEF LookUpTasks
<1>4. CASE LookUpRecords(l)
  <2> DEFINE yes == \A t \in call[l].todo : record[t] = "VERIFIED"
             c == [call[l] EXCEPT !.at = "store", !.answer = IF yes THEN "yes" ELSE "no"]
  <2>1. call' = [call EXCEPT ![l] = c]
    BY <1>1, <1>4 DEF LookUpRecords
  <2>2. Fit(l, c) /\ Backed(l, c)
    BY ZenonT(40), <1>1, RunKinds DEF Fit, Backed, Local, Place, Answer, PlacesOf, Named
  <2> QED
    BY <1>1, <1>4, <2>1, <2>2, LocalStep DEF LookUpRecords
<1>5. CASE LookUpStore(l)
  <2>1. Fit(l, Home) /\ Backed(l, Home)
    BY VerificationAssumption, RunKinds
       DEF Fit, Backed, Home, Local, Place, Status, Answer, PlacesOf, Named, Begun
  <2>2. eligCache' \in {"none", "yes", "no"}
    BY <1>1, <1>5 DEF LookUpStore, At, Fit
  <2>3. /\ record' \in [VTasks -> Status]
        /\ memberCache' \in [VTasks -> Answer] /\ late' \subseteq VTasks \X Answer
        /\ Told' /\ errors' \in 0..cast.errors /\ UNCHANGED world
        /\ call' = [call EXCEPT ![l] = Home]
    BY <1>5 DEF LookUpStore, ChecksInv, VerifTypeOK, Told, world
  <2> QED
    BY <1>1, <2>1, <2>2, <2>3, CallerStep
<1> QED
  BY <1>2, <1>3, <1>4, <1>5 DEF LookUpStep

(* What a gate requires is what is active when it begins, and what it      *)
(* knows of the user begins then, too.                                     *)
LEMMA GateStarts ==
    ASSUME ChecksInv, NEW g \in Gates, StartGate(g)
    PROVE  ChecksInv'
<1>1. /\ g \in Callers /\ call[g] \in Local /\ Fit(g, call[g])
      /\ call \in [Callers -> Local] /\ wasMember \in [Gates -> SUBSET VTasks]
  BY DEF Callers, ChecksInv, VerifTypeOK, Fit
<1> DEFINE inNow == {t \in VTasks : member[t]}
           c == [call[g] EXCEPT !.at = IF ActiveTasks = {} THEN "passed" ELSE "each",
                                !.todo = ActiveTasks, !.required = ActiveTasks, !.failed = {}]
<1>2. call' = [call EXCEPT ![g] = c] /\ wasMember' = [wasMember EXCEPT ![g] = inNow]
  BY <1>1 DEF StartGate
<1>3. ActiveTasks \in SUBSET VTasks
  BY DEF ActiveTasks
<1>4. Fit(g, c)
  BY <1>1, <1>3, RunKinds DEF Fit, Local, Place, PlacesOf, Named
<1>5. UNCHANGED <<cast, member, everMember, active, linked, moves, record, caches, errors>>
  BY DEF StartGate
<1>6. VerifTypeOK'
  <2>1. call' \in [Callers -> Local] /\ wasMember' \in [Gates -> SUBSET VTasks]
    BY <1>1, <1>2, <1>4 DEF Fit
  <2> QED
    BY <1>5, <2>1 DEF ChecksInv, VerifTypeOK, caches
<1>7. Told'
  BY <1>5 DEF ChecksInv, Told, caches
<1>8. Backed(g, call[g])'
  <2>1. wasMember'[g] = inNow /\ member' = member
    BY <1>1, <1>2, <1>5
  <2>2. /\ call'[g].at = IF ActiveTasks = {} THEN "passed" ELSE "each"
        /\ call'[g].todo = ActiveTasks /\ call'[g].required = ActiveTasks /\ call'[g].failed = {}
    BY <1>1, <1>2 DEF Local
  <2> QED
    BY <1>1, <2>1, <2>2 DEF Backed
<1>9. ASSUME NEW p \in Callers PROVE (Fit(p, call[p]) /\ Backed(p, call[p]))'
  <2>1. CASE p = g
    <3>1. call'[p] = c
      BY <1>1, <1>2, <2>1
    <3>2. Fit(p, call'[p])
      BY <1>4, <2>1, <3>1
    <3> QED
      BY <1>8, <2>1, <3>2 DEF Fit
  <2>2. CASE p # g
    <3>1. call'[p] = call[p] /\ (p \in Gates => wasMember'[p] = wasMember[p])
      BY <1>1, <1>2, <2>2
    <3>2. Fit(p, call[p]) /\ Backed(p, call[p])
      BY DEF ChecksInv
    <3> QED
      BY <1>5, <3>1, <3>2 DEF Fit, Backed
  <2> QED
    BY <2>1, <2>2
<1> QED
  BY <1>6, <1>7, <1>9 DEF ChecksInv

LEMMA GateSteps ==
    ASSUME ChecksInv, NEW g \in Gates, AskGate(g) \/ GateTask(g) \/ EndGate(g)
    PROVE  ChecksInv'
<1>1. /\ g \in Callers /\ call[g] \in Local /\ Fit(g, call[g]) /\ Backed(g, call[g])
      /\ call \in [Callers -> Local]
  BY DEF Callers, ChecksInv, VerifTypeOK
<1>2. CASE AskGate(g)
  <2> DEFINE c == [call[g] EXCEPT !.at = "gate"]
  <2>1. Fit(g, c) /\ Backed(g, c) /\ call' = [call EXCEPT ![g] = c]
    BY <1>1, <1>2, RunKinds DEF AskGate, Go, Fit, Backed, Local, Place, PlacesOf, Named, Begun
  <2> QED
    BY <1>1, <1>2, <2>1, LocalStep DEF AskGate
<1>3. CASE GateTask(g)
  <2>1. PICK t \in call[g].todo :
          \/ /\ record[t] = "VERIFIED"
             /\ call' = [call EXCEPT ![g].at = "load", ![g].task = t]
          \/ call' = [call EXCEPT ![g].todo = @ \ {t}, ![g].failed = @ \cup {t}]
    BY <1>3 DEF GateTask
  <2>2. t \in VTasks
    BY <1>1 DEF Local
  <2>3. CASE call' = [call EXCEPT ![g].at = "load", ![g].task = t]
    <3> DEFINE c == [call[g] EXCEPT !.at = "load", !.task = t]
    <3>1. Fit(g, c) /\ Backed(g, c) /\ call' = [call EXCEPT ![g] = c]
      BY <1>1, <1>3, <2>2, <2>3, RunKinds
         DEF GateTask, At, Fit, Backed, Local, Place, PlacesOf, Named, Begun
    <3> QED
      BY <1>1, <1>3, <3>1, LocalStep DEF GateTask
  <2>4. CASE call' = [call EXCEPT ![g].todo = @ \ {t}, ![g].failed = @ \cup {t}]
    <3> DEFINE c == [call[g] EXCEPT !.todo = @ \ {t}, !.failed = @ \cup {t}]
    <3>1. Fit(g, c) /\ Backed(g, c) /\ call' = [call EXCEPT ![g] = c]
      BY <1>1, <1>3, <2>2, <2>4, RunKinds
         DEF GateTask, At, Fit, Backed, Local, PlacesOf, Named, Begun
    <3> QED
      BY <1>1, <1>3, <3>1, LocalStep DEF GateTask
  <2> QED
    BY <2>1, <2>3, <2>4
<1>4. CASE EndGate(g)
  <2>1. PICK place \in {"passed", "refused"} :
          Go(g, place) /\ (place = "passed" => call[g].failed = {})
    BY <1>4 DEF EndGate
  <2> DEFINE c == [call[g] EXCEPT !.at = place]
  <2>0. call[g].at = "each" /\ call[g].todo = {}
    BY <1>4 DEF EndGate, At
  <2>1x. call' = [call EXCEPT ![g] = c]
    BY <1>1, <2>1 DEF Go
  <2>1y. c \in Local /\ c.at = place /\ c.todo = {}
    BY <1>1, <2>0, <2>1 DEF Local, Place
  <2>2. Fit(g, c) /\ Backed(g, c)
    BY <1>1, <2>0, <2>1, <2>1y, RunKinds DEF Fit, Backed, Local, PlacesOf, Named, Begun
  <2>3. /\ record' \in [VTasks -> Status]
        /\ memberCache' \in [VTasks -> Answer] /\ late' \subseteq VTasks \X Answer
        /\ eligCache' \in {"none", "yes", "no"} /\ Told' /\ UNCHANGED world
    BY <1>4 DEF EndGate, ChecksInv, VerifTypeOK, Told, world
  <2>4. errors' \in 0..cast.errors
    BY <1>4, VerificationAssumption DEF EndGate, ChecksInv, VerifTypeOK
  <2> QED
    BY <1>1, <2>1x, <2>2, <2>3, <2>4, CallerStep
<1> QED
  BY <1>2, <1>3, <1>4

LEMMA VerifStepInv ==
    ASSUME ChecksInv, VerifSteps \/ (\E g \in Gates : AskGate(g)) \/ UNCHANGED verifVars
    PROVE  ChecksInv'
<1>1. cast.tasks \subseteq VTasks
  BY VerificationAssumption DEF ChecksInv, VerifTypeOK
<1>2. CASE \E t \in VTasks : \/ JoinOrLeave(t) \/ toggle(t) \/ MemberExpires(t)
                             \/ \E a \in Answer : LateWrite(t, a)
  BY <1>2, WorldStep
<1>3. CASE LinkOrUnlink \/ EligibilityExpires
  <2>1. UNCHANGED <<cast, member, wasMember, everMember, active, record, memberCache, late, call,
                    errors>>
    BY <1>3 DEF LinkOrUnlink, EligibilityExpires, world, caches
  <2>2. cast.moves \in Nat
    BY VerificationAssumption DEF ChecksInv, VerifTypeOK
  <2>3. linked' \in BOOLEAN /\ moves' \in 0..cast.moves /\ eligCache' \in {"none", "yes", "no"}
    <3>1. linked \in BOOLEAN /\ moves \in 0..cast.moves /\ eligCache \in {"none", "yes", "no"}
      BY DEF ChecksInv, VerifTypeOK
    <3>2. CASE LinkOrUnlink
      BY <2>2, <3>1, <3>2 DEF LinkOrUnlink, Moved, caches
    <3>3. CASE EligibilityExpires
      BY <3>1, <3>3 DEF EligibilityExpires, world
    <3> QED
      BY <1>3, <3>2, <3>3
  <2>4. VerifTypeOK'
    BY <2>1, <2>3 DEF ChecksInv, VerifTypeOK
  <2> QED
    BY <2>1, <2>4 DEF ChecksInv, Told, Fit, Backed
<1>4. CASE \E j \in Jobs : verifyTask(j) \/ JobStep(j)
  BY <1>4, JobStarts, CheckStep DEF JobStep, Callers
<1>5. CASE \E s \in Sweeps : reverificationAll(s) \/ SweepStep(s)
  BY <1>5, SweepStarts, CheckStep DEF SweepStep, Callers
<1>6. CASE \E g \in Gates : GateStep(g) \/ AskGate(g)
  BY <1>6, GateStarts, GateSteps, CheckStep DEF GateStep, Callers
<1>7. CASE \E l \in Lookups : LookUpCache(l) \/ LookUpStep(l)
  BY <1>7, LookUpSteps
<1>8. CASE \E p \in Callers : CheckThrows(p)
  BY <1>8, ThrowStep
<1>9. CASE UNCHANGED verifVars
  BY <1>9 DEF verifVars, world, caches, ChecksInv, VerifTypeOK, Told, Fit, Backed
<1> QED
  BY <1>1, <1>2, <1>3, <1>4, <1>5, <1>6, <1>7, <1>8, <1>9 DEF VerifSteps, CacheStep
-----------------------------------------------------------------------------
(* Claims. *)

\* past the check for an existing row, or with a row that counts
Entered(g) == desk[g] = "gate" \/ row[g] \in {"PENDING", "CLAIMED"}

(* A row belongs to a request that is past the gate, and stays PENDING as  *)
(* long as the request attends to it; the contract pays the wallet once.   *)
RowsInv ==
    /\ ClaimTypeOK
    /\ \A g \in Claimants :
          /\ row[g] # "none" => desk[g] \in {"waiting", "marking", "done"}
          /\ desk[g] \in {"waiting", "marking"} => row[g] = "PENDING"
          /\ row[g] = "CLAIMED" => chain[TxOf[g]] = "success"
    /\ \A g, h \in Claimants : g # h /\ Entered(g) /\ Entered(h) => g \in met[h]
    /\ \A x, y \in AirdropTxs : chain[x] = "success" /\ chain[y] = "success" => x = y
    /\ PendingIsAttended

RequestInv == ChecksInv /\ RowsInv

LEMMA RequestInitInv == ClaimInit => RequestInv
<1> SUFFICES ASSUME ClaimInit PROVE RequestInv
  OBVIOUS
<1>1. ChecksInv
  BY ChecksInitInv DEF ClaimInit
<1>2. cast.changes \in Nat
  BY <1>1, VerificationAssumption DEF ChecksInv, VerifTypeOK
<1>3. ClaimTypeOK
  <2>1. VerifTypeOK
    BY <1>1 DEF ChecksInv
  <2>2. changes \in 0..cast.changes
    BY <1>2 DEF ClaimInit
  <2>3. blocked \in BOOLEAN /\ proven \in BOOLEAN
    BY DEF ClaimInit
  <2>4. /\ row \in [Claimants -> RowStatus]
        /\ chain \in [Txs -> {"sent", "success", "reverted"}]
        /\ desk \in [Claimants -> {"idle", "existing", "gate", "waiting", "marking", "done"}]
        /\ met \in [Claimants -> SUBSET Claimants] /\ cut \subseteq Claimants
    BY DEF ClaimInit, RowStatus
  <2> QED
    BY <2>1, <2>2, <2>3, <2>4 DEF ClaimTypeOK
<1> QED
  BY <1>1, <1>3, ClaimAssumption DEF ClaimInit, RequestInv, RowsInv, Entered, PendingIsAttended

(* A stop of the process leaves of the calls only the jobs, which begin    *)
(* anew; what was written stays.                                           *)
LEMMA RestartKeepsChecks ==
    ASSUME ChecksInv, Restart
    PROVE  ChecksInv'
<1>1. Home \in Local /\ 0 \in 0..(Attempts - 1)
  BY VerificationAssumption DEF Home, Local, Place, Status, Answer
<1>2. ASSUME NEW p \in Callers
      PROVE  Fit(p, call'[p]) /\ Backed(p, call'[p])
  <2>1. /\ Fit(p, call[p]) /\ Backed(p, call[p]) /\ call[p] \in Local
        /\ call'[p] = CASE At(p, "off") -> call[p]
                        [] p \in Jobs /\ ~At(p, "off") /\ ~At(p, "idle") ->
                             [Home EXCEPT !.at = "ensure", !.task = call[p].task]
                        [] OTHER -> Home
    BY DEF ChecksInv, Fit, Restart
  <2>2. CASE At(p, "off")
    BY <2>1, <2>2
  <2>3. CASE p \in Jobs /\ ~At(p, "off") /\ ~At(p, "idle")
    <3>1. call[p].at \in Named /\ call[p].task \in VTasks
      <4>1. PlacesOf(p) = {"off", "idle"} \cup Named
        BY <2>3, RunKinds DEF PlacesOf
      <4> QED
        BY <2>1, <2>3, <4>1 DEF Fit, At
    <3>2. call'[p] = [Home EXCEPT !.at = "ensure", !.task = call[p].task]
      BY <2>1, <2>3
    <3> QED
      BY <1>1, <2>3, <3>1, <3>2, RunKinds
         DEF Fit, Backed, Home, Local, Place, PlacesOf, Named, Begun
  <2>4. CASE ~At(p, "off") /\ ~(p \in Jobs /\ ~At(p, "idle"))
    <3>1. call'[p] = Home
      BY <2>1, <2>4
    <3> QED
      BY <1>1, <3>1 DEF Fit, Backed, Home, PlacesOf, Named, Begun
  <2> QED
    BY <2>2, <2>3, <2>4
<1>3. UNCHANGED <<world, record, caches, errors>>
  BY DEF Restart
<1>4. call' \in [Callers -> Local]
  BY <1>2 DEF Restart, Fit
<1>5. VerifTypeOK' /\ Told'
  BY <1>3, <1>4 DEF ChecksInv, VerifTypeOK, Told, world, caches
<1> QED
  BY <1>2, <1>3, <1>5 DEF ChecksInv, Fit, Backed, world

(* A request starts the gate, or drops it; its other steps leave the       *)
(* checks alone but for a database error.                                  *)
LEMMA RequestKeepsChecks ==
    ASSUME ChecksInv, NEW g \in Claimants, recordClaim(g)
    PROVE  ChecksInv'
<1>1. /\ g \in Gates /\ g \in Callers /\ call[g] \in Local /\ Fit(g, call[g]) /\ Backed(g, call[g])
      /\ call \in [Callers -> Local]
  BY ClaimAssumption DEF Callers, ChecksInv, VerifTypeOK
<1>2. CASE FindExisting(g)
  <2> DEFINE found == \E h \in Claimants : row[h] \in {"PENDING", "CLAIMED"}
             c == [call[g] EXCEPT !.at = IF found THEN "idle" ELSE "gate"]
  <2>1. call' = [call EXCEPT ![g] = c] /\ UNCHANGED <<world, record, caches, errors>>
    BY <1>1, <1>2 DEF FindExisting
  <2>2. Fit(g, c) /\ Backed(g, c)
    BY <1>1, RunKinds DEF Fit, Backed, Local, Place, PlacesOf, Named, Begun
  <2> QED
    BY <1>1, <2>1, <2>2, LocalStep
<1>3. CASE ReceiptThrows(g) \/ MarkThrows(g)
  <2>1. errors' \in 0..cast.errors /\ UNCHANGED <<world, record, caches, call>>
    BY <1>3, VerificationAssumption DEF ReceiptThrows, MarkThrows, ChecksInv, VerifTypeOK
  <2> QED
    BY <2>1 DEF ChecksInv, VerifTypeOK, Told, Fit, Backed, world, caches
<1>4. CASE validateClaim(g) \/ Refused(g) \/ createClaim(g) \/ Receipt(g) \/ markClaimFailed(g)
  BY <1>4, VerifStepInv DEF validateClaim, Refused, createClaim, Receipt, markClaimFailed
<1> QED
  BY <1>2, <1>3, <1>4 DEF recordClaim

LEMMA ClaimStepKeepsChecks ==
    ASSUME ChecksInv, [ClaimNext]_claimVars
    PROVE  ChecksInv'
<1>1. CASE \E g \in Claimants : recordClaim(g)
  BY <1>1, RequestKeepsChecks
<1>2. CASE Restart
  BY <1>2, RestartKeepsChecks
<1>3. CASE \/ VerifSteps \/ (\E g \in Gates : AskGate(g)) \/ UNCHANGED verifVars
  BY <1>3, VerifStepInv
<1> QED
  BY <1>1, <1>2, <1>3 DEF ClaimNext, claimVars, Mine, Rebuild, BlockUser

\* one request moves to place, and its row gets status, or keeps it
Filed(g, place, status) ==
    desk' = [desk EXCEPT ![g] = place] /\ row' = [row EXCEPT ![g] = status]

(* A row is written from where its request stands. *)
LEMMA DeskStep ==
    ASSUME RowsInv, VerifTypeOK', NEW g \in Claimants, NEW place, NEW status,
           place \in {"idle", "existing", "gate", "waiting", "marking", "done"}, status \in RowStatus,
           Filed(g, place, status),
           UNCHANGED <<cast, chain, blocked, proven, met, changes>>,
           cut \subseteq cut', cut' \subseteq Claimants,
           place = "gate" \/ status \in {"PENDING", "CLAIMED"} => Entered(g),
           status # "none" => place \in {"waiting", "marking", "done"},
           place \in {"waiting", "marking"} => status = "PENDING",
           status = "CLAIMED" => chain[TxOf[g]] = "success",
           status = "PENDING" => place \in {"waiting", "marking"} \/ g \in cut'
    PROVE  RowsInv'
<1>1. /\ \A h \in Claimants : desk'[h] = IF h = g THEN place ELSE desk[h]
      /\ \A h \in Claimants : row'[h] = IF h = g THEN status ELSE row[h]
  BY DEF Filed, RowsInv, ClaimTypeOK
<1>2. ClaimTypeOK'
  BY DEF Filed, RowsInv, ClaimTypeOK
<1>3. \A h \in Claimants : Entered(h)' => Entered(h)
  BY <1>1 DEF Entered
<1>4. PendingIsAttended'
  BY <1>1 DEF RowsInv, PendingIsAttended
<1> QED
  BY <1>1, <1>2, <1>3, <1>4 DEF RowsInv

LEMMA RequestKeepsRows ==
    ASSUME ChecksInv', RowsInv, NEW g \in Claimants, recordClaim(g)
    PROVE  RowsInv'
<1>1. /\ VerifTypeOK' /\ row \in [Claimants -> RowStatus] /\ row[g] \in RowStatus
      /\ desk \in [Claimants -> {"idle", "existing", "gate", "waiting", "marking", "done"}]
      /\ cut \subseteq Claimants /\ blocked \in BOOLEAN /\ proven \in BOOLEAN
      /\ met \in [Claimants -> SUBSET Claimants] /\ TxOf[g] \in Txs
  BY ClaimAssumption DEF ChecksInv, RowsInv, ClaimTypeOK
<1>2. row = [row EXCEPT ![g] = row[g]]
  BY <1>1
<1>3. CASE validateClaim(g)
  <2> DEFINE place == IF blocked \/ ~proven THEN "done" ELSE "existing"
  <2>1. /\ desk' = [desk EXCEPT ![g] = place] /\ desk[g] = "idle"
        /\ UNCHANGED <<cast, row, chain, blocked, proven, met, cut, changes>>
    BY <1>3 DEF validateClaim, verifVars, world
  <2>2. row[g] = "none"
    BY <1>1, <2>1 DEF RowsInv, RowStatus
  <2>3. Filed(g, place, row[g])
    BY <1>2, <2>1 DEF Filed
  <2> QED
    BY <1>1, <2>1, <2>2, <2>3, DeskStep
<1>4. CASE FindExisting(g)
  <2> DEFINE found == \E h \in Claimants : row[h] \in {"PENDING", "CLAIMED"}
             place == IF found THEN "done" ELSE "gate"
  <2>1. /\ desk' = [desk EXCEPT ![g] = place] /\ desk[g] = "existing"
        /\ met' = [h \in Claimants |-> CASE h = g -> Deciding
                                          [] h \in Deciding -> met[h] \cup {g}
                                          [] OTHER -> met[h]]
        /\ UNCHANGED <<cast, row, chain, blocked, proven, cut, changes>>
    BY <1>4 DEF FindExisting, world
  <2>2. Deciding \subseteq Claimants /\ row[g] = "none"
    BY <1>1, <2>1 DEF Deciding, RowsInv, RowStatus
  <2>3. /\ met'[g] = Deciding
        /\ \A h \in Claimants : h # g => met[h] \subseteq met'[h]
        /\ \A h \in Claimants : h # g /\ h \in Deciding => g \in met'[h]
        /\ \A h \in Claimants : met'[h] \subseteq Claimants
    <3>0. g \notin Deciding
      BY <2>1 DEF Deciding
    <3>1. met'[g] = Deciding
      BY <2>1, <3>0
    <3>2. \A h \in Claimants : h # g /\ h \in Deciding => met'[h] = met[h] \cup {g}
      BY <2>1
    <3>3. \A h \in Claimants : h # g /\ h \notin Deciding => met'[h] = met[h]
      BY <2>1
    <3>4. \A h \in Claimants : met[h] \subseteq Claimants
      BY <1>1
    <3> HIDE DEF place
    <3> QED
      BY <2>2, <3>1, <3>2, <3>3, <3>4
  <2>4. met' \in [Claimants -> SUBSET Claimants]
    <3>1. met' = [h \in Claimants |-> met'[h]]
      BY <2>1
    <3> QED
      BY <2>3, <3>1
  <2>5. ClaimTypeOK'
    BY <1>1, <2>1, <2>4 DEF RowsInv, ClaimTypeOK
  <2>6. ASSUME NEW h \in Claimants, NEW k \in Claimants, h # k, Entered(h)', Entered(k)'
        PROVE  h \in met'[k]
    <3>1. CASE h # g /\ k # g
      BY <1>1, <2>1, <2>3, <2>6, <3>1 DEF Entered, RowsInv
    <3>2. CASE h = g \/ k = g
      <4>1. ~found /\ desk'[g] = "gate"
        BY <1>1, <2>1, <2>2, <2>6, <3>2 DEF Entered
      <4>2. (h # g => h \in Deciding) /\ (k # g => k \in Deciding)
        BY <1>1, <2>1, <2>6, <4>1 DEF Entered, Deciding
      <4> QED
        BY <2>3, <2>6, <3>2, <4>2
    <3> QED
      BY <3>1, <3>2
  <2>7. PendingIsAttended'
    BY <1>1, <2>1, <2>2 DEF RowsInv, PendingIsAttended
  <2>8. \A h \in Claimants :
          /\ row'[h] # "none" => desk'[h] \in {"waiting", "marking", "done"}
          /\ desk'[h] \in {"waiting", "marking"} => row'[h] = "PENDING"
          /\ row'[h] = "CLAIMED" => chain'[TxOf[h]] = "success"
    BY <1>1, <2>1, <2>2 DEF RowsInv
  <2> QED
    BY <2>1, <2>5, <2>6, <2>7, <2>8 DEF RowsInv
<1>5. CASE Refused(g)
  <2>1. /\ desk' = [desk EXCEPT ![g] = "done"] /\ desk[g] = "gate"
        /\ UNCHANGED <<cast, row, chain, blocked, proven, met, cut, changes>>
    BY <1>5 DEF Refused, verifVars, world
  <2>2. row[g] = "none"
    BY <1>1, <2>1 DEF RowsInv, RowStatus
  <2>3. Filed(g, "done", row[g])
    BY <1>2, <2>1 DEF Filed
  <2> QED
    BY <1>1, <2>1, <2>2, <2>3, DeskStep
<1>6. CASE createClaim(g)
  <2>1. /\ desk' = [desk EXCEPT ![g] = "waiting"] /\ row' = [row EXCEPT ![g] = "PENDING"]
        /\ desk[g] = "gate" /\ UNCHANGED <<cast, chain, blocked, proven, met, cut, changes>>
    BY <1>6 DEF createClaim, verifVars, world
  <2>2. Entered(g) /\ "PENDING" \in RowStatus
    BY <2>1 DEF Entered, RowStatus
  <2>3. Filed(g, "waiting", "PENDING")
    BY <1>2, <2>1 DEF Filed
  <2> QED
    BY <1>1, <2>1, <2>2, <2>3, DeskStep
<1>7. CASE Receipt(g)
  <2> DEFINE status == IF chain[TxOf[g]] = "success" THEN "CLAIMED" ELSE "FAILED"
  <2>1. /\ desk' = [desk EXCEPT ![g] = "done"] /\ row' = [row EXCEPT ![g] = status]
        /\ desk[g] = "waiting" /\ UNCHANGED <<cast, chain, blocked, proven, met, cut, changes>>
    BY <1>7 DEF Receipt, verifVars, world
  <2>2. Entered(g) /\ status \in RowStatus /\ status # "PENDING"
    BY <2>1 DEF Entered, RowStatus, RowsInv
  <2>3. Filed(g, "done", status)
    BY <1>2, <2>1 DEF Filed
  <2> QED
    BY <1>1, <2>1, <2>2, <2>3, DeskStep
<1>8. CASE ReceiptThrows(g)
  <2>1. /\ desk' = [desk EXCEPT ![g] = "marking"] /\ desk[g] = "waiting"
        /\ UNCHANGED <<cast, row, chain, blocked, proven, met, cut, changes>>
    BY <1>8 DEF ReceiptThrows, world
  <2>2. Entered(g) /\ row[g] = "PENDING"
    BY <2>1 DEF Entered, RowsInv
  <2>3. Filed(g, "marking", row[g])
    BY <1>2, <2>1 DEF Filed
  <2> QED
    BY <1>1, <2>1, <2>2, <2>3, DeskStep
<1>9. CASE markClaimFailed(g)
  <2>1. /\ desk' = [desk EXCEPT ![g] = "done"] /\ row' = [row EXCEPT ![g] = "FAILED"]
        /\ desk[g] = "marking" /\ UNCHANGED <<cast, chain, blocked, proven, met, cut, changes>>
    BY <1>9 DEF markClaimFailed, verifVars, world
  <2>2. "FAILED" \in RowStatus
    BY DEF RowStatus
  <2>3. Filed(g, "done", "FAILED")
    BY <1>2, <2>1 DEF Filed
  <2> QED
    BY <1>1, <2>1, <2>2, <2>3, DeskStep
<1>10. CASE MarkThrows(g)
  <2>1. /\ desk' = [desk EXCEPT ![g] = "done"] /\ cut' = cut \cup {g} /\ desk[g] = "marking"
        /\ UNCHANGED <<cast, row, chain, blocked, proven, met, changes>>
    BY <1>10 DEF MarkThrows, world
  <2>2. Entered(g) /\ row[g] = "PENDING"
    BY <2>1 DEF Entered, RowsInv
  <2>3. Filed(g, "done", row[g])
    BY <1>2, <2>1 DEF Filed
  <2> QED
    BY <1>1, <2>1, <2>2, <2>3, DeskStep
<1> QED
  BY <1>3, <1>4, <1>5, <1>6, <1>7, <1>8, <1>9, <1>10 DEF recordClaim

LEMMA OtherStepsKeepRows ==
    ASSUME ChecksInv, ChecksInv', RowsInv,
           \/ UNCHANGED claimOnly /\ cast' = cast
           \/ \E x \in Txs : Mine(x)
           \/ Rebuild \/ BlockUser \/ Restart
    PROVE  RowsInv'
<1>1. VerifTypeOK' /\ cast.changes \in Nat
  BY VerificationAssumption DEF ChecksInv, VerifTypeOK
<1>2. CASE UNCHANGED claimOnly /\ cast' = cast
  BY <1>1, <1>2 DEF claimOnly, RowsInv, ClaimTypeOK, Entered, PendingIsAttended
<1>3. CASE \E x \in Txs : Mine(x)
  <2>1. PICK x \in Txs : Mine(x)
    BY <1>3
  <2>2. /\ UNCHANGED <<cast, row, blocked, proven, desk, met, cut, changes>>
        /\ chain' \in [Txs -> {"sent", "success", "reverted"}]
        /\ \A y \in Txs : y # x => chain'[y] = chain[y]
        /\ chain[x] = "sent"
        /\ chain'[x] = "success" /\ x \in AirdropTxs => \A y \in AirdropTxs : chain[y] # "success"
    BY <2>1 DEF Mine, verifVars, world, RowsInv, ClaimTypeOK
  <2>3. AirdropTxs \subseteq Txs /\ \A g \in Claimants : TxOf[g] \in Txs
    BY ClaimAssumption
  <2> QED
    BY <1>1, <2>2, <2>3 DEF RowsInv, ClaimTypeOK, Entered, PendingIsAttended
<1>4. CASE Rebuild \/ BlockUser
  <2>1. UNCHANGED <<cast, row, chain, desk, met, cut>>
    BY <1>4 DEF Rebuild, BlockUser, verifVars, world
  <2>2. blocked' \in BOOLEAN /\ proven' \in BOOLEAN
    BY <1>4 DEF Rebuild, BlockUser, RowsInv, ClaimTypeOK
  <2>3. changes' \in 0..cast.changes
    BY <1>1, <1>4 DEF Rebuild, BlockUser, Changed, RowsInv, ClaimTypeOK
  <2>4. ClaimTypeOK'
    BY <1>1, <2>1, <2>2, <2>3 DEF RowsInv, ClaimTypeOK
  <2> QED
    BY <2>1, <2>4 DEF RowsInv, Entered, PendingIsAttended
<1>5. CASE Restart
  <2>1. /\ desk' = [g \in Claimants |-> IF desk[g] = "idle" THEN "idle" ELSE "done"]
        /\ cut' = cut \cup {g \in Claimants : desk[g] \in {"waiting", "marking"}}
        /\ changes' = changes + 1 /\ changes < cast.changes
        /\ UNCHANGED <<cast, row, chain, blocked, proven, met>>
    BY <1>5 DEF Restart, Changed, world
  <2>2. ClaimTypeOK'
    BY <1>1, <2>1 DEF RowsInv, ClaimTypeOK
  <2>3. \A g \in Claimants : row[g] # "none" => desk'[g] = "done"
    BY <2>1 DEF RowsInv
  <2>4. PendingIsAttended'
    BY <2>1 DEF RowsInv, PendingIsAttended
  <2> QED
    BY <2>1, <2>2, <2>3, <2>4 DEF RowsInv, Entered
<1> QED
  BY <1>2, <1>3, <1>4, <1>5

LEMMA RequestStepInv == RequestInv /\ [ClaimNext]_claimVars => RequestInv'
<1> SUFFICES ASSUME RequestInv, [ClaimNext]_claimVars PROVE RequestInv'
  OBVIOUS
<1>1. ChecksInv /\ RowsInv /\ ChecksInv'
  BY ClaimStepKeepsChecks DEF RequestInv
<1>2. CASE \E g \in Claimants : recordClaim(g)
  BY <1>1, <1>2, RequestKeepsRows DEF RequestInv
<1>3. CASE \/ \E x \in Txs : Mine(x)
           \/ Rebuild \/ BlockUser \/ Restart
  BY <1>1, <1>3, OtherStepsKeepRows DEF RequestInv
<1>4. CASE \/ VerifSteps /\ UNCHANGED claimOnly
           \/ \E g \in Gates \ Claimants : AskGate(g) /\ UNCHANGED claimOnly
           \/ UNCHANGED claimVars
  <2>1. cast' = cast /\ UNCHANGED claimOnly
    BY ZenonT(40), <1>4 DEF claimVars, verifVars, world, VerifSteps, CacheStep, JoinOrLeave, toggle,
       LinkOrUnlink, EligibilityExpires, MemberExpires, LateWrite, verifyTask, JobStep,
       ensurePending, reverificationAll, SweepStep, SweepTask,
       GateStep, StartGate, GateTask, EndGate, AskGate, LookUpCache, LookUpStep, LookUpTasks,
       LookUpRecords, LookUpStore, CheckThrows, Check, LoadRecord, LoadAccount, AskCache, AskLive,
       AskAndCache, SaveStatus, TouchStatus
  <2> QED
    BY <1>1, <2>1, OtherStepsKeepRows DEF RequestInv
<1> QED
  BY <1>2, <1>3, <1>4 DEF ClaimNext

(* Whoever passes verifyBeforeClaim was in the channel of every task that  *)
(* was required, at some moment since the gate began: no cached answer, no *)
(* earlier VERIFIED and no interleaved job or sweep stands in for the live *)
(* check (verification.service.ts).                                        *)
THEOREM GateAsksLive == ClaimSpec => []GateIsLive
<1>1. RequestInv => GateIsLive
  <2> SUFFICES ASSUME ChecksInv, NEW g \in Gates, At(g, "passed")
               PROVE  call[g].required \subseteq wasMember[g]
    BY DEF RequestInv, GateIsLive
  <2>1. Backed(g, call[g])
    BY DEF ChecksInv, Callers
  <2> QED
    BY <2>1 DEF Backed, At, Begun
<1> QED
  BY RequestInitInv, RequestStepInv, <1>1, PTL DEF ClaimSpec

(* Rows that count come from requests that were between the check and the  *)
(* row together, a PENDING row is attended to unless its request was cut   *)
(* off, and the rows CLAIMED name transactions that succeeded, of which at *)
(* most one is the wallet's claim at the Airdrop, whatever hashes are      *)
(* posted (claim.service.ts, claim-sync.service.ts).                       *)
THEOREM ClaimsAreSound == ClaimSpec => []ClaimsInv
<1>1. RequestInv => ClaimsInv
  <2> SUFFICES ASSUME RowsInv PROVE ClaimsInv
    BY DEF RequestInv
  <2>1. SecondClaimOverlaps
    BY DEF RowsInv, SecondClaimOverlaps, Entered
  <2>2. ClaimedIsMined
    BY DEF RowsInv, ClaimedIsMined
  <2> QED
    BY <2>1, <2>2 DEF RowsInv, ClaimsInv
<1> QED
  BY RequestInitInv, RequestStepInv, <1>1, PTL DEF ClaimSpec

(* A task becomes VERIFIED only for a user who was in its channel once:    *)
(* NewStatus takes neither an error nor a stale answer for membership.     *)
THEOREM StatusIsEarned == ClaimSpec => NeverFabricated
<1> DEFINE Earned == \A t \in VTasks :
             record[t] # "VERIFIED" /\ record'[t] = "VERIFIED" => t \in everMember
<1>1. ASSUME RequestInv, [ClaimNext]_claimVars PROVE [Earned]_claimVars
  <2>1. ASSUME NEW p \in Callers, SaveStatus(p) \/ TouchStatus(p) PROVE Earned
    <3>1. /\ record' = [record EXCEPT ![call[p].task] = NewStatus(p)]
          /\ call[p].at \in {"save", "touch"}
      BY <2>1 DEF SaveStatus, TouchStatus, At
    <3>2. NewStatus(p) = "VERIFIED" => call[p].task \in everMember
      BY <1>1, <3>1, NewStatusIsBacked DEF RequestInv
    <3>3. record \in [VTasks -> Status]
      BY <1>1 DEF RequestInv, ChecksInv, VerifTypeOK
    <3> QED
      BY <3>1, <3>2, <3>3
  <2>2. ASSUME NEW j \in Jobs, ensurePending(j) PROVE Earned
    BY <1>1, <2>2 DEF ensurePending, RequestInv, ChecksInv, VerifTypeOK
  <2>3. ASSUME NEW p \in Callers, Check(p) PROVE Earned
    <3>1. CASE SaveStatus(p) \/ TouchStatus(p)
      BY <2>1, <3>1
    <3>2. CASE record' = record
      BY <3>2
    <3> QED
      BY <2>3, <3>1, <3>2 DEF Check, LoadRecord, LoadAccount, AskCache, AskLive, AskAndCache
  <2>4. CASE record' = record
    BY <2>4
  <2>5. CASE VerifSteps
    BY <2>2, <2>3, <2>4, <2>5
       DEF VerifSteps, CacheStep, JoinOrLeave, toggle,
           LinkOrUnlink, EligibilityExpires, MemberExpires, LateWrite, verifyTask, JobStep,
           reverificationAll, SweepStep, SweepTask,
           GateStep, StartGate, GateTask, EndGate, LookUpCache, LookUpStep, LookUpTasks,
           LookUpRecords, LookUpStore, CheckThrows, Callers
  <2>6. CASE ~VerifSteps
    <3>1. record' = record
      BY <1>1, <2>6 DEF ClaimNext, claimVars, verifVars, AskGate, recordClaim, validateClaim,
         FindExisting, Refused, createClaim, Receipt, ReceiptThrows, markClaimFailed, MarkThrows,
         Mine, Rebuild, BlockUser, Restart
    <3> QED
      BY <2>4, <3>1
  <2> QED
    BY <2>5, <2>6
<1> QED
  BY RequestInitInv, RequestStepInv, <1>1, PTL DEF ClaimSpec, NeverFabricated

(* No user becomes VERIFIED who never was a member of the channel, and no  *)
(* bot update for one user takes another's link.                           *)
THEOREM NothingIsUnasked == ClaimsSpec => NothingUnasked
<1>1. ClaimsSpec => ClaimSpec /\ LinkSpec
  BY DEF ClaimsSpec
<1> QED
  BY <1>1, StatusIsEarned, LinksAreNotTaken DEF NothingUnasked

-----------------------------------------------------------------------------
(* Pages. *)

(* What the wallet still stands behind was sent by the connected wallet.   *)
KeptIsConnected ==
    /\ \A f \in flows : f.kept => f.from = wallet
    /\ \A i \in DOMAIN txs : txs[i].kept => txs[i].from = wallet

(* The effect that reports waits for a transaction that is no approval.    *)
WaitingIsForPayment ==
    /\ step = "waiting" => tx # 0 /\ txs[tx].kind # "approve"
    /\ route # "buy" => \A f \in flows : f.kind = "claim"

Reportable(i) == txs[i].state = "mined" /\ txs[i].kind # "approve"
BySender(r) == txs[r.tx].kept => r.wallet = txs[r.tx].from

(* Reports under way and reports received are the sender's; and while no   *)
(* click has overlapped a retry, a handler and a report never run at once. *)
ReportingInOrder ==
    /\ \A s \in syncs : BySender(s)
    /\ \A r \in reports : BySender(r)
    /\ ~overlap =>
         /\ \A s \in syncs : s.tx = tx /\ Reportable(tx)
         /\ \A r \in reports : Reportable(r.tx)
         /\ syncError /\ tx # 0 => Reportable(tx)
         /\ flows # {} => /\ syncs = {} /\ ~syncError
                          /\ step \in {"claiming", "approving", "approved", "purchasing"}
                          /\ \A f, g \in flows : f = g

WalletInv ==
    /\ PageTypeOK(Args) /\ IsFiniteSet(flows)
    /\ KeptIsConnected /\ WaitingIsForPayment /\ ReportingInOrder

Asking == [from : Wallets, kind : Kinds, arg : Args, kept : BOOLEAN]
Sent == [from : Wallets, kind : Kinds, arg : Args, paid : Nat, kept : BOOLEAN,
         asked : BOOLEAN, state : {"pending", "mined", "reverted"}]

(* What no step takes back of a transaction.                               *)
Carried ==
    /\ txs' \in Seq(Sent) /\ Len(txs) <= Len(txs')
    /\ \A i \in 1..Len(txs) :
         /\ txs'[i].from = txs[i].from /\ txs'[i].kind = txs[i].kind /\ txs'[i].arg = txs[i].arg
         /\ txs'[i].kept => txs[i].kept
         /\ txs[i].state = "mined" => txs'[i].state = "mined" /\ txs'[i].paid = txs[i].paid

LEMMA TxsKnown ==
    ASSUME PageTypeOK(Args)
    PROVE  /\ txs \in Seq(Sent) /\ Len(txs) \in Nat /\ DOMAIN txs = 1..Len(txs)
           /\ \A i \in 1..Len(txs) : txs[i] \in Sent
           /\ tx \in 0..Len(txs) /\ tx \in Nat
<1>1. txs \in Seq(Sent) /\ tx \in 0..Len(txs)
  BY DEF PageTypeOK, Sent
<1> QED
  BY <1>1, LenProperties, ElementOfSeq

(* A sequence changed in place, element by element. *)
LEMMA ChangedInPlace ==
    ASSUME NEW S, NEW q \in Seq(S), NEW r, r = [i \in DOMAIN q |-> r[i]],
           \A i \in 1..Len(q) : r[i] \in S
    PROVE  r \in Seq(S) /\ Len(r) = Len(q) /\ DOMAIN r = 1..Len(q)
<1>1. Len(q) \in Nat /\ DOMAIN q = 1..Len(q)
  BY LenProperties
<1>2. r \in [1..Len(q) -> S]
  BY <1>1
<1>3. r \in Seq(S)
  BY <1>1, <1>2, SeqDef
<1>4. DOMAIN r = 1..Len(q) /\ DOMAIN r = 1..Len(r) /\ Len(r) \in Nat
  BY <1>2, <1>3, LenProperties
<1> QED
  BY <1>1, <1>3, <1>4

(* Nothing of the transactions is touched. *)
LEMMA CarriedAlong ==
    ASSUME PageTypeOK(Args), UNCHANGED txs
    PROVE  Carried
BY TxsKnown DEF Carried

LEMMA DisturbedCarries ==
    ASSUME PageTypeOK(Args), txs' = Disturbed
    PROVE  /\ Carried /\ Len(txs') = Len(txs)
           /\ \A i \in 1..Len(txs) : ~ txs'[i].kept /\ txs'[i].state = txs[i].state
<1>1. txs \in Seq(Sent) /\ Len(txs) \in Nat /\ DOMAIN txs = 1..Len(txs)
      /\ \A i \in 1..Len(txs) : txs[i] \in Sent
  BY TxsKnown
<1>2. \A i \in 1..Len(txs) : txs'[i] = [txs[i] EXCEPT !.kept = FALSE]
  BY <1>1 DEF Disturbed
<1>3. ASSUME NEW i \in 1..Len(txs)
      PROVE  /\ txs'[i] \in Sent
             /\ txs'[i].from = txs[i].from /\ txs'[i].kind = txs[i].kind /\ txs'[i].arg = txs[i].arg
             /\ ~ txs'[i].kept /\ txs'[i].state = txs[i].state /\ txs'[i].paid = txs[i].paid
  <2>1. txs[i] \in Sent /\ txs'[i] = [txs[i] EXCEPT !.kept = FALSE]
    BY <1>1, <1>2
  <2> QED
    BY <2>1 DEF Sent
<1>4. txs' = [i \in DOMAIN txs |-> txs'[i]]
  BY <1>1, <1>2 DEF Disturbed
<1>5. txs' \in Seq(Sent) /\ Len(txs') = Len(txs)
  BY <1>1, <1>3, <1>4, ChangedInPlace
<1> QED
  BY <1>1, <1>3, <1>5 DEF Carried

(* A flow loses its hold on the connection, or a set of flows does. *)
LEMMA FlowsReleased ==
    ASSUME NEW F, NEW G, IsFiniteSet(F), NEW h \in [F -> G], G = {h[f] : f \in F}
    PROVE  IsFiniteSet(G) /\ Cardinality(G) <= Cardinality(F)
<1>1. h \in Surjection(F, G)
  BY DEF Surjection
<1> QED
  BY <1>1, FS_Surjection

LEMMA ArgsKept == ASSUME UNCHANGED route PROVE Args' = Args /\ Asking' = Asking /\ Sent' = Sent
BY DEF Args, Asking, Sent

LEMMA WalletStands ==
    ASSUME WalletInv, UNCHANGED pageVars
    PROVE  WalletInv'
<1>1. Args' = Args /\ UNCHANGED <<route, wallet, jolts, sepolia, step, flows, txs, tx, told, overlap, success,
                                  syncError, retrying, syncs, reports>>
  BY ArgsKept DEF pageVars, connVars, sendVars, syncVars
<1>2. PageTypeOK(Args)' /\ IsFiniteSet(flows)'
  BY <1>1 DEF WalletInv, PageTypeOK
<1>3. (KeptIsConnected /\ WaitingIsForPayment /\ ReportingInOrder)'
  BY <1>1 DEF WalletInv, KeptIsConnected, WaitingIsForPayment, ReportingInOrder, BySender, Reportable
<1> QED
  BY <1>2, <1>3 DEF WalletInv

NowReportable(i) == txs'[i].state = "mined" /\ txs'[i].kind # "approve"

(* Whose reports these are does not change, nor that they can be made.     *)
LEMMA ReportsCarried ==
    ASSUME WalletInv, Carried
    PROVE  /\ \A i \in 1..Len(txs) : Reportable(i) => NowReportable(i)
           /\ \A s \in syncs : s.tx \in 1..Len(txs) /\ (txs'[s.tx].kept => s.wallet = txs'[s.tx].from)
           /\ \A r \in reports : r.tx \in 1..Len(txs) /\ (txs'[r.tx].kept => r.wallet = txs'[r.tx].from)
<1>1. \A s \in syncs : s.tx \in 1..Len(txs) /\ BySender(s)
  BY DEF WalletInv, PageTypeOK, ReportingInOrder
<1>2. \A r \in reports : r.tx \in 1..Len(txs) /\ BySender(r)
  BY DEF WalletInv, PageTypeOK, ReportingInOrder
<1>3. \A i \in 1..Len(txs) : Reportable(i) => NowReportable(i)
  BY DEF Carried, Reportable, NowReportable
<1>4. \A i \in 1..Len(txs) : txs'[i].from = txs[i].from /\ (txs'[i].kept => txs[i].kept)
  BY DEF Carried
<1> QED
  BY <1>1, <1>2, <1>3, <1>4 DEF BySender

(* What the reports already asked for and received are worth after a step  *)
(* that starts none: the part of ReportingInOrder that every step keeps.   *)
LEMMA OrderKept ==
    ASSUME WalletInv, Carried, syncs' \subseteq syncs, reports' = reports,
           ~ overlap' => ~ overlap,
           ~ overlap' => /\ syncs' # {} => tx' = tx
                         /\ syncError' /\ tx' # 0 => syncError /\ tx' = tx
                         /\ flows' # {} => /\ syncs' = {} /\ ~ syncError'
                                           /\ step' \in {"claiming", "approving", "approved", "purchasing"}
                                           /\ \A f, g \in flows' : f = g
    PROVE  ReportingInOrder'
<1>1. /\ \A i \in 1..Len(txs) : Reportable(i) => NowReportable(i)
      /\ \A s \in syncs : s.tx \in 1..Len(txs) /\ BySender(s)'
      /\ \A r \in reports : r.tx \in 1..Len(txs) /\ BySender(r)'
  BY ReportsCarried DEF BySender
<1>2. tx \in 0..Len(txs) /\ Len(txs) \in Nat
  BY TxsKnown DEF WalletInv
<1>3. \A s \in syncs' : BySender(s)'
  BY <1>1
<1>4. \A r \in reports' : BySender(r)'
  BY <1>1
<1>5. ASSUME ~ overlap'
      PROVE  /\ \A s \in syncs' : s.tx = tx' /\ NowReportable(tx')
             /\ \A r \in reports' : NowReportable(r.tx)
             /\ syncError' /\ tx' # 0 => NowReportable(tx')
  <2>1. /\ \A s \in syncs : s.tx = tx /\ Reportable(tx)
        /\ \A r \in reports : Reportable(r.tx)
        /\ syncError /\ tx # 0 => Reportable(tx)
    BY <1>5 DEF WalletInv, ReportingInOrder
  <2>2. \A r \in reports' : NowReportable(r.tx)
    BY <1>1, <2>1
  <2>3. ASSUME NEW s \in syncs' PROVE s.tx = tx' /\ NowReportable(tx')
    <3>1. s \in syncs /\ tx' = tx /\ s.tx = tx /\ Reportable(tx) /\ tx \in 1..Len(txs)
      BY <1>1, <1>5, <2>1, <2>3
    <3> QED
      BY <1>1, <3>1
  <2>4. ASSUME syncError', tx' # 0 PROVE NowReportable(tx')
    <3>1. tx' = tx /\ Reportable(tx) /\ tx \in 1..Len(txs)
      BY <1>2, <1>5, <2>1, <2>4
    <3> QED
      BY <1>1, <3>1
  <2> QED
    BY <2>2, <2>3, <2>4
<1> QED
  BY <1>3, <1>4, <1>5 DEF ReportingInOrder, Reportable, NowReportable

LEMMA ConnectKeeps ==
    ASSUME WalletInv, NEW w \in Wallets \cup {NoWallet}, Connect(w)
    PROVE  WalletInv'
<1>1. Args' = Args /\ wallet = NoWallet /\ wallet' = w /\ UNCHANGED <<route, jolts, sepolia, step, flows,
                  txs, tx, told, overlap, success, syncError, retrying, syncs, reports>>
  BY ArgsKept DEF Connect, sendVars, syncVars
<1>2. PageTypeOK(Args)' /\ IsFiniteSet(flows)'
  BY <1>1 DEF WalletInv, PageTypeOK
<1>3. (WaitingIsForPayment /\ ReportingInOrder)'
  BY <1>1 DEF WalletInv, WaitingIsForPayment, ReportingInOrder, BySender, Reportable
<1>4. KeptIsConnected'
  <2>1. \A f \in flows : f.from \in Wallets
    BY DEF WalletInv, PageTypeOK
  <2>2. \A i \in DOMAIN txs : txs[i].from \in Wallets
    BY TxsKnown DEF WalletInv, Sent
  <2> QED
    BY <1>1, <2>1, <2>2, WalletAssumption DEF WalletInv, KeptIsConnected
<1> QED
  BY <1>2, <1>3, <1>4 DEF WalletInv

(* Disturb, whatever disturbs: the wallet lets go of everything it sent.   *)
LEMMA DisturbedFlows ==
    ASSUME WalletInv, flows' = {[f EXCEPT !.kept = FALSE] : f \in flows}, UNCHANGED route
    PROVE  /\ flows' \subseteq Asking /\ IsFiniteSet(flows') /\ Cardinality(flows') <= Cardinality(flows)
           /\ \A f \in flows' : ~ f.kept /\ \E g \in flows : f.from = g.from /\ f.kind = g.kind
           /\ (\A f, g \in flows : f = g) => \A f, g \in flows' : f = g
           /\ flows' # {} => flows # {}
<1>1. flows \subseteq Asking /\ IsFiniteSet(flows)
  BY DEF WalletInv, PageTypeOK, Asking
<1> DEFINE h == [f \in flows |-> [f EXCEPT !.kept = FALSE]]
<1>2. \A f \in flows : h[f] = [f EXCEPT !.kept = FALSE]
  OBVIOUS
<1>3. flows' = {h[f] : f \in flows} /\ h \in [flows -> flows']
  BY <1>2
<1> HIDE DEF h
<1>4. IsFiniteSet(flows') /\ Cardinality(flows') <= Cardinality(flows)
  BY <1>1, <1>3, FlowsReleased
<1>5. \A f \in flows : h[f] \in Asking /\ ~ h[f].kept /\ h[f].from = f.from /\ h[f].kind = f.kind
  BY <1>1, <1>2 DEF Asking
<1> QED
  BY <1>3, <1>4, <1>5

LEMMA DisturbKeeps ==
    ASSUME WalletInv, Disturb, Jolt, wallet' \in Wallets \cup {NoWallet},
           UNCHANGED <<route, sepolia, step, tx, told, overlap, syncVars>>
    PROVE  WalletInv'
<1>1. Args' = Args /\ Asking' = Asking /\ UNCHANGED <<route, sepolia, step, tx, told, overlap,
                  success, syncError, retrying, syncs, reports>>
  BY ArgsKept DEF syncVars
<1>2. Carried /\ Len(txs') = Len(txs) /\ \A i \in 1..Len(txs) : ~ txs'[i].kept /\ txs'[i].state = txs[i].state
  BY DisturbedCarries DEF Disturb, WalletInv
<1>3. txs' \in Seq(Sent)' /\ DOMAIN txs' = 1..Len(txs')
  BY <1>1, <1>2, ArgsKept, LenProperties DEF Carried
<1>4. /\ flows' \subseteq Asking /\ IsFiniteSet(flows') /\ Cardinality(flows') <= Cardinality(flows)
      /\ \A f \in flows' : ~ f.kept /\ \E g \in flows : f.from = g.from /\ f.kind = g.kind
      /\ (\A f, g \in flows : f = g) => \A f, g \in flows' : f = g
      /\ flows' # {} => flows # {}
  BY DisturbedFlows DEF Disturb
<1>5. Cardinality(flows') <= 2
  BY <1>4, FS_CardinalityType DEF WalletInv, PageTypeOK
<1>6. jolts' \in 0..MaxJolts
  BY WalletAssumption DEF Jolt, WalletInv, PageTypeOK
<1>7. PageTypeOK(Args)'
  BY <1>1, <1>2, <1>3, <1>4, <1>5, <1>6 DEF WalletInv, PageTypeOK, Asking, Sent
<1>8. KeptIsConnected'
  BY <1>2, <1>3, <1>4 DEF KeptIsConnected
<1>9. WaitingIsForPayment'
  <2>1. tx \in 0..Len(txs) /\ Len(txs) \in Nat
    BY TxsKnown DEF WalletInv
  <2>2. step' = "waiting" => tx' # 0 /\ txs'[tx'].kind # "approve"
    BY <1>1, <1>2, <2>1 DEF WalletInv, WaitingIsForPayment, Carried
  <2> QED
    BY <1>1, <1>4, <2>2 DEF WalletInv, WaitingIsForPayment
<1>10. ~ overlap /\ flows # {} => /\ syncs = {} /\ ~ syncError
                                  /\ step \in {"claiming", "approving", "approved", "purchasing"}
                                  /\ \A f, g \in flows : f = g
  BY DEF WalletInv, ReportingInOrder
<1>11. ReportingInOrder'
  BY <1>1, <1>2, <1>4, <1>10, OrderKept
<1> QED
  BY <1>4, <1>7, <1>8, <1>9, <1>11 DEF WalletInv

LEMMA SwitchWalletKeeps ==
    ASSUME WalletInv, NEW w \in Wallets \cup {NoWallet}, SwitchWallet(w)
    PROVE  WalletInv'
BY DisturbKeeps DEF SwitchWallet

LEMMA SwitchNetworkKeeps ==
    ASSUME WalletInv, SwitchNetwork
    PROVE  WalletInv'
<1>1. Args' = Args /\ UNCHANGED <<route, wallet, step, flows, txs, tx, told, overlap,
                  success, syncError, retrying, syncs, reports>>
  BY ArgsKept DEF SwitchNetwork, sendVars, syncVars
<1>2. jolts' \in 0..MaxJolts /\ sepolia' \in BOOLEAN
  BY WalletAssumption DEF SwitchNetwork, Jolt, WalletInv, PageTypeOK
<1>3. PageTypeOK(Args)' /\ IsFiniteSet(flows)'
  BY <1>1, <1>2 DEF WalletInv, PageTypeOK
<1>4. (KeptIsConnected /\ WaitingIsForPayment /\ ReportingInOrder)'
  BY <1>1 DEF WalletInv, KeptIsConnected, WaitingIsForPayment, ReportingInOrder, BySender, Reportable
<1> QED
  BY <1>3, <1>4 DEF WalletInv

LEMMA ReloadKeeps ==
    ASSUME WalletInv, Reload
    PROVE  WalletInv'
<1>1. Args' = Args /\ UNCHANGED <<route, wallet, sepolia, overlap, reports>> /\ txs' = Disturbed
      /\ step' = "idle" /\ flows' = {} /\ tx' = 0 /\ told' = "no"
      /\ success' = FALSE /\ syncError' = FALSE /\ retrying' = FALSE /\ syncs' = {}
  BY ArgsKept DEF Reload
<1>2. Carried /\ Len(txs') = Len(txs) /\ \A i \in 1..Len(txs) : ~ txs'[i].kept
  BY <1>1, DisturbedCarries DEF WalletInv
<1>3. txs' \in Seq(Sent)' /\ DOMAIN txs' = 1..Len(txs') /\ Len(txs') \in Nat
  BY <1>1, <1>2, ArgsKept, LenProperties DEF Carried
<1>4. jolts' \in 0..MaxJolts
  BY WalletAssumption DEF Reload, Jolt, WalletInv, PageTypeOK
<1>5. IsFiniteSet(flows') /\ Cardinality(flows') <= 2
  BY <1>1, FS_EmptySet
<1>6. PageTypeOK(Args)'
  <2>1. reports' \subseteq [wallet : Wallets, tx : 1..Len(txs')]
    BY <1>1, <1>2 DEF WalletInv, PageTypeOK
  <2>2. txs' \in Seq([from : Wallets, kind : Kinds, arg : Args', paid : Nat, kept : BOOLEAN,
                       asked : BOOLEAN, state : {"pending", "mined", "reverted"}])
    BY <1>1, <1>3 DEF Sent
  <2>3. route' \in DOMAIN Routes /\ wallet' \in Wallets \cup {NoWallet} /\ sepolia' \in BOOLEAN
        /\ overlap' \in BOOLEAN
    BY <1>1 DEF WalletInv, PageTypeOK
  <2>4. tx' \in 0..Len(txs') /\ told' \in {"no", "mined", "reverted"} /\ step' \in Steps
    BY <1>1, <1>3 DEF Steps
  <2>5. success' \in BOOLEAN /\ syncError' \in BOOLEAN /\ retrying' \in BOOLEAN
    BY <1>1
  <2>6. /\ flows' \subseteq [from : Wallets, kind : Kinds, arg : Args', kept : BOOLEAN]
        /\ syncs' \subseteq [wallet : Wallets, tx : 1..Len(txs'), attempt : 1..Routes[route']]
    BY <1>1
  <2> QED
    BY <1>4, <1>5, <2>1, <2>2, <2>3, <2>4, <2>5, <2>6 DEF PageTypeOK
<1>7. (KeptIsConnected /\ WaitingIsForPayment)'
  BY <1>1, <1>2, <1>3 DEF KeptIsConnected, WaitingIsForPayment
<1>8. ReportingInOrder'
  BY <1>1, <1>2, OrderKept
<1> QED
  BY <1>5, <1>6, <1>7, <1>8 DEF WalletInv

LEMMA ClickKeeps ==
    ASSUME WalletInv, NEW kind \in Kinds, NEW arg \in Args, NEW fresh \in BOOLEAN,
           NEW next \in {"claiming", "approving", "purchasing"}, Click(kind, arg, next, fresh),
           success' \in BOOLEAN, route # "buy" => kind = "claim"
    PROVE  WalletInv'
<1> DEFINE new == [from |-> wallet, kind |-> kind, arg |-> arg, kept |-> fresh]
<1>1. /\ Args' = Args /\ Asking' = Asking
      /\ UNCHANGED <<route, wallet, jolts, sepolia, txs, tx, told, retrying, syncs, reports>>
      /\ flows' = flows \cup {new} /\ step' = next /\ syncError' = FALSE
      /\ overlap' = (overlap \/ syncs # {})
      /\ wallet # NoWallet /\ step = "idle" /\ Cardinality(flows) < 2
  BY ArgsKept DEF Click, MayClick, connVars
<1>2. new \in Asking /\ new.from = wallet /\ new.kind = kind
  BY <1>1 DEF WalletInv, PageTypeOK, Asking
<1> HIDE DEF new
<1>3. flows \subseteq Asking /\ IsFiniteSet(flows) /\ Cardinality(flows) \in Nat
  BY FS_CardinalityType DEF WalletInv, PageTypeOK, Asking
<1>4. flows' \subseteq Asking /\ IsFiniteSet(flows') /\ Cardinality(flows') <= 2
  <2>1. IsFiniteSet(flows \cup {new}) /\ Cardinality(flows \cup {new})
                        = IF new \in flows THEN Cardinality(flows) ELSE Cardinality(flows) + 1
    BY <1>3, FS_AddElement
  <2> QED
    BY <1>1, <1>2, <1>3, <2>1
<1>5. overlap' \in BOOLEAN /\ step' \in Steps
  BY <1>1 DEF WalletInv, PageTypeOK, Steps
<1>6. PageTypeOK(Args)'
  BY <1>1, <1>4, <1>5 DEF WalletInv, PageTypeOK, Asking
<1>7. KeptIsConnected'
  BY <1>1, <1>2 DEF WalletInv, KeptIsConnected
<1>8. WaitingIsForPayment'
  BY <1>1, <1>2 DEF WalletInv, WaitingIsForPayment
<1>9. Carried
  BY <1>1, CarriedAlong DEF WalletInv
<1>10. ASSUME ~ overlap'
       PROVE  syncs' = {} /\ \A f, g \in flows' : f = g
  <2>1. ~ overlap /\ syncs = {} /\ flows = {}
    BY <1>1, <1>10 DEF WalletInv, ReportingInOrder
  <2> QED
    BY <1>1, <2>1
<1>11. ReportingInOrder'
  BY <1>1, <1>9, <1>10, OrderKept
<1> QED
  BY <1>4, <1>6, <1>7, <1>8, <1>11 DEF WalletInv

LEMMA RejectKeeps ==
    ASSUME WalletInv, NEW f, Reject(f)
    PROVE  WalletInv'
<1>1. /\ Args' = Args /\ f \in flows /\ flows' = flows \ {f} /\ step' = "idle"
      /\ UNCHANGED <<route, wallet, sepolia, txs, tx, told, overlap, success, syncError, retrying, syncs, reports>>
  BY ArgsKept DEF Reject, syncVars
<1>2. IsFiniteSet(flows') /\ Cardinality(flows') <= 2
  <2>1. IsFiniteSet(flows) /\ Cardinality(flows) \in Nat /\ Cardinality(flows) <= 2
    BY FS_CardinalityType DEF WalletInv, PageTypeOK
  <2>2. IsFiniteSet(flows \ {f}) /\ Cardinality(flows \ {f})
                        = IF f \in flows THEN Cardinality(flows) - 1 ELSE Cardinality(flows)
    BY <2>1, FS_RemoveElement
  <2> QED
    BY <1>1, <2>1, <2>2
<1>3. jolts' \in 0..MaxJolts /\ step' \in Steps
  BY <1>1, WalletAssumption DEF Reject, Jolt, WalletInv, PageTypeOK, Steps
<1>4. PageTypeOK(Args)'
  BY <1>1, <1>2, <1>3 DEF WalletInv, PageTypeOK
<1>5. (KeptIsConnected /\ WaitingIsForPayment)'
  BY <1>1 DEF WalletInv, KeptIsConnected, WaitingIsForPayment
<1>6. Carried
  BY <1>1, CarriedAlong DEF WalletInv
<1>7. ~ overlap => flows' = {}
  BY <1>1 DEF WalletInv, ReportingInOrder
<1>8. ReportingInOrder'
  BY <1>1, <1>6, <1>7, OrderKept
<1> QED
  BY <1>2, <1>4, <1>5, <1>8 DEF WalletInv

(* A flow goes on as another, the purchase after the approval, or ends.    *)
LEMMA FlowGoesOn ==
    ASSUME WalletInv, NEW f \in flows, NEW rest \in SUBSET Asking, NEW g,
           rest = {} \/ rest = {g}, flows' = (flows \ {f}) \cup rest
    PROVE  flows' \subseteq Asking /\ IsFiniteSet(flows') /\ Cardinality(flows') <= Cardinality(flows)
<1>1. flows \subseteq Asking /\ IsFiniteSet(flows) /\ Cardinality(flows) \in Nat
  BY FS_CardinalityType DEF WalletInv, PageTypeOK, Asking
<1>2. /\ IsFiniteSet(flows \ {f}) /\ Cardinality(flows \ {f}) = Cardinality(flows) - 1
      /\ Cardinality(flows \ {f}) \in Nat
  BY <1>1, FS_RemoveElement, FS_CardinalityType
<1>3. CASE rest = {}
  BY <1>1, <1>2, <1>3
<1>4. CASE rest = {g}
  <2>1. IsFiniteSet((flows \ {f}) \cup {g}) /\ Cardinality((flows \ {f}) \cup {g})
           = IF g \in flows \ {f} THEN Cardinality(flows \ {f}) ELSE Cardinality(flows \ {f}) + 1
    BY <1>2, FS_AddElement
  <2> QED
    BY <1>1, <1>2, <1>4, <2>1
<1> QED
  BY <1>3, <1>4

LEMMA SentCarries ==
    ASSUME WalletInv, NEW f \in flows, txs' = Append(txs, Tx(f))
    PROVE  /\ Carried /\ Len(txs') = Len(txs) + 1 /\ Tx(f) \in Sent
           /\ \A i \in 1..Len(txs) : txs'[i] = txs[i]
           /\ txs'[Len(txs) + 1] = Tx(f)
<1>1. txs \in Seq(Sent) /\ Len(txs) \in Nat
  BY TxsKnown DEF WalletInv
<1>2. f \in Asking
  BY DEF WalletInv, PageTypeOK, Asking
<1>3. Tx(f) \in Sent
  BY <1>2 DEF Tx, Sent, Asking
<1>4. /\ txs' \in Seq(Sent) /\ Len(txs') = Len(txs) + 1
      /\ \A i \in 1..Len(txs) : txs'[i] = txs[i]
      /\ txs'[Len(txs) + 1] = Tx(f)
  BY <1>1, <1>3, AppendProperties
<1> QED
  BY <1>1, <1>3, <1>4 DEF Carried

LEMMA SignKeeps ==
    ASSUME WalletInv, NEW f \in flows, NEW next \in {"waiting", "approved"}, NEW rest \in SUBSET Asking,
           Sign(f, next, rest), (rest = {} /\ f.kind # "approve") \/ next = "approved",
           rest = {} \/ (route = "buy" /\ \E g \in Asking : rest = {g} /\ g.kept = f.kept /\ g.from = f.from)
    PROVE  WalletInv'
<1>1. /\ Args' = Args /\ Asking' = Asking
      /\ UNCHANGED <<route, wallet, jolts, sepolia, overlap, success, syncError, retrying, syncs, reports>>
      /\ txs' = Append(txs, Tx(f)) /\ tx' = Len(txs') /\ told' = "no" /\ step' = next
      /\ flows' = (flows \ {f}) \cup rest
  BY ArgsKept DEF Sign, connVars, syncVars
<1>2. /\ Carried /\ Len(txs') = Len(txs) + 1 /\ Tx(f) \in Sent
      /\ \A i \in 1..Len(txs) : txs'[i] = txs[i]
      /\ txs'[Len(txs) + 1] = Tx(f)
  BY <1>1, SentCarries
<1>3. Len(txs) \in Nat /\ txs' \in Seq(Sent) /\ txs' \in Seq(Sent)' /\ DOMAIN txs' = 1..Len(txs')
  BY <1>1, <1>2, TxsKnown, ArgsKept, LenProperties DEF WalletInv, Carried
<1>4. flows' \subseteq Asking /\ IsFiniteSet(flows') /\ Cardinality(flows') <= 2
  <2>1. PICK g : rest = {} \/ rest = {g}
    OBVIOUS
  <2>2. flows' \subseteq Asking /\ IsFiniteSet(flows') /\ Cardinality(flows') <= Cardinality(flows)
    BY <1>1, <2>1, FlowGoesOn
  <2>3. Cardinality(flows) \in Nat /\ Cardinality(flows) <= 2 /\ Cardinality(flows') \in Nat
    BY <2>2, FS_CardinalityType DEF WalletInv, PageTypeOK
  <2> QED
    BY <2>2, <2>3
<1>5. PageTypeOK(Args)'
  <2>1. tx' \in 0..Len(txs') /\ told' \in {"no", "mined", "reverted"} /\ step' \in Steps
    BY <1>1, <1>2, <1>3 DEF Steps
  <2>2. /\ reports' \subseteq [wallet : Wallets, tx : 1..Len(txs')]
        /\ syncs' \subseteq [wallet : Wallets, tx : 1..Len(txs'), attempt : 1..Routes[route']]
    BY <1>1, <1>2, <1>3 DEF WalletInv, PageTypeOK
  <2> QED
    BY <1>1, <1>3, <1>4, <2>1, <2>2 DEF WalletInv, PageTypeOK, Asking, Sent
<1>6. KeptIsConnected'
  <2>1. \A g \in flows' : g.kept => g.from = wallet
    BY <1>1 DEF WalletInv, KeptIsConnected
  <2>2. \A i \in 1..Len(txs) : txs[i].kept => txs[i].from = wallet
    BY TxsKnown DEF WalletInv, KeptIsConnected
  <2>3. Tx(f).kept => Tx(f).from = wallet
    BY DEF Tx
  <2>4. \A i \in DOMAIN txs' : i \in 1..Len(txs) \/ i = Len(txs) + 1
    BY <1>2, <1>3
  <2> QED
    BY <1>1, <1>2, <2>1, <2>2, <2>3, <2>4 DEF KeptIsConnected
<1>7. WaitingIsForPayment'
  <2>1. next = "waiting" => tx' # 0 /\ txs'[tx'].kind # "approve"
    BY <1>1, <1>2, <1>3 DEF Tx
  <2> QED
    BY <1>1, <2>1 DEF WalletInv, WaitingIsForPayment
<1>8. ASSUME ~ overlap
      PROVE  syncs = {} /\ ~ syncError /\ \A g, h \in flows' : g = h
  BY <1>1, <1>8 DEF WalletInv, ReportingInOrder
<1>9. ~ overlap /\ flows' # {} => step' = "approved"
  BY <1>1 DEF WalletInv, ReportingInOrder
<1>10. ReportingInOrder'
  BY <1>1, <1>2, <1>8, <1>9, OrderKept
<1> QED
  BY <1>4, <1>5, <1>6, <1>7, <1>10 DEF WalletInv

LEMMA ResumeKeeps ==
    ASSUME WalletInv, NEW f \in flows, Resume(f), route = "buy"
    PROVE  WalletInv'
<1> DEFINE g == [f EXCEPT !.kind = "buy"]
<1>1. /\ Args' = Args /\ Asking' = Asking
      /\ UNCHANGED <<route, wallet, jolts, sepolia, txs, tx, told, overlap, success, syncError, retrying, syncs, reports>>
      /\ flows' = (flows \ {f}) \cup {g} /\ step' = "purchasing"
  BY ArgsKept DEF Resume, connVars, syncVars
<1>2. f \in Asking /\ g \in Asking /\ g.kept = f.kept /\ g.from = f.from
  BY DEF WalletInv, PageTypeOK, Asking, Kinds
<1> HIDE DEF g
<1>3. flows' \subseteq Asking /\ IsFiniteSet(flows') /\ Cardinality(flows') <= Cardinality(flows)
  BY <1>1, <1>2, FlowGoesOn
<1>4. Cardinality(flows') <= 2
  BY <1>3, FS_CardinalityType DEF WalletInv, PageTypeOK
<1>5. step' \in Steps
  BY <1>1 DEF Steps
<1>6. PageTypeOK(Args)'
  BY <1>1, <1>3, <1>4, <1>5 DEF WalletInv, PageTypeOK, Asking
<1>7. (KeptIsConnected /\ WaitingIsForPayment)'
  BY <1>1, <1>2 DEF WalletInv, KeptIsConnected, WaitingIsForPayment
<1>8. Carried
  BY <1>1, CarriedAlong DEF WalletInv
<1>9. ~ overlap => syncs = {} /\ ~ syncError /\ \A p, q \in flows' : p = q
  BY <1>1 DEF WalletInv, ReportingInOrder
<1>10. ReportingInOrder'
  BY <1>1, <1>8, <1>9, OrderKept
<1> QED
  BY <1>3, <1>6, <1>7, <1>10 DEF WalletInv

(* The transactions after a block. *)
LEMMA MinedCarries ==
    ASSUME WalletInv, NEW i \in DOMAIN txs, NEW ok \in BOOLEAN, NEW pay \in Nat, MineTx(i, ok, pay)
    PROVE  /\ Carried /\ Len(txs') = Len(txs) /\ i \in 1..Len(txs)
           /\ txs'[i].state = (IF ok THEN "mined" ELSE "reverted") /\ txs'[i].paid = pay
           /\ \A j \in 1..Len(txs) : j # i =>
                /\ txs'[j].state = txs[j].state /\ txs'[j].paid = txs[j].paid
                /\ txs'[j].kept /\ txs[j].state = "pending" => txs[j].from # txs[i].from
<1>1. txs \in Seq(Sent) /\ DOMAIN txs = 1..Len(txs) /\ \A j \in 1..Len(txs) : txs[j] \in Sent
  BY TxsKnown DEF WalletInv
<1>2. i \in 1..Len(txs) /\ txs[i].state = "pending"
  BY <1>1 DEF MineTx
<1>3. txs'[i] = [txs[i] EXCEPT !.state = IF ok THEN "mined" ELSE "reverted", !.paid = pay]
  BY <1>1, <1>2 DEF MineTx
<1>4. \A j \in 1..Len(txs) : j # i =>
         txs'[j] = IF txs[j].from = txs[i].from /\ txs[j].state = "pending"
                   THEN [txs[j] EXCEPT !.kept = FALSE] ELSE txs[j]
  BY <1>1 DEF MineTx
<1>5. /\ txs'[i] \in Sent /\ txs'[i].from = txs[i].from /\ txs'[i].kind = txs[i].kind
      /\ txs'[i].arg = txs[i].arg /\ txs'[i].kept = txs[i].kept
      /\ txs'[i].state = (IF ok THEN "mined" ELSE "reverted") /\ txs'[i].paid = pay
  <2>1. txs[i] \in Sent
    BY <1>1, <1>2
  <2>2. (IF ok THEN "mined" ELSE "reverted") \in {"pending", "mined", "reverted"}
    OBVIOUS
  <2> QED
    BY <1>3, <2>1, <2>2 DEF Sent
<1>6. ASSUME NEW j \in 1..Len(txs), j # i
      PROVE  /\ txs'[j] \in Sent /\ txs'[j].from = txs[j].from /\ txs'[j].kind = txs[j].kind
             /\ txs'[j].arg = txs[j].arg /\ (txs'[j].kept => txs[j].kept)
             /\ txs'[j].state = txs[j].state /\ txs'[j].paid = txs[j].paid
             /\ txs'[j].kept /\ txs[j].state = "pending" => txs[j].from # txs[i].from
  <2>1. txs[j] \in Sent
    BY <1>1
  <2>2. CASE txs[j].from = txs[i].from /\ txs[j].state = "pending"
    <3>1. txs'[j] = [txs[j] EXCEPT !.kept = FALSE]
      BY <1>4, <1>6, <2>2
    <3> QED
      BY <2>1, <3>1 DEF Sent
  <2>3. CASE ~ (txs[j].from = txs[i].from /\ txs[j].state = "pending")
    <3>1. txs'[j] = txs[j]
      BY <1>4, <1>6, <2>3
    <3> QED
      BY <2>1, <2>3, <3>1
  <2> QED
    BY <2>2, <2>3
<1>7. txs' = [j \in DOMAIN txs |-> txs'[j]] /\ \A j \in 1..Len(txs) : txs'[j] \in Sent
  BY <1>1, <1>5, <1>6 DEF MineTx
<1>8. txs' \in Seq(Sent) /\ Len(txs') = Len(txs)
  BY <1>1, <1>7, ChangedInPlace
<1>9. Carried
  BY <1>1, <1>2, <1>5, <1>6, <1>8 DEF Carried
<1> QED
  BY <1>2, <1>5, <1>6, <1>8, <1>9

LEMMA MineKeeps ==
    ASSUME WalletInv, NEW i \in DOMAIN txs, NEW ok \in BOOLEAN, NEW pay \in Nat, MineTx(i, ok, pay)
    PROVE  WalletInv'
<1>1. /\ Args' = Args /\ Asking' = Asking
      /\ UNCHANGED <<route, wallet, jolts, sepolia, step, tx, told, overlap, success, syncError, retrying, syncs, reports>>
  BY ArgsKept DEF MineTx, connVars, syncVars
<1>2. Carried /\ Len(txs') = Len(txs)
  BY MinedCarries
<1>3. txs' \in Seq(Sent)' /\ DOMAIN txs' = 1..Len(txs') /\ tx \in 0..Len(txs) /\ Len(txs) \in Nat
  BY <1>1, <1>2, TxsKnown, ArgsKept, LenProperties DEF Carried, WalletInv
<1> DEFINE who == txs[i].from
           h == [f \in flows |-> [f EXCEPT !.kept = @ /\ f.from # who]]
<1>4. flows \subseteq Asking /\ IsFiniteSet(flows)
  BY DEF WalletInv, PageTypeOK, Asking
<1>5. \A f \in flows : /\ h[f] \in Asking /\ h[f].from = f.from /\ h[f].kind = f.kind
                       /\ (h[f].kept => f.kept)
  BY <1>4 DEF Asking
<1>6. flows' = {h[f] : f \in flows}
  BY DEF MineTx
<1>7. h \in [flows -> flows']
  BY <1>6
<1> HIDE DEF h
<1>8. IsFiniteSet(flows') /\ Cardinality(flows') <= Cardinality(flows)
  BY <1>4, <1>6, <1>7, FlowsReleased
<1>9. flows' \subseteq Asking /\ Cardinality(flows') <= 2
  <2>1. Cardinality(flows) \in Nat /\ Cardinality(flows') \in Nat /\ Cardinality(flows) <= 2
    BY <1>4, <1>8, FS_CardinalityType DEF WalletInv, PageTypeOK
  <2> QED
    BY <1>5, <1>6, <1>8, <2>1
<1>10. PageTypeOK(Args)'
  <2>1. reports' \subseteq [wallet : Wallets, tx : 1..Len(txs')] /\ tx' \in 0..Len(txs')
        /\ syncs' \subseteq [wallet : Wallets, tx : 1..Len(txs'), attempt : 1..Routes[route']]
    BY <1>1, <1>2, <1>3 DEF WalletInv, PageTypeOK
  <2> QED
    BY <1>1, <1>3, <1>9, <2>1 DEF WalletInv, PageTypeOK, Asking, Sent
<1>11. KeptIsConnected'
  <2>1. \A j \in 1..Len(txs) : txs[j].kept => txs[j].from = wallet
    BY TxsKnown DEF WalletInv, KeptIsConnected
  <2>2. \A j \in DOMAIN txs' : txs'[j].kept => txs'[j].from = wallet
    BY <1>2, <1>3, <2>1 DEF Carried
  <2> QED
    BY <1>1, <1>5, <1>6, <2>2 DEF WalletInv, KeptIsConnected
<1>12. WaitingIsForPayment'
  BY <1>1, <1>2, <1>3, <1>5, <1>6 DEF WalletInv, WaitingIsForPayment, Carried
<1>13. ~ overlap /\ flows' # {} => /\ syncs = {} /\ ~ syncError /\ \A f, g \in flows' : f = g
                                   /\ step \in {"claiming", "approving", "approved", "purchasing"}
  BY <1>6 DEF WalletInv, ReportingInOrder
<1>14. ReportingInOrder'
  BY <1>1, <1>2, <1>13, OrderKept
<1> QED
  BY <1>8, <1>10, <1>11, <1>12, <1>14 DEF WalletInv

(* A transaction is marked as asked for. *)
LEMMA AskedCarries ==
    ASSUME WalletInv, tx # 0, Asked
    PROVE  /\ Carried /\ txs' \in Seq(Sent) /\ Len(txs') = Len(txs) /\ DOMAIN txs' = 1..Len(txs)
           /\ \A i \in 1..Len(txs) :
                /\ txs'[i].from = txs[i].from /\ txs'[i].kind = txs[i].kind /\ txs'[i].arg = txs[i].arg
                /\ txs'[i].kept = txs[i].kept /\ txs'[i].state = txs[i].state
<1>1. txs' = [txs EXCEPT ![tx].asked = TRUE]
  BY DEF Asked
<1>2. txs \in Seq(Sent) /\ Len(txs) \in Nat /\ DOMAIN txs = 1..Len(txs) /\ tx \in 1..Len(txs)
      /\ \A i \in 1..Len(txs) : txs[i] \in Sent
  BY TxsKnown DEF WalletInv
<1>3. \A i \in 1..Len(txs) : txs'[i] = IF i = tx THEN [txs[i] EXCEPT !.asked = TRUE] ELSE txs[i]
  BY <1>1, <1>2
<1>4. txs' = [i \in DOMAIN txs |-> txs'[i]]
  BY <1>1, <1>2
<1>5. ASSUME NEW i \in 1..Len(txs)
      PROVE  /\ txs'[i] \in Sent /\ txs'[i].from = txs[i].from /\ txs'[i].kind = txs[i].kind
             /\ txs'[i].arg = txs[i].arg /\ txs'[i].kept = txs[i].kept
             /\ txs'[i].state = txs[i].state /\ txs'[i].paid = txs[i].paid
  <2>1. txs[i] \in Sent
    BY <1>2
  <2>2. txs'[i] = [txs[i] EXCEPT !.asked = TRUE] \/ txs'[i] = txs[i]
    BY <1>3
  <2> QED
    BY <2>1, <2>2 DEF Sent
<1>6. txs' \in Seq(Sent) /\ Len(txs') = Len(txs) /\ DOMAIN txs' = 1..Len(txs)
  BY <1>2, <1>4, <1>5, ChangedInPlace
<1>7. Carried
  BY <1>2, <1>5, <1>6 DEF Carried
<1> QED
  BY <1>5, <1>6, <1>7

(* A report begins: of the connected wallet, for a transaction of it that  *)
(* is mined and no approval, unless clicks have overlapped retries.        *)
LEMMA StartKeeps ==
    ASSUME WalletInv, tx # 0, wallet # NoWallet, StartSync, Asked, success' \in BOOLEAN,
           retrying' \in BOOLEAN, told' \in {"no", "mined", "reverted"},
           step' \in {step, "syncing"}, UNCHANGED <<route, connVars, flows, tx, overlap, reports>>,
           ~ overlap => Reportable(tx) /\ flows = {}
    PROVE  WalletInv'
<1> DEFINE new == [wallet |-> wallet, tx |-> tx, attempt |-> 1]
<1>1. /\ Args' = Args /\ syncs' = syncs \cup {new} /\ syncError' = FALSE
      /\ UNCHANGED <<route, wallet, jolts, sepolia, flows, tx, overlap, reports>>
      /\ txs' = [txs EXCEPT ![tx].asked = TRUE]
  BY ArgsKept DEF StartSync, Asked, connVars
<1>2. txs \in Seq(Sent) /\ Len(txs) \in Nat /\ DOMAIN txs = 1..Len(txs) /\ tx \in 1..Len(txs)
      /\ \A i \in 1..Len(txs) : txs[i] \in Sent
  BY TxsKnown DEF WalletInv
<1>5. /\ Carried /\ txs' \in Seq(Sent) /\ Len(txs') = Len(txs) /\ DOMAIN txs' = 1..Len(txs)
      /\ \A i \in 1..Len(txs) :
           /\ txs'[i].from = txs[i].from /\ txs'[i].kind = txs[i].kind
           /\ txs'[i].kept = txs[i].kept /\ txs'[i].state = txs[i].state
  BY AskedCarries
<1>8. route \in DOMAIN Routes /\ wallet \in Wallets /\ Routes[route] \in Nat \ {0}
  BY WalletAssumption DEF WalletInv, PageTypeOK
<1>9. new \in [wallet : Wallets, tx : 1..Len(txs), attempt : 1..Routes[route]]
  BY <1>2, <1>8
<1>10. PageTypeOK(Args)'
  <2>1. syncs' \subseteq [wallet : Wallets, tx : 1..Len(txs'), attempt : 1..Routes[route']]
    BY <1>1, <1>5, <1>9 DEF WalletInv, PageTypeOK
  <2>2. reports' \subseteq [wallet : Wallets, tx : 1..Len(txs')] /\ tx' \in 0..Len(txs')
    BY <1>1, <1>5 DEF WalletInv, PageTypeOK
  <2>3. step' \in Steps /\ syncError' \in BOOLEAN
    BY <1>1 DEF WalletInv, PageTypeOK, Steps
  <2>4. txs' \in Seq(Sent)'
    BY <1>1, <1>5, ArgsKept
  <2> QED
    BY <1>1, <2>1, <2>2, <2>3, <2>4 DEF WalletInv, PageTypeOK, Sent
<1>11. KeptIsConnected'
  BY <1>1, <1>2, <1>5 DEF WalletInv, KeptIsConnected
<1>12. WaitingIsForPayment'
  BY <1>1, <1>2, <1>5 DEF WalletInv, WaitingIsForPayment
<1>13. ReportingInOrder'
  <2>1. /\ \A i \in 1..Len(txs) : Reportable(i) => NowReportable(i)
        /\ \A s \in syncs : s.tx \in 1..Len(txs) /\ (txs'[s.tx].kept => s.wallet = txs'[s.tx].from)
        /\ \A r \in reports : r.tx \in 1..Len(txs) /\ (txs'[r.tx].kept => r.wallet = txs'[r.tx].from)
    BY <1>5, ReportsCarried
  <2>2. txs[tx].kept => txs[tx].from = wallet
    BY <1>2 DEF WalletInv, KeptIsConnected
  <2>3. \A s \in syncs' : BySender(s)'
    BY <1>1, <1>2, <1>5, <2>1, <2>2 DEF BySender
  <2>4. \A r \in reports' : BySender(r)'
    BY <1>1, <2>1 DEF BySender
  <2>5. ASSUME ~ overlap'
        PROVE  /\ \A s \in syncs' : s.tx = tx' /\ NowReportable(tx')
               /\ \A r \in reports' : NowReportable(r.tx)
               /\ flows' = {}
    <3>1. /\ \A s \in syncs : s.tx = tx
          /\ \A r \in reports : Reportable(r.tx)
      BY <1>1, <2>5 DEF WalletInv, ReportingInOrder
    <3>2. Reportable(tx) /\ flows = {}
      BY <1>1, <2>5
    <3> QED
      BY <1>1, <1>2, <2>1, <3>1, <3>2
  <2> QED
    BY <1>1, <2>3, <2>4, <2>5 DEF ReportingInOrder, Reportable, NowReportable
<1>14. IsFiniteSet(flows')
  BY <1>1 DEF WalletInv
<1> QED
  BY <1>10, <1>11, <1>12, <1>13, <1>14 DEF WalletInv

LEMMA LearnKeeps ==
    ASSUME WalletInv, NEW ready \in BOOLEAN, LearnReceipt(ready), success' \in BOOLEAN
    PROVE  WalletInv'
<1>1. /\ UNCHANGED <<route, connVars, flows, tx, overlap, retrying, reports>>
      /\ tx # 0 /\ told' = txs[tx].state /\ txs[tx].state # "pending"
  BY DEF LearnReceipt
<1>2. told' \in {"no", "mined", "reverted"} /\ retrying' \in BOOLEAN
  <2>1. txs[tx] \in Sent
    BY <1>1, TxsKnown DEF WalletInv
  <2>2. txs[tx].state \in {"pending", "mined", "reverted"}
    BY <2>1 DEF Sent
  <2> QED
    BY <1>1, <2>2 DEF WalletInv, PageTypeOK
<1>3. CASE told' = "mined" /\ step = "waiting" /\ wallet # NoWallet /\ ready
  <2>1. step' = "syncing" /\ StartSync /\ Asked
    BY <1>3 DEF LearnReceipt
  <2>2. Reportable(tx)
    BY <1>1, <1>3 DEF WalletInv, WaitingIsForPayment, Reportable
  <2>3. ~ overlap => flows = {}
    BY <1>3 DEF WalletInv, ReportingInOrder
  <2> QED
    BY <1>1, <1>2, <1>3, <2>1, <2>2, <2>3, StartKeeps
<1>4. CASE ~ (told' = "mined" /\ step = "waiting" /\ wallet # NoWallet /\ ready)
  <2>1. /\ Args' = Args
        /\ UNCHANGED <<route, wallet, jolts, sepolia, step, flows, txs, tx, overlap, syncError, retrying, syncs, reports>>
    BY <1>1, <1>4, ArgsKept DEF LearnReceipt, connVars
  <2>2. PageTypeOK(Args)' /\ IsFiniteSet(flows)'
    BY <1>2, <2>1 DEF WalletInv, PageTypeOK
  <2>3. (KeptIsConnected /\ WaitingIsForPayment /\ ReportingInOrder)'
    BY <2>1 DEF WalletInv, KeptIsConnected, WaitingIsForPayment, ReportingInOrder, BySender, Reportable
  <2> QED
    BY <2>2, <2>3 DEF WalletInv
<1> QED
  BY <1>3, <1>4

LEMMA RetryKeeps ==
    ASSUME WalletInv, RetrySync
    PROVE  WalletInv'
<1>1. /\ UNCHANGED <<route, connVars, step, flows, tx, told, overlap, success, reports>> /\ retrying' = TRUE
      /\ syncError /\ wallet # NoWallet /\ tx # 0 /\ StartSync /\ Asked
  BY DEF RetrySync
<1>2. success' \in BOOLEAN /\ told' \in {"no", "mined", "reverted"} /\ retrying' \in BOOLEAN
  BY <1>1 DEF WalletInv, PageTypeOK
<1>3. ~ overlap => Reportable(tx) /\ flows = {}
  BY <1>1 DEF WalletInv, ReportingInOrder
<1> QED
  BY <1>1, <1>2, <1>3, StartKeeps

LEMMA AnswerKeeps ==
    ASSUME WalletInv, NEW s \in syncs, NEW ok \in BOOLEAN, NEW anyway \in BOOLEAN, SyncAnswer(s, ok, anyway)
    PROVE  WalletInv'
<1> DEFINE again == [s EXCEPT !.attempt = @ + 1]
           report == [wallet |-> s.wallet, tx |-> s.tx]
<1>1. /\ Args' = Args
      /\ UNCHANGED <<route, wallet, jolts, sepolia, flows, txs, tx, told, overlap>>
      /\ reports' = reports \cup {report} \/ reports' = reports
  BY ArgsKept DEF SyncAnswer, connVars
<1>2. \/ syncs' = syncs \ {s} /\ step' = "idle"
      \/ syncs' = (syncs \ {s}) \cup {again} /\ s.attempt # Routes[route] /\ UNCHANGED <<step, syncError>>
  BY DEF SyncAnswer
<1>3. /\ route \in DOMAIN Routes /\ Routes[route] \in Nat \ {0}
      /\ s \in [wallet : Wallets, tx : 1..Len(txs), attempt : 1..Routes[route]]
  BY WalletAssumption DEF WalletInv, PageTypeOK
<1>4. report \in [wallet : Wallets, tx : 1..Len(txs)] /\ report.wallet = s.wallet /\ report.tx = s.tx
  BY <1>3
<1>5. s.attempt # Routes[route] =>
        again \in [wallet : Wallets, tx : 1..Len(txs), attempt : 1..Routes[route]]
  BY <1>3
<1>6. again.wallet = s.wallet /\ again.tx = s.tx
  BY <1>3
<1> HIDE DEF again, report
<1>7. step' \in Steps /\ retrying' \in BOOLEAN /\ syncError' \in BOOLEAN /\ success' \in BOOLEAN
  BY DEF SyncAnswer, WalletInv, PageTypeOK, Steps
<1>8. /\ syncs' \subseteq [wallet : Wallets, tx : 1..Len(txs), attempt : 1..Routes[route]]
      /\ reports' \subseteq [wallet : Wallets, tx : 1..Len(txs)]
  BY <1>1, <1>2, <1>4, <1>5 DEF WalletInv, PageTypeOK
<1>9. PageTypeOK(Args)' /\ IsFiniteSet(flows)'
  BY <1>1, <1>7, <1>8 DEF WalletInv, PageTypeOK
<1>10. (KeptIsConnected /\ WaitingIsForPayment)'
  BY <1>1, <1>2 DEF WalletInv, KeptIsConnected, WaitingIsForPayment
<1>11. ReportingInOrder'
  <2>1. BySender(s) /\ (BySender(s) => BySender(report) /\ BySender(again))
    BY <1>4, <1>6 DEF WalletInv, ReportingInOrder, BySender
  <2>2. (\A r \in syncs' : BySender(r)) /\ (\A r \in reports' : BySender(r))
    BY <1>1, <1>2, <2>1 DEF WalletInv, ReportingInOrder
  <2>3. ASSUME ~ overlap
        PROVE  /\ \A r \in syncs' : r.tx = tx /\ Reportable(tx)
               /\ \A r \in reports' : Reportable(r.tx)
               /\ Reportable(tx) /\ flows = {}
    BY <1>1, <1>2, <1>4, <1>6, <2>3 DEF WalletInv, ReportingInOrder
  <2> QED
    BY <1>1, <2>2, <2>3 DEF ReportingInOrder, BySender, Reportable
<1> QED
  BY <1>9, <1>10, <1>11 DEF WalletInv

LEMMA WrongNetworkKeeps ==
    ASSUME WalletInv, BuyOnWrongNetwork
    PROVE  WalletInv'
<1>1. /\ Args' = Args /\ success' = FALSE /\ syncError' = FALSE
      /\ UNCHANGED <<route, wallet, jolts, sepolia, step, flows, txs, tx, told, overlap, retrying, syncs, reports>>
  BY ArgsKept DEF BuyOnWrongNetwork, connVars, sendVars
<1>2. PageTypeOK(Args)' /\ IsFiniteSet(flows)'
  BY <1>1 DEF WalletInv, PageTypeOK
<1>3. (KeptIsConnected /\ WaitingIsForPayment /\ ReportingInOrder)'
  BY <1>1 DEF WalletInv, KeptIsConnected, WaitingIsForPayment, ReportingInOrder, BySender, Reportable
<1> QED
  BY <1>2, <1>3 DEF WalletInv

-----------------------------------------------------------------------------
(* The airdrop page. *)

(* Nobody is shown as eligible without a leaf in the tree; and every       *)
(* request under way was made by a connection, a switch or a new try.      *)
EligibilityIsTrue ==
    route = "airdrop" =>
      /\ eligibility # NoEligibility /\ eligibility.eligible => eligibility.owner \in Listed
      /\ \A w \in Wallets : checks[w] <= jolts + (IF wallet = NoWallet THEN 0 ELSE 1)

AirdropInv == AirdropPageTypeOK /\ EligibilityIsTrue

LEMMA AirdropSentIsClaim ==
    ASSUME WalletInv, route # "buy", NEW f \in flows, Sign(f, "waiting", {})
    PROVE  WalletInv'
<1>1. f.kind = "claim" /\ {} \in SUBSET Asking
  BY DEF WalletInv, WaitingIsForPayment
<1> QED
  BY <1>1, SignKeeps

(* A new request for a wallet's eligibility. *)
LEMMA RequestCounted ==
    ASSUME AirdropInv, WalletInv, WalletInv', route = "airdrop", NEW w \in Wallets, CheckEligibility(w),
           wallet' # NoWallet, jolts' = jolts + 1 \/ (wallet = NoWallet /\ jolts' = jolts),
           UNCHANGED <<airdrop, clock, taken, seen, decrees>>, seenTaken' \in BOOLEAN
    PROVE  AirdropInv'
<1>1. /\ eligibility' = NoEligibility /\ checkError' = FALSE
      /\ checks' = [checks EXCEPT ![w] = @ + 1]
  BY DEF CheckEligibility
<1>2. jolts \in 0..MaxJolts /\ jolts' \in 0..MaxJolts /\ MaxJolts \in Nat
  BY WalletAssumption DEF WalletInv, PageTypeOK
<1>3. checks \in [Wallets -> 0..(MaxJolts + 1)]
      /\ \A v \in Wallets : checks[v] <= jolts + (IF wallet = NoWallet THEN 0 ELSE 1)
  BY DEF AirdropInv, AirdropPageTypeOK, EligibilityIsTrue
<1>4. \A v \in Wallets : checks[v] \in Nat /\ checks[v] + 1 <= jolts' + 1
  BY <1>2, <1>3
<1>5. \A v \in Wallets : checks'[v] \in Nat /\ checks'[v] <= jolts' + 1
  BY <1>1, <1>2, <1>3, <1>4
<1>6. checks' \in [Wallets -> 0..(MaxJolts + 1)]
  <2>1. \A v \in Wallets : checks'[v] \in 0..(MaxJolts + 1)
    BY <1>2, <1>5
  <2> QED
    BY <1>1, <1>3, <2>1
<1>7. AirdropPageTypeOK'
  BY <1>1, <1>6 DEF AirdropInv, AirdropPageTypeOK
<1>8. EligibilityIsTrue'
  BY <1>1, <1>5 DEF EligibilityIsTrue
<1> QED
  BY <1>7, <1>8 DEF AirdropInv

(* A step that leaves the requests and their answers alone. *)
LEMMA RequestsStand ==
    ASSUME AirdropInv, WalletInv, WalletInv', UNCHANGED <<route, eligibility, checks>>,
           jolts' = jolts \/ jolts' = jolts + 1, wallet' = wallet,
           checkError' \in BOOLEAN, airdrop' \in Contract, seen' \in Contract, clock' \in 0..3,
           taken' \subseteq Listed, seenTaken' \in BOOLEAN, decrees' \in 0..MaxDecrees
    PROVE  AirdropInv'
<1>1. jolts \in Nat /\ jolts' \in Nat /\ jolts <= jolts'
  BY WalletAssumption DEF WalletInv, PageTypeOK
<1>2. AirdropPageTypeOK'
  BY DEF AirdropInv, AirdropPageTypeOK
<1>3. EligibilityIsTrue'
  <2>1. \A v \in Wallets : checks[v] \in Nat
    BY WalletAssumption DEF AirdropInv, AirdropPageTypeOK
  <2> QED
    BY <1>1, <2>1 DEF AirdropInv, EligibilityIsTrue
<1> QED
  BY <1>2, <1>3 DEF AirdropInv

LEMMA AirdropPageKeeps ==
    ASSUME AirdropInv, WalletInv, route = "airdrop", AirdropPageNext
    PROVE  WalletInv' /\ AirdropInv'
<1> USE DEF AirdropInv
<1>0. /\ airdrop \in Contract /\ seen \in Contract /\ clock \in 0..3 /\ taken \subseteq Listed
      /\ seenTaken \in BOOLEAN /\ decrees \in 0..MaxDecrees /\ checkError \in BOOLEAN
      /\ MaxDecrees \in Nat /\ Unset \in Contract
  BY AirdropAssumption DEF AirdropPageTypeOK, Unset, Contract
<1>1. CASE \E i \in DOMAIN txs : MineClaim(i)
  <2>1. PICK i \in DOMAIN txs : MineClaim(i)
    BY <1>1
  <2> DEFINE ok == i \in DOMAIN txs /\ Accepts(txs[i])
  <2>2. ok \in BOOLEAN /\ 1 \in Nat /\ MineTx(i, ok, 1)
    BY <2>1 DEF MineClaim
  <2> HIDE DEF ok
  <2>3. WalletInv'
    BY <2>2, MineKeeps
  <2>4. taken' \subseteq Listed
    BY <1>0, <2>1 DEF MineClaim, Accepts
  <2>5. UNCHANGED <<route, jolts, wallet>>
    BY <2>2 DEF MineTx, connVars
  <2> QED
    BY <1>0, <2>1, <2>3, <2>4, <2>5, RequestsStand DEF MineClaim
<1>2. CASE LearnReceipt(eligibility # NoEligibility) /\ UNCHANGED <<success, apVars>>
  <2>1. success' \in BOOLEAN /\ (eligibility # NoEligibility) \in BOOLEAN
    BY <1>2 DEF WalletInv, PageTypeOK
  <2>2. WalletInv'
    BY <1>2, <2>1, LearnKeeps
  <2>3. UNCHANGED <<route, jolts, wallet>>
    BY <1>2 DEF LearnReceipt, connVars
  <2> QED
    BY <1>0, <1>2, <2>2, <2>3, RequestsStand DEF apVars
<1>3. CASE ReportAnswered
  <2>1. PICK s \in syncs, ok \in BOOLEAN : SyncAnswer(s, ok, TRUE)
    BY <1>3 DEF ReportAnswered
  <2>2. WalletInv'
    BY <2>1, AnswerKeeps
  <2>3. UNCHANGED <<route, jolts, wallet>>
    BY <2>1 DEF SyncAnswer, connVars
  <2> QED
    BY <1>0, <1>3, <2>2, <2>3, RequestsStand DEF ReportAnswered
<1>4. CASE \E w \in Wallets : CheckAnswered(w) \/ CheckFails(w)
  <2>1. PICK w \in Wallets : CheckAnswered(w) \/ CheckFails(w)
    BY <1>4
  <2>2. /\ checks[w] > 0 /\ checks' = [checks EXCEPT ![w] = @ - 1] /\ UNCHANGED pageVars
        /\ UNCHANGED <<airdrop, clock, taken, seen, seenTaken, decrees>>
    BY <2>1 DEF CheckAnswered, CheckFails, Answered
  <2>3. WalletInv'
    BY <2>2, WalletStands
  <2>4. UNCHANGED <<route, jolts, wallet>> /\ jolts \in Nat
    BY <2>2, WalletAssumption DEF pageVars, connVars, WalletInv, PageTypeOK
  <2>5. eligibility' = eligibility \/ eligibility' \in EligibilityAnswers(w)
    BY <2>1 DEF CheckAnswered, CheckFails
  <2>6. ASSUME eligibility' \in EligibilityAnswers(w)
         PROVE  /\ eligibility' \in [owner : Wallets, eligible : BOOLEAN, payable : BOOLEAN, claimed : BOOLEAN]
                /\ eligibility'.eligible => eligibility'.owner \in Listed
    BY <2>6 DEF EligibilityAnswers
  <2>7. checkError' \in BOOLEAN
    BY <1>0, <2>1 DEF CheckAnswered, CheckFails
  <2>8. \A v \in Wallets : checks'[v] \in 0..(MaxJolts + 1) /\ checks'[v] <= checks[v] /\ checks[v] \in Nat
    BY <2>2, WalletAssumption DEF AirdropPageTypeOK
  <2>9. checks' \in [Wallets -> 0..(MaxJolts + 1)]
    BY <2>2, <2>8 DEF AirdropPageTypeOK
  <2>10. AirdropPageTypeOK'
    BY <2>2, <2>5, <2>6, <2>7, <2>9 DEF AirdropPageTypeOK
  <2>11. eligibility' # NoEligibility /\ eligibility'.eligible => eligibility'.owner \in Listed
    BY <2>5, <2>6 DEF EligibilityIsTrue
  <2>12. EligibilityIsTrue'
    BY <2>4, <2>8, <2>11 DEF EligibilityIsTrue
  <2> QED
    BY <2>3, <2>10, <2>12
<1>5. CASE AirdropMoves \/ Tick \/ ReadAirdrop
  <2>1. UNCHANGED <<pageVars, eligibility, checks, checkError>>
    BY <1>5 DEF AirdropMoves, Govern, Tick, ReadAirdrop
  <2>2. WalletInv'
    BY <2>1, WalletStands
  <2>3. /\ airdrop' \in Contract /\ seen' \in Contract /\ clock' \in 0..3 /\ taken' \subseteq Listed
        /\ seenTaken' \in BOOLEAN /\ decrees' \in 0..MaxDecrees
    <3>1. CASE AirdropMoves
      <4>1. PICK a : /\ Govern(a)
                     /\ \/ \E o \in 1..2 : a = [airdrop EXCEPT !.root = TRUE, !.opens = o]
                        \/ a = [airdrop EXCEPT !.paused = ~@]
                        \/ a = [airdrop EXCEPT !.finalized = TRUE, !.paused = TRUE]
        BY <3>1 DEF AirdropMoves
      <4>2. a \in Contract
        BY <1>0, <4>1 DEF Contract
      <4> QED
        BY <1>0, <4>1, <4>2 DEF Govern
    <3>2. CASE Tick
      BY <1>0, <3>2 DEF Tick
    <3>3. CASE ReadAirdrop
      BY <1>0, <3>3 DEF ReadAirdrop
    <3> QED
      BY <1>5, <3>1, <3>2, <3>3
  <2>4. UNCHANGED <<route, jolts, wallet>>
    BY <2>1 DEF pageVars, connVars
  <2> QED
    BY <1>0, <2>1, <2>2, <2>3, <2>4, RequestsStand
<1>6. CASE WalletChanged
  <2>1. PICK w \in Wallets \cup {NoWallet} : Connect(w) \/ SwitchWallet(w)
    BY <1>6 DEF WalletChanged
  <2>2. WalletInv'
    BY <2>1, ConnectKeeps, SwitchWalletKeeps
  <2>3. /\ wallet' = w /\ route' = route /\ jolts \in Nat /\ MaxJolts \in Nat
        /\ \/ jolts' = jolts + 1 /\ wallet # NoWallet
           \/ jolts' = jolts /\ wallet = NoWallet /\ w # NoWallet
    BY <2>1, WalletAssumption DEF Connect, SwitchWallet, Jolt, WalletInv, PageTypeOK
  <2>4. seenTaken' \in BOOLEAN /\ UNCHANGED <<airdrop, clock, taken, seen, decrees>>
    BY <1>6 DEF WalletChanged
  <2>5. CASE w # NoWallet
    <3>1. CheckEligibility(w) /\ w \in Wallets
      BY <1>6, <2>3, <2>5 DEF WalletChanged
    <3> QED
      BY <2>2, <2>3, <2>4, <2>5, <3>1, RequestCounted
  <2>6. CASE w = NoWallet
    <3>1. eligibility' = NoEligibility /\ checkError' = FALSE /\ checks' = checks
      BY <1>6, <2>3, <2>6 DEF WalletChanged
    <3>2. AirdropPageTypeOK'
      BY <1>0, <2>4, <3>1 DEF AirdropPageTypeOK
    <3>3. \A v \in Wallets : checks[v] \in Nat /\ checks[v] <= jolts + 1
      BY <2>3 DEF AirdropPageTypeOK, EligibilityIsTrue
    <3>4. EligibilityIsTrue'
      BY <2>3, <2>6, <3>1, <3>3 DEF EligibilityIsTrue
    <3> QED
      BY <2>2, <3>2, <3>4
  <2> QED
    BY <2>5, <2>6
<1>7. CASE TryAgain
  <2>1. wallet # NoWallet /\ CheckEligibility(wallet) /\ Jolt /\ Disturb
        /\ UNCHANGED <<route, wallet, sepolia, step, tx, told, overlap, syncVars,
                       airdrop, clock, taken, seen, seenTaken, decrees>>
    BY <1>7 DEF TryAgain
  <2>2. wallet \in Wallets
    BY <2>1 DEF WalletInv, PageTypeOK
  <2>3. WalletInv'
    BY <2>1, <2>2, DisturbKeeps
  <2> QED
    BY <1>0, <2>1, <2>2, <2>3, RequestCounted DEF Jolt
<1>8. CASE ClaimAirdrop
  <2>1. /\ ButtonEnabled /\ Click("claim", eligibility.owner, "claiming", TRUE)
        /\ UNCHANGED <<success, apVars>>
    BY <1>8 DEF ClaimAirdrop
  <2>2. eligibility.owner \in Args /\ "claim" \in Kinds
    BY <2>1 DEF ButtonEnabled, ButtonShown, IsEligible, AirdropPageTypeOK, Args, Kinds
  <2>3. success' \in BOOLEAN
    BY <2>1 DEF WalletInv, PageTypeOK
  <2>4. WalletInv'
    BY <2>1, <2>2, <2>3, ClickKeeps
  <2>5. UNCHANGED <<route, jolts, wallet>>
    BY <2>1 DEF Click, connVars
  <2> QED
    BY <1>0, <2>1, <2>4, <2>5, RequestsStand DEF apVars
<1>9. CASE \E f \in flows : (Reject(f) \/ Sign(f, "waiting", {})) /\ UNCHANGED apVars
  <2>1. PICK f \in flows : (Reject(f) \/ Sign(f, "waiting", {})) /\ UNCHANGED apVars
    BY <1>9
  <2>2. WalletInv'
    BY <2>1, RejectKeeps, AirdropSentIsClaim
  <2>3. UNCHANGED <<route, wallet>> /\ (jolts' = jolts \/ jolts' = jolts + 1)
    BY <2>1 DEF Reject, Sign, Jolt, connVars
  <2> QED
    BY <1>0, <2>1, <2>2, <2>3, RequestsStand DEF apVars
<1>10. CASE SwitchNetwork /\ UNCHANGED apVars
  <2>1. WalletInv'
    BY <1>10, SwitchNetworkKeeps
  <2>2. UNCHANGED <<route, wallet>> /\ jolts' = jolts + 1
    BY <1>10 DEF SwitchNetwork, Jolt
  <2> QED
    BY <1>0, <1>10, <2>1, <2>2, RequestsStand DEF apVars
<1>11. CASE ReloadAirdrop
  <2>1. /\ Reload /\ UNCHANGED <<airdrop, clock, taken, decrees>> /\ seen' = Unset /\ seenTaken' = FALSE
        /\ eligibility' = NoEligibility /\ checkError' = FALSE
        /\ checks' = [w \in Wallets |-> IF w = wallet THEN 1 ELSE 0]
    BY <1>11 DEF ReloadAirdrop
  <2>2. WalletInv'
    BY <2>1, ReloadKeeps
  <2>3. jolts' = jolts + 1 /\ jolts \in Nat /\ MaxJolts \in Nat /\ UNCHANGED <<route, wallet>>
    BY <2>1, WalletAssumption DEF Reload, Jolt, WalletInv, PageTypeOK
  <2>4. AirdropPageTypeOK'
    <3>1. \A v \in Wallets : checks'[v] \in 0..(MaxJolts + 1)
      BY <2>1, <2>3
    <3>2. checks' \in [Wallets -> 0..(MaxJolts + 1)]
      BY <2>1, <3>1
    <3> QED
      BY <1>0, <2>1, <3>2 DEF AirdropPageTypeOK
  <2>5. EligibilityIsTrue'
    BY <2>1, <2>3 DEF EligibilityIsTrue
  <2> QED
    BY <2>2, <2>4, <2>5
<1> QED
  BY <1>1, <1>2, <1>3, <1>4, <1>5, <1>6, <1>7, <1>8, <1>9, <1>10, <1>11
    DEF AirdropPageNext, AirdropPageStep

-----------------------------------------------------------------------------
(* The vesting page. *)

(* Rounded down, more is not less. *)
LEMMA DivGrows ==
    ASSUME NEW a \in Nat, NEW b \in Nat, a <= b, NEW d \in Nat \ {0}
    PROVE  a \div d <= b \div d /\ a \div d \in Nat
<1> DEFINE q == a \div d
           r == b \div d
<1>1. q \in Int /\ r \in Int /\ d * q <= a /\ a < d * q + d /\ d * r <= b /\ b < d * r + d
  OBVIOUS
<1> HIDE DEF q, r
<1>2. q >= 0
  <2>1. ASSUME q <= -1 PROVE d * q + d <= 0
    <3>1. d * (q + 1) <= 0
      BY <1>1, <2>1
    <3> QED
      BY <1>1, <3>1
  <2> QED
    BY <1>1, <2>1
<1>3. q <= r
  <2>1. ASSUME r + 1 <= q PROVE FALSE
    <3>1. d * (r + 1) <= d * q
      BY <1>1, <2>1
    <3> QED
      BY <1>1, <3>1
  <2> QED
    BY <1>1, <2>1
<1> QED
  BY <1>1, <1>2, <1>3 DEF q, r

LEMMA ShareKnown == Share \in Nat /\ Stages * Share = 100 /\ Stages \in Nat \ {0} /\ MaxGrants \in Nat
<1>1. Share \in Nat
  BY StagesAssumption, DivGrows DEF Share
<1> QED
  BY <1>1, StagesAssumption DEF Share

LEMMA ProductGrows ==
    ASSUME NEW a \in Nat, NEW b \in Nat, a <= b, NEW d \in Nat
    PROVE  a * d \in Nat /\ b * d \in Nat /\ a * d <= b * d
OBVIOUS

(* What has vested of an amount after some stages. *)
Matured(t, n) == (t * n * Share) \div 100

LEMMA MaturedGrows ==
    ASSUME NEW t \in Nat, NEW u \in Nat, t <= u, NEW m \in Nat, NEW n \in Nat, m <= n
    PROVE  Matured(t, m) <= Matured(u, n) /\ Matured(t, m) \in Nat /\ Matured(u, n) \in Nat
<1>1. t * m <= u * n /\ t * m \in Nat /\ u * n \in Nat
  <2>1. t * m <= u * m /\ t * m \in Nat /\ u * m \in Nat
    BY ProductGrows
  <2>2. m * u <= n * u /\ n * u \in Nat
    BY ProductGrows
  <2>3. m * u = u * m /\ n * u = u * n
    OBVIOUS
  <2> QED
    BY <2>1, <2>2, <2>3
<1>2. (t * m) * Share \in Nat /\ (u * n) * Share \in Nat /\ (t * m) * Share <= (u * n) * Share
  BY <1>1, ProductGrows, ShareKnown
<1>3. 100 \in Nat \ {0}
  OBVIOUS
<1> QED
  BY <1>2, <1>3, DivGrows DEF Matured

LEMMA ReleasableKnown ==
    ASSUME VestingPageTypeOK, NEW w \in Wallets
    PROVE  /\ Releasable(w) \in Nat /\ Matured(total[w], stage) \in Nat
           /\ Releasable(w) = IF stage = 0 THEN 0 ELSE Monus(Matured(total[w], stage), claimed[w])
<1>1. total[w] \in Nat /\ claimed[w] \in Nat /\ stage \in Nat
  BY ShareKnown DEF VestingPageTypeOK
<1>2. total[w] <= total[w] /\ stage <= stage
  BY <1>1
<1>3. Matured(total[w], stage) \in Nat
  BY <1>1, <1>2, MaturedGrows
<1> QED
  BY <1>1, <1>3 DEF Releasable, Monus, Matured

(* As long as nothing is claimed, what is releasable can only grow.        *)
LEMMA ReleasableGrows ==
    ASSUME VestingPageTypeOK, VestingPageTypeOK', NEW w \in Wallets, total[w] <= total'[w],
           stage <= stage', claimed'[w] = claimed[w]
    PROVE  Releasable(w) <= Releasable(w)' /\ Releasable(w) \in Nat /\ Releasable(w)' \in Nat
<1>1. /\ total[w] \in Nat /\ claimed[w] \in Nat /\ stage \in Nat /\ total'[w] \in Nat /\ stage' \in Nat
  BY ShareKnown DEF VestingPageTypeOK
<1>2. Matured(total[w], stage) <= Matured(total'[w], stage')
      /\ Matured(total[w], stage) \in Nat /\ Matured(total'[w], stage') \in Nat
  BY <1>1, MaturedGrows
<1>3. Releasable(w) = IF stage = 0 THEN 0 ELSE Monus(Matured(total[w], stage), claimed[w])
  BY ReleasableKnown
<1>4. Releasable(w)' = IF stage' = 0 THEN 0 ELSE Monus(Matured(total'[w], stage'), claimed'[w])
  BY <1>1 DEF Releasable, Matured, Monus
<1> QED
  BY <1>1, <1>2, <1>3, <1>4 DEF Monus

(* The amount a claim was sent with is covered: what the page read for the *)
(* wallet is still releasable unless the wallet has claimed since, and so  *)
(* is what flows and transactions captured, as long as the wallet stands   *)
(* behind them.                                                            *)
ReadIsCovered ==
    wallet # NoWallet =>
      /\ read.claimed <= claimed[wallet]
      /\ read.claimed = claimed[wallet] => read.releasable <= Releasable(wallet)
FlowsAreCovered == \A f \in flows : f.kept => f.arg <= Releasable(f.from)
TxsAreCovered ==
    \A i \in DOMAIN txs : txs[i].kept =>
      /\ txs[i].state = "pending" => txs[i].arg <= Releasable(txs[i].from)
      /\ txs[i].state = "mined" => txs[i].arg <= txs[i].paid
CaptureIsCovered ==
    route = "vesting" =>
      /\ ~ overlap /\ (syncs # {} \/ syncError => claimOnChainSuccess)
      /\ ReadIsCovered /\ FlowsAreCovered /\ TxsAreCovered

VestingInv == VestingPageTypeOK /\ CaptureIsCovered

(* What is releasable after the step. *)
PayableNow(w) == IF stage' = 0 THEN 0 ELSE Monus((total'[w] * stage' * Share) \div 100, claimed'[w])

(* A step of the page that leaves the contract alone. *)
LEMMA CoverStands ==
    ASSUME UNCHANGED <<total, claimed, stage>>
    PROVE  \A w : Releasable(w)' = Releasable(w)
BY DEF Releasable

LEMMA ReadKnown ==
    ASSUME VestingPageTypeOK, WalletInv
    PROVE  /\ NowRead \in [total : Nat, claimed : Nat, releasable : Nat, paused : BOOLEAN]
           /\ Unread \in [total : Nat, claimed : Nat, releasable : Nat, paused : BOOLEAN]
           /\ wallet # NoWallet => wallet \in Wallets /\ NowRead.claimed = claimed[wallet]
                                  /\ NowRead.releasable = Releasable(wallet)
           /\ Unread.claimed = 0 /\ Unread.releasable = 0
<1>1. Unread \in [total : Nat, claimed : Nat, releasable : Nat, paused : BOOLEAN]
      /\ Unread.claimed = 0 /\ Unread.releasable = 0
  BY DEF Unread
<1>2. CASE wallet = NoWallet
  BY <1>1, <1>2 DEF NowRead
<1>3. CASE wallet # NoWallet
  <2>1. wallet \in Wallets
    BY <1>3 DEF WalletInv, PageTypeOK
  <2>2. total[wallet] \in Nat /\ claimed[wallet] \in Nat /\ vestingPaused \in BOOLEAN
    BY <2>1 DEF VestingPageTypeOK
  <2>3. Releasable(wallet) \in Nat
    BY <2>1, ReleasableKnown
  <2> QED
    BY <1>1, <1>3, <2>1, <2>2, <2>3 DEF NowRead, Current
<1> QED
  BY <1>2, <1>3

LEMMA CoverKept ==
    ASSUME VestingInv, route = "vesting", WalletInv, UNCHANGED <<route, total, claimed, stage, vestingPaused, grants>>,
           \/ read' \in {read, NowRead} /\ wallet' = wallet
           \/ read' = Unread /\ wallet' \in Wallets \cup {NoWallet},
           claimOnChainSuccess' \in BOOLEAN, Carried,
           \A i \in DOMAIN txs' :
             \/ i \in DOMAIN txs /\ txs'[i].state = txs[i].state
             \/ /\ txs'[i].state = "pending"
                /\ \E g \in flows : /\ txs'[i].from = g.from /\ txs'[i].arg = g.arg
                                    /\ txs'[i].kept => g.kept,
           \A f \in flows' : f.kept =>
             \/ \E g \in flows : g.kept /\ f.from = g.from /\ f.arg = g.arg
             \/ f.arg <= Releasable(f.from),
           ~ overlap', syncs' # {} \/ syncError' => claimOnChainSuccess'
    PROVE  VestingInv'
<1>1. \A w : Releasable(w)' = Releasable(w)
  BY CoverStands
<1>2. /\ NowRead \in [total : Nat, claimed : Nat, releasable : Nat, paused : BOOLEAN]
      /\ Unread \in [total : Nat, claimed : Nat, releasable : Nat, paused : BOOLEAN]
      /\ wallet # NoWallet => wallet \in Wallets /\ NowRead.claimed = claimed[wallet]
                             /\ NowRead.releasable = Releasable(wallet)
      /\ Unread.claimed = 0 /\ Unread.releasable = 0
  BY ReadKnown DEF VestingInv
<1>3. VestingPageTypeOK'
  BY <1>2 DEF VestingInv, VestingPageTypeOK
<1>4. \A w \in Wallets : claimed[w] \in Nat /\ Releasable(w) \in Nat
  BY ReleasableKnown DEF VestingInv, VestingPageTypeOK
<1>5. ReadIsCovered'
  <2>1. CASE read' = read /\ wallet' = wallet
    BY <1>1, <2>1 DEF VestingInv, CaptureIsCovered, ReadIsCovered
  <2>2. CASE read' = NowRead /\ wallet' = wallet
    BY <1>1, <1>2, <1>4, <2>2 DEF ReadIsCovered
  <2>3. CASE read' = Unread /\ wallet' \in Wallets \cup {NoWallet}
    BY <1>1, <1>2, <1>4, <2>3 DEF ReadIsCovered
  <2> QED
    BY <2>1, <2>2, <2>3
<1>6. FlowsAreCovered'
  BY <1>1 DEF VestingInv, CaptureIsCovered, FlowsAreCovered
<1>7. TxsAreCovered'
  <2>1. \A i \in DOMAIN txs : /\ txs'[i].from = txs[i].from /\ txs'[i].arg = txs[i].arg
                              /\ txs'[i].kept => txs[i].kept
                              /\ txs[i].state = "mined" => txs'[i].paid = txs[i].paid
    BY TxsKnown DEF Carried, WalletInv
  <2>2. \A i \in DOMAIN txs : txs[i].kept =>
          /\ txs[i].state = "pending" => txs[i].arg <= Releasable(txs[i].from)
          /\ txs[i].state = "mined" => txs[i].arg <= txs[i].paid
    BY DEF VestingInv, CaptureIsCovered, TxsAreCovered
  <2>3. \A f \in flows : f.kept => f.arg <= Releasable(f.from)
    BY DEF VestingInv, CaptureIsCovered, FlowsAreCovered
  <2>4. ASSUME NEW i \in DOMAIN txs', txs'[i].kept
        PROVE  /\ txs'[i].state = "pending" => txs'[i].arg <= PayableNow(txs'[i].from)
               /\ txs'[i].state = "mined" => txs'[i].arg <= txs'[i].paid
    <3>1. PayableNow(txs'[i].from) = Releasable(txs'[i].from)
      BY DEF PayableNow, Releasable
    <3>2. CASE i \in DOMAIN txs /\ txs'[i].state = txs[i].state
      BY <2>1, <2>2, <2>4, <3>1, <3>2
    <3>3. CASE ~ (i \in DOMAIN txs /\ txs'[i].state = txs[i].state)
      <4>1. txs'[i].state = "pending"
        BY <3>3
      <4>2. PICK g \in flows : txs'[i].from = g.from /\ txs'[i].arg = g.arg /\ (txs'[i].kept => g.kept)
        BY <3>3
      <4> QED
        BY <2>3, <2>4, <3>1, <4>1, <4>2
    <3> QED
      BY <3>2, <3>3
  <2> QED
    BY <2>4 DEF TxsAreCovered, PayableNow, Releasable
<1> QED
  BY <1>3, <1>5, <1>6, <1>7 DEF VestingInv, CaptureIsCovered

(* An allocation or a stage: nobody has less to claim than before.         *)
LEMMA CoverGrows ==
    ASSUME VestingInv, route = "vesting", WalletInv, VestingPageTypeOK', UNCHANGED <<pageVars, claimed, read>>,
           \A w \in Wallets : total[w] <= total'[w], stage <= stage', claimOnChainSuccess' = claimOnChainSuccess
    PROVE  VestingInv'
<1>1. UNCHANGED <<route, wallet, flows, txs, overlap, syncs, syncError>>
  BY DEF pageVars, connVars, sendVars, syncVars
<1>2. \A w \in Wallets : Releasable(w) <= Releasable(w)' /\ Releasable(w) \in Nat /\ Releasable(w)' \in Nat
  BY ReleasableGrows DEF VestingInv
<1>3. /\ wallet \in Wallets \cup {NoWallet} /\ read.releasable \in Nat
      /\ \A f \in flows : f.from \in Wallets /\ f.arg \in Nat
      /\ \A i \in DOMAIN txs : txs[i].from \in Wallets /\ txs[i].arg \in Nat
  <2>1. Args = Nat
    BY DEF VestingInv, Args
  <2>2. \A i \in DOMAIN txs : txs[i] \in Sent
    BY TxsKnown DEF WalletInv
  <2> QED
    BY <2>1, <2>2 DEF WalletInv, PageTypeOK, VestingInv, VestingPageTypeOK, Sent
<1>4. ReadIsCovered'
  BY <1>1, <1>2, <1>3 DEF VestingInv, CaptureIsCovered, ReadIsCovered
<1>5. FlowsAreCovered'
  BY <1>1, <1>2, <1>3 DEF VestingInv, CaptureIsCovered, FlowsAreCovered
<1>6. TxsAreCovered'
  BY <1>1, <1>2, <1>3 DEF VestingInv, CaptureIsCovered, TxsAreCovered
<1> QED
  BY <1>1, <1>4, <1>5, <1>6 DEF VestingInv, CaptureIsCovered

(* A block takes a claim: it pays what is releasable now.                  *)
LEMMA ReleaseKeeps ==
    ASSUME VestingInv, route = "vesting", WalletInv, NEW i \in DOMAIN txs, MineRelease(i)
    PROVE  WalletInv' /\ VestingInv'
<1> DEFINE w == txs[i].from
           paid == IF vestingPaused THEN 0 ELSE Releasable(w)
<1>1. /\ MineTx(i, paid > 0, paid) /\ claimed' = [claimed EXCEPT ![w] = @ + paid]
      /\ UNCHANGED <<total, stage, vestingPaused, read, claimOnChainSuccess, grants>>
  BY DEF MineRelease
<1>2. w \in Wallets /\ txs[i].arg \in Nat /\ \A j \in DOMAIN txs : txs[j].from \in Wallets
  <2>1. \A j \in DOMAIN txs : txs[j] \in Sent
    BY TxsKnown DEF WalletInv
  <2> QED
    BY <2>1 DEF VestingInv, Args, Sent
<1>3. Releasable(w) \in Nat
  BY <1>2, ReleasableKnown DEF VestingInv
<1>4. paid \in Nat /\ (paid > 0) \in BOOLEAN /\ (paid > 0 => paid = Releasable(w))
  BY <1>3
<1> HIDE DEF w, paid
<1>5. WalletInv'
  BY <1>1, <1>4, MineKeeps
<1>6. VestingPageTypeOK'
  <2>1. \A v \in Wallets : claimed'[v] \in Nat
    BY <1>1, <1>2, <1>4 DEF VestingInv, VestingPageTypeOK
  <2>2. claimed' \in [Wallets -> Nat]
    BY <1>1, <2>1 DEF VestingInv, VestingPageTypeOK
  <2> QED
    BY <1>1, <2>2 DEF VestingInv, VestingPageTypeOK
<1>7. /\ \A v \in Wallets : v # w \/ paid = 0 => claimed'[v] = claimed[v] /\ Releasable(v)' = Releasable(v)
      /\ claimed'[w] = claimed[w] + paid /\ claimed[w] \in Nat
  <2>1. \A v \in Wallets : claimed[v] \in Nat /\ claimed'[v] = IF v = w THEN claimed[v] + paid ELSE claimed[v]
    BY <1>1 DEF VestingInv, VestingPageTypeOK
  <2>2. \A v \in Wallets : v # w \/ paid = 0 => claimed'[v] = claimed[v]
    BY <1>4, <2>1
  <2>3. \A v : claimed'[v] = claimed[v] => Releasable(v)' = Releasable(v)
    BY <1>1 DEF Releasable
  <2> QED
    BY <1>2, <2>1, <2>2, <2>3
<1>8. UNCHANGED <<route, wallet, overlap, syncs, syncError>>
  BY <1>1 DEF MineTx, connVars, syncVars
<1>9. ReadIsCovered'
  <2>1. wallet # NoWallet => wallet \in Wallets /\ claimed[wallet] \in Nat /\ read.claimed \in Nat
    BY DEF WalletInv, PageTypeOK, VestingInv, VestingPageTypeOK
  <2>2. wallet # NoWallet =>
          /\ read.claimed <= claimed[wallet]
          /\ read.claimed = claimed[wallet] => read.releasable <= Releasable(wallet)
    BY DEF VestingInv, CaptureIsCovered, ReadIsCovered
  <2>3. CASE wallet # w \/ paid = 0
    BY <1>1, <1>7, <1>8, <2>1, <2>2, <2>3 DEF ReadIsCovered
  <2>4. CASE wallet = w /\ paid > 0
    BY <1>1, <1>4, <1>7, <1>8, <2>1, <2>2, <2>4 DEF ReadIsCovered
  <2> QED
    BY <1>4, <2>3, <2>4
<1>10. FlowsAreCovered'
  <2>1. \A f \in flows : f.from \in Wallets /\ (f.kept => f.arg <= Releasable(f.from))
    BY DEF WalletInv, PageTypeOK, VestingInv, CaptureIsCovered, FlowsAreCovered
  <2>2. flows' = {[f EXCEPT !.kept = @ /\ f.from # w] : f \in flows}
    BY <1>1 DEF MineTx, w
  <2>3. \A f \in flows : f \in [from : Wallets, kind : Kinds, arg : Args, kept : BOOLEAN]
    BY DEF WalletInv, PageTypeOK
  <2>4. \A f \in flows' : f.kept => \E g \in flows : g.kept /\ g.from # w /\ f.from = g.from /\ f.arg = g.arg
    BY <2>2, <2>3
  <2> QED
    BY <1>7, <2>1, <2>4 DEF FlowsAreCovered
<1>11. TxsAreCovered'
  <2>1. /\ Carried /\ Len(txs') = Len(txs) /\ i \in 1..Len(txs)
        /\ txs'[i].state = (IF paid > 0 THEN "mined" ELSE "reverted") /\ txs'[i].paid = paid
        /\ \A j \in 1..Len(txs) : j # i =>
             /\ txs'[j].state = txs[j].state /\ txs'[j].paid = txs[j].paid
             /\ txs'[j].kept /\ txs[j].state = "pending" => txs[j].from # txs[i].from
    BY <1>1, <1>4, MinedCarries
  <2>2. DOMAIN txs = 1..Len(txs) /\ DOMAIN txs' = 1..Len(txs)
    BY <1>5, <2>1, TxsKnown, LenProperties DEF WalletInv, Carried
  <2>3. \A j \in 1..Len(txs) : txs[j].kept =>
           /\ txs[j].state = "pending" => txs[j].arg <= Releasable(txs[j].from)
           /\ txs[j].state = "mined" => txs[j].arg <= txs[j].paid
    BY <2>2 DEF VestingInv, CaptureIsCovered, TxsAreCovered
  <2>4. \A j \in 1..Len(txs) : /\ txs'[j].from = txs[j].from /\ txs'[j].arg = txs[j].arg
                               /\ txs'[j].kept => txs[j].kept
    BY <2>1 DEF Carried
  <2>5. txs[i].state = "pending"
    BY <1>1 DEF MineTx
  <2>6. ASSUME NEW j \in 1..Len(txs), txs'[j].kept
        PROVE  /\ txs'[j].state = "pending" => txs'[j].arg <= PayableNow(txs'[j].from)
               /\ txs'[j].state = "mined" => txs'[j].arg <= txs'[j].paid
    <3>1. CASE j = i
      BY <1>4, <2>1, <2>3, <2>4, <2>5, <2>6, <3>1 DEF w
    <3>2. CASE j # i
      <4>1. txs[j].state = "pending" => txs[j].from # w /\ txs[j].from \in Wallets
        BY <1>2, <2>1, <2>2, <2>6, <3>2 DEF w
      <4>2. txs[j].state = "pending" => PayableNow(txs[j].from) = Releasable(txs[j].from)
        BY <1>7, <4>1 DEF PayableNow, Releasable
      <4> QED
        BY <2>1, <2>3, <2>4, <2>6, <3>2, <4>2
    <3> QED
      BY <3>1, <3>2
  <2> QED
    BY <2>2, <2>6 DEF TxsAreCovered, PayableNow, Releasable
<1> QED
  BY <1>1, <1>5, <1>6, <1>8, <1>9, <1>10, <1>11 DEF VestingInv, CaptureIsCovered


(* The states of the transactions stand, and no click is added.            *)
StatesStand == \A i \in DOMAIN txs' : i \in DOMAIN txs /\ txs'[i].state = txs[i].state
FlowsStand == \A f \in flows' : f.kept => \E g \in flows : g.kept /\ f.from = g.from /\ f.arg = g.arg

LEMMA VestingPageKeeps ==
    ASSUME VestingInv, WalletInv, route = "vesting", VestingPageNext
    PROVE  WalletInv' /\ VestingInv'
<1>0. /\ ~ overlap /\ (syncs # {} \/ syncError => claimOnChainSuccess)
      /\ claimOnChainSuccess \in BOOLEAN
      /\ \A i \in DOMAIN txs : i \in 1..Len(txs)
      /\ DOMAIN txs = 1..Len(txs)
  BY TxsKnown DEF VestingInv, CaptureIsCovered, VestingPageTypeOK, WalletInv
<1>1. CASE \E i \in DOMAIN txs : MineRelease(i)
  BY <1>1, ReleaseKeeps
<1>2. CASE ClaimConfirmed
  <2>1. /\ LearnReceipt(TRUE)
        /\ UNCHANGED <<total, claimed, stage, vestingPaused, grants, route, wallet, flows, overlap>>
    BY <1>2 DEF ClaimConfirmed, LearnReceipt, connVars
  <2>2. /\ read' \in {read, NowRead} /\ claimOnChainSuccess' \in BOOLEAN /\ success' \in BOOLEAN
        /\ claimOnChainSuccess => claimOnChainSuccess'
    BY <1>0, <1>2 DEF ClaimConfirmed, WalletInv, PageTypeOK
  <2>3. syncs' # {} \/ syncError' => claimOnChainSuccess'
    <3>1. CASE told' = "mined" /\ step = "waiting"
      BY <1>2, <3>1 DEF ClaimConfirmed
    <3>2. CASE ~ (told' = "mined" /\ step = "waiting")
      BY <1>0, <2>1, <2>2, <3>2 DEF LearnReceipt
    <3> QED
      BY <3>1, <3>2
  <2>4. WalletInv'
    BY <2>1, <2>2, LearnKeeps
  <2>5. Carried /\ StatesStand
    <3>1. CASE txs' = txs
      BY <3>1, CarriedAlong DEF WalletInv, StatesStand
    <3>2. CASE Asked
      <4>1. tx # 0
        BY <2>1 DEF LearnReceipt
      <4> QED
        BY <1>0, <3>2, <4>1, AskedCarries DEF StatesStand
    <3> QED
      BY <2>1, <3>1, <3>2 DEF LearnReceipt
  <2>6. FlowsStand
    BY <2>1 DEF FlowsStand
  <2> QED
    BY <1>0, <2>1, <2>2, <2>3, <2>4, <2>5, <2>6, CoverKept DEF StatesStand, FlowsStand
<1>3. CASE ClaimReportAnswered
  <2>1. PICK s \in syncs, ok \in BOOLEAN : SyncAnswer(s, ok, TRUE)
    BY <1>3 DEF ClaimReportAnswered
  <2>2. UNCHANGED <<total, claimed, stage, vestingPaused, grants, claimOnChainSuccess,
                    route, wallet, flows, txs, overlap>>
    BY <1>3, <2>1 DEF ClaimReportAnswered, SyncAnswer, connVars
  <2>3. read' \in {read, NowRead}
    BY <1>3 DEF ClaimReportAnswered
  <2>4. claimOnChainSuccess
    BY <1>0
  <2>5. WalletInv'
    BY <2>1, AnswerKeeps
  <2>6. Carried /\ StatesStand /\ FlowsStand
    BY <2>2, CarriedAlong DEF WalletInv, StatesStand, FlowsStand
  <2> QED
    BY <1>0, <2>2, <2>3, <2>4, <2>5, <2>6, CoverKept DEF StatesStand, FlowsStand
<1>4. CASE NextStage \/ \E w \in Wallets, a \in Grants : Allocate(w, a)
  <2>1. UNCHANGED <<pageVars, claimed, read, vestingPaused, claimOnChainSuccess>>
    BY <1>4 DEF NextStage, Allocate
  <2>2. \A w \in Wallets : total[w] \in Nat
    BY DEF VestingInv, VestingPageTypeOK
  <2>3. total' \in [Wallets -> Nat] /\ \A w \in Wallets : total[w] <= total'[w]
    <3>1. CASE total' = total
      BY <2>2, <3>1 DEF VestingInv, VestingPageTypeOK
    <3>2. CASE \E w \in Wallets, a \in Grants : total' = [total EXCEPT ![w] = @ + a]
      <4>1. PICK w \in Wallets, a \in Grants : total' = [total EXCEPT ![w] = @ + a]
        BY <3>2
      <4>2. a \in Nat
        BY StagesAssumption
      <4>3. \A v \in Wallets : total'[v] \in Nat /\ total[v] <= total'[v]
        BY <2>2, <4>1, <4>2 DEF VestingInv, VestingPageTypeOK
      <4> QED
        BY <4>1, <4>3 DEF VestingInv, VestingPageTypeOK
    <3> QED
      BY <1>4, <3>1, <3>2 DEF NextStage, Allocate
  <2>4. stage' \in 0..Stages /\ stage <= stage' /\ grants' \in 0..MaxGrants
    BY <1>4, ShareKnown DEF NextStage, Allocate, VestingInv, VestingPageTypeOK
  <2>5. VestingPageTypeOK'
    BY <2>1, <2>3, <2>4 DEF VestingInv, VestingPageTypeOK
  <2>6. WalletInv'
    BY <2>1, WalletStands
  <2> QED
    BY <2>1, <2>3, <2>4, <2>5, <2>6, CoverGrows
<1>5. CASE ReadVesting
  <2>1. /\ read' = NowRead
        /\ UNCHANGED <<pageVars, total, claimed, stage, vestingPaused, claimOnChainSuccess, grants>>
    BY <1>5 DEF ReadVesting
  <2>2. UNCHANGED <<route, wallet, flows, txs, overlap, syncs, syncError>>
    BY <2>1 DEF pageVars, connVars, sendVars, syncVars
  <2>3. WalletInv'
    BY <2>1, WalletStands
  <2>4. Carried /\ StatesStand /\ FlowsStand
    BY <2>2, CarriedAlong DEF WalletInv, StatesStand, FlowsStand
  <2> QED
    BY <1>0, <2>1, <2>2, <2>3, <2>4, CoverKept DEF StatesStand, FlowsStand
<1>6. CASE VestingWalletChanged
  <2>1. PICK w \in Wallets \cup {NoWallet} : Connect(w) \/ SwitchWallet(w)
    BY <1>6 DEF VestingWalletChanged
  <2>2. /\ read' = Unread /\ UNCHANGED <<total, claimed, stage, vestingPaused, claimOnChainSuccess, grants>>
        /\ wallet' = w /\ UNCHANGED <<route, overlap, syncs, syncError>>
    BY <1>6, <2>1 DEF VestingWalletChanged, Connect, SwitchWallet, sendVars, syncVars
  <2>3. WalletInv'
    BY <2>1, ConnectKeeps, SwitchWalletKeeps
  <2>4. Carried /\ StatesStand /\ FlowsStand
    <3>1. CASE Connect(w)
      BY <3>1, CarriedAlong DEF Connect, sendVars, WalletInv, StatesStand, FlowsStand
    <3>2. CASE SwitchWallet(w)
      <4>1. Disturb /\ route' = route
        BY <3>2 DEF SwitchWallet
      <4>2. /\ Carried /\ Len(txs') = Len(txs)
            /\ \A i \in 1..Len(txs) : ~ txs'[i].kept /\ txs'[i].state = txs[i].state
        BY <4>1, DisturbedCarries DEF Disturb, WalletInv
      <4>3. DOMAIN txs' = 1..Len(txs)
        BY <4>2, LenProperties DEF Carried
      <4>4. \A f \in flows' : ~ f.kept
        BY <4>1, DisturbedFlows DEF Disturb
      <4> QED
        BY <1>0, <4>2, <4>3, <4>4 DEF StatesStand, FlowsStand
    <3> QED
      BY <2>1, <3>1, <3>2
  <2> QED
    BY <1>0, <2>2, <2>3, <2>4, CoverKept DEF StatesStand, FlowsStand
<1>7. CASE ClaimTokens
  <2> DEFINE fresh == read.claimed = claimed[wallet]
             new == [from |-> wallet, kind |-> "claim", arg |-> read.releasable, kept |-> fresh]
  <2>1. /\ canClaim /\ Click("claim", read.releasable, "claiming", fresh) /\ success' = FALSE
        /\ UNCHANGED <<total, claimed, stage, vestingPaused, read, grants>>
        /\ claimOnChainSuccess' = FALSE
    BY <1>7 DEF ClaimTokens, Captured
  <2>2. /\ syncs = {} /\ overlap' = FALSE /\ syncs' = {} /\ syncError' = FALSE
        /\ UNCHANGED <<route, wallet, txs>> /\ flows' = flows \cup {new} /\ wallet # NoWallet
    BY <1>0, <2>1 DEF canClaim, Click, MayClick, connVars
  <2>3. "claim" \in Kinds /\ read.releasable \in Args /\ fresh \in BOOLEAN
    BY DEF Kinds, Args, VestingInv, VestingPageTypeOK
  <2>4. WalletInv'
    BY <2>1, <2>3, ClickKeeps
  <2>5. new.kept => new.arg <= Releasable(new.from)
    BY <2>2 DEF VestingInv, CaptureIsCovered, ReadIsCovered
  <2>6. Carried /\ StatesStand
    BY <2>2, CarriedAlong DEF WalletInv, StatesStand
  <2>7. \A f \in flows' : f.kept =>
          \/ \E g \in flows : g.kept /\ f.from = g.from /\ f.arg = g.arg
          \/ f.arg <= Releasable(f.from)
    BY <2>2, <2>5
  <2> QED
    BY <1>0, <2>1, <2>2, <2>4, <2>6, <2>7, CoverKept DEF StatesStand
<1>8. CASE ReloadVesting
  <2>1. /\ Reload /\ read' = Unread /\ claimOnChainSuccess' = FALSE
        /\ UNCHANGED <<total, claimed, stage, vestingPaused, grants>>
    BY <1>8 DEF ReloadVesting
  <2>2. /\ UNCHANGED <<route, wallet, overlap>> /\ syncs' = {} /\ syncError' = FALSE /\ flows' = {}
        /\ txs' = Disturbed /\ wallet \in Wallets \cup {NoWallet}
    BY <2>1 DEF Reload, WalletInv, PageTypeOK
  <2>3. WalletInv'
    BY <2>1, ReloadKeeps
  <2>4. /\ Carried /\ Len(txs') = Len(txs)
        /\ \A i \in 1..Len(txs) : ~ txs'[i].kept /\ txs'[i].state = txs[i].state
    BY <2>2, DisturbedCarries DEF WalletInv
  <2>5. DOMAIN txs' = 1..Len(txs)
    BY <2>4, LenProperties DEF Carried
  <2>6. StatesStand
    BY <1>0, <2>4, <2>5 DEF StatesStand
  <2> QED
    BY <1>0, <2>1, <2>2, <2>3, <2>4, <2>6, CoverKept DEF StatesStand
<1>9. CASE \E f \in flows : (Reject(f) \/ Sign(f, "waiting", {})) /\ UNCHANGED vpVars
  <2>1. PICK f \in flows : (Reject(f) \/ Sign(f, "waiting", {})) /\ UNCHANGED vpVars
    BY <1>9
  <2>2. /\ UNCHANGED <<route, wallet, overlap, syncs, syncError>> /\ flows' = flows \ {f}
        /\ UNCHANGED <<total, claimed, stage, vestingPaused, read, claimOnChainSuccess, grants>>
    BY <2>1 DEF Reject, Sign, connVars, syncVars, vpVars
  <2>3. WalletInv'
    BY <2>1, RejectKeeps, AirdropSentIsClaim
  <2>4. FlowsStand
    BY <2>2 DEF FlowsStand
  <2>5. CASE Reject(f)
    <3>1. Carried /\ StatesStand
      BY <2>5, CarriedAlong DEF Reject, WalletInv, StatesStand
    <3> QED
      BY <1>0, <2>2, <2>3, <2>4, <3>1, CoverKept DEF StatesStand, FlowsStand
  <2>6. CASE Sign(f, "waiting", {})
    <3>1. txs' = Append(txs, Tx(f))
      BY <2>6 DEF Sign
    <3>2. /\ Carried /\ Len(txs') = Len(txs) + 1
          /\ \A i \in 1..Len(txs) : txs'[i] = txs[i]
          /\ txs'[Len(txs) + 1] = Tx(f)
      BY <3>1, SentCarries
    <3>3. DOMAIN txs' = 1..(Len(txs) + 1) /\ Len(txs) \in Nat
      BY <3>2, LenProperties, TxsKnown DEF Carried, WalletInv
    <3>4. Tx(f).state = "pending" /\ Tx(f).from = f.from /\ Tx(f).arg = f.arg /\ (Tx(f).kept => f.kept)
      BY DEF Tx
    <3>5. \A i \in DOMAIN txs' :
            \/ i \in DOMAIN txs /\ txs'[i].state = txs[i].state
            \/ /\ txs'[i].state = "pending"
               /\ txs'[i].from = f.from /\ txs'[i].arg = f.arg
               /\ txs'[i].kept => f.kept
      BY <1>0, <3>2, <3>3, <3>4
    <3> QED
      BY <1>0, <2>2, <2>3, <2>4, <3>2, <3>5, CoverKept DEF FlowsStand
  <2> QED
    BY <2>1, <2>5, <2>6
<1>10. CASE (RetrySync \/ SwitchNetwork) /\ UNCHANGED vpVars
  <2>1. /\ UNCHANGED <<route, wallet, overlap, flows>>
        /\ UNCHANGED <<total, claimed, stage, vestingPaused, read, claimOnChainSuccess, grants>>
    BY <1>10 DEF RetrySync, SwitchNetwork, connVars, sendVars, vpVars
  <2>2. WalletInv'
    BY <1>10, RetryKeeps, SwitchNetworkKeeps
  <2>3. Carried /\ StatesStand
    <3>1. CASE SwitchNetwork
      BY <3>1, CarriedAlong DEF SwitchNetwork, sendVars, WalletInv, StatesStand
    <3>2. CASE RetrySync
      <4>1. tx # 0 /\ Asked
        BY <3>2 DEF RetrySync
      <4> QED
        BY <1>0, <4>1, AskedCarries DEF StatesStand
    <3> QED
      BY <1>10, <3>1, <3>2
  <2>4. syncs' # {} \/ syncError' => claimOnChainSuccess'
    BY <1>0, <1>10, <2>1 DEF RetrySync, SwitchNetwork, syncVars
  <2>5. FlowsStand
    BY <2>1 DEF FlowsStand
  <2> QED
    BY <1>0, <2>1, <2>2, <2>3, <2>4, <2>5, CoverKept DEF StatesStand, FlowsStand
<1> QED
  BY <1>1, <1>2, <1>3, <1>4, <1>5, <1>6, <1>7, <1>8, <1>9, <1>10 DEF VestingPageNext, VestingPageStep

-----------------------------------------------------------------------------
(* The buy page. *)

Showing == [paused : BOOLEAN, finalized : BOOLEAN, sold : 0..SaleCap, bought : 0..WalletCap, allowed : BOOLEAN]

LEMMA BuyKnown ==
    ASSUME BuyPageTypeOK, WalletInv
    PROVE  /\ CalculatorError \in Errors /\ NowShown \in Showing /\ Blank \in Showing
           /\ [shown EXCEPT !.allowed = FALSE] \in Showing
           /\ [shown EXCEPT !.bought = 0, !.allowed = FALSE] \in Showing
<1>1. SaleCap \in Nat /\ WalletCap \in Nat
  BY BuyAssumption
<1>2. Blank \in Showing
  BY <1>1 DEF Blank, Showing
<1>3. CalculatorError \in Errors
  BY DEF CalculatorError, Errors
<1>4. shown \in Showing
  BY DEF BuyPageTypeOK, Showing
<1>5. [shown EXCEPT !.allowed = FALSE] \in Showing /\ [shown EXCEPT !.bought = 0, !.allowed = FALSE] \in Showing
  <2>1. FALSE \in BOOLEAN /\ 0 \in 0..WalletCap
    BY <1>1
  <2> DEFINE unbought == [shown EXCEPT !.bought = 0]
  <2>2. [shown EXCEPT !.allowed = FALSE] \in Showing /\ unbought \in Showing
    BY <1>4, <2>1, ZenonT(30) DEF Showing
  <2>3. [shown EXCEPT !.bought = 0, !.allowed = FALSE] = [unbought EXCEPT !.allowed = FALSE]
    BY <1>4 DEF Showing
  <2> HIDE DEF unbought
  <2>4. [unbought EXCEPT !.allowed = FALSE] \in Showing
    BY <2>1, <2>2, ZenonT(30) DEF Showing
  <2> QED
    BY <2>2, <2>3, <2>4
<1>6. sale.paused \in BOOLEAN /\ sale.finalized \in BOOLEAN /\ sale.sold \in 0..SaleCap
  BY DEF BuyPageTypeOK
<1>7. NowShown \in Showing
  <2>1. CASE wallet = NoWallet
    BY <1>2, <1>6, <2>1 DEF NowShown, Showing
  <2>2. CASE wallet # NoWallet
    <3>1. bought[wallet] \in 0..WalletCap
      BY <2>2 DEF BuyPageTypeOK, WalletInv, PageTypeOK
    <3> QED
      BY <1>6, <2>2, <3>1 DEF NowShown, Showing
  <2> QED
    BY <2>1, <2>2
<1> QED
  BY <1>2, <1>3, <1>5, <1>7

(* A block takes an approval or a purchase. *)
LEMMA PurchaseKeeps ==
    ASSUME BuyPageTypeOK, route = "buy", WalletInv, NEW i \in DOMAIN txs, MinePurchase(i)
    PROVE  WalletInv' /\ BuyPageTypeOK'
<1> DEFINE t == txs[i]
           ok == SaleTakes(t.from, t.arg.amount) /\ (t.arg.currency = usd => t.from \in allowance)
<1>1. t.from \in Wallets /\ t.arg.amount \in Nat
  <2>1. txs[i] \in Sent /\ Args = Orders
    BY TxsKnown DEF WalletInv, Args
  <2> QED
    BY <2>1, BuyAssumption DEF Sent, Orders
<1>2. CASE t.kind = "approve"
  <2>1. /\ MineTx(i, TRUE, 0) /\ allowance' = allowance \cup {t.from}
        /\ UNCHANGED <<sale, bought, shown, amount, currency, calcError, saleSteps>>
    BY <1>2 DEF MinePurchase
  <2>2. WalletInv'
    BY <2>1, MineKeeps
  <2> QED
    BY <1>1, <2>1, <2>2 DEF BuyPageTypeOK
<1>3. CASE t.kind # "approve"
  <2>1. /\ MineTx(i, ok, 0)
        /\ sale' = IF ok THEN [sale EXCEPT !.sold = @ + t.arg.amount] ELSE sale
        /\ bought' = IF ok THEN [bought EXCEPT ![t.from] = @ + t.arg.amount] ELSE bought
        /\ UNCHANGED <<allowance, shown, amount, currency, calcError, saleSteps>>
    BY <1>3 DEF MinePurchase
  <2>2. ok \in BOOLEAN /\ (ok => bought[t.from] + t.arg.amount <= WalletCap /\ sale.sold + t.arg.amount <= SaleCap)
    BY DEF SaleTakes
  <2> HIDE DEF ok
  <2>3. WalletInv'
    BY <2>1, <2>2, MineKeeps
  <2>4. SaleCap \in Nat /\ WalletCap \in Nat
    BY BuyAssumption
  <2>5. sale' \in [paused : BOOLEAN, finalized : BOOLEAN, phase : 1..3, sold : 0..SaleCap]
    BY <1>1, <2>1, <2>2, <2>4 DEF BuyPageTypeOK
  <2>6. \A w \in Wallets : bought'[w] \in 0..WalletCap
    BY <1>1, <2>1, <2>2, <2>4 DEF BuyPageTypeOK
  <2>7. bought' \in [Wallets -> 0..WalletCap]
    BY <2>1, <2>6 DEF BuyPageTypeOK
  <2> QED
    BY <2>1, <2>3, <2>5, <2>7 DEF BuyPageTypeOK
<1> QED
  BY <1>2, <1>3

LEMMA SaleMovesKeep ==
    ASSUME BuyPageTypeOK, SaleMoves
    PROVE  BuyPageTypeOK' /\ UNCHANGED pageVars
<1>1. PICK s : SaleBecomes(s) /\
        \/ sale.phase < 3 /\ s = [sale EXCEPT !.phase = @ + 1]
        \/ s = [sale EXCEPT !.paused = ~@]
        \/ s = [sale EXCEPT !.finalized = TRUE, !.paused = TRUE]
        \/ \E a \in Amounts : sale.sold + a <= SaleCap /\ s = [sale EXCEPT !.sold = @ + a]
  BY DEF SaleMoves
<1>2. SaleCap \in Nat /\ MaxSteps \in Nat /\ \A a \in Amounts : a \in Nat
  BY BuyAssumption
<1>3. s \in [paused : BOOLEAN, finalized : BOOLEAN, phase : 1..3, sold : 0..SaleCap]
  <2> DEFINE Selling == [paused : BOOLEAN, finalized : BOOLEAN, phase : 1..3, sold : 0..SaleCap]
  <2>1. sale \in Selling /\ sale.phase \in 1..3 /\ sale.sold \in 0..SaleCap
    BY DEF BuyPageTypeOK
  <2>2. CASE sale.phase < 3 /\ s = [sale EXCEPT !.phase = @ + 1]
    BY <2>1, <2>2
  <2>3. CASE s = [sale EXCEPT !.paused = ~@]
    <3>1. (~ sale.paused) \in BOOLEAN
      OBVIOUS
    <3> QED
      BY <2>1, <2>3, <3>1, ZenonT(30)
  <2>4. CASE s = [sale EXCEPT !.finalized = TRUE, !.paused = TRUE]
    BY <2>1, <2>4
  <2>5. CASE \E a \in Amounts : sale.sold + a <= SaleCap /\ s = [sale EXCEPT !.sold = @ + a]
    BY <1>2, <2>1, <2>5
  <2> QED
    BY <1>1, <2>2, <2>3, <2>4, <2>5
<1>4. saleSteps' \in 0..MaxSteps
  BY <1>1, <1>2 DEF SaleBecomes, BuyPageTypeOK
<1> QED
  BY <1>1, <1>3, <1>4 DEF SaleBecomes, BuyPageTypeOK

LEMMA BuyPageKeeps ==
    ASSUME BuyPageTypeOK, WalletInv, route = "buy", BuyPageNext
    PROVE  WalletInv' /\ BuyPageTypeOK'
<1>0. /\ CalculatorError \in Errors /\ NowShown \in Showing /\ Blank \in Showing
      /\ [shown EXCEPT !.allowed = FALSE] \in Showing
      /\ [shown EXCEPT !.bought = 0, !.allowed = FALSE] \in Showing
      /\ shown \in Showing
  BY BuyKnown DEF BuyPageTypeOK, Showing
<1>a. UNCHANGED bpVars => BuyPageTypeOK'
  BY DEF bpVars, BuyPageTypeOK
<1>b. Args = Orders
  BY DEF Args
<1>1. CASE \E i \in DOMAIN txs : MinePurchase(i)
  BY <1>1, PurchaseKeeps
<1>2. CASE LearnReceipt(TRUE) /\ UNCHANGED <<success, bpVars>>
  <2>1. success' \in BOOLEAN
    BY <1>2 DEF WalletInv, PageTypeOK
  <2> QED
    BY <1>a, <1>2, <2>1, LearnKeeps
<1>3. CASE PurchaseReportAnswered
  <2>1. PICK s \in syncs, ok \in BOOLEAN : SyncAnswer(s, ok, FALSE) /\ UNCHANGED bpVars
    BY <1>3 DEF PurchaseReportAnswered
  <2> QED
    BY <1>a, <2>1, AnswerKeeps
<1>4. CASE SaleMoves
  BY <1>4, SaleMovesKeep, WalletStands
<1>5. CASE ReadSale \/ \E a \in Amounts \cup {0} : EnterAmount(a)
  <2>1. /\ UNCHANGED <<pageVars, sale, bought, allowance, currency, saleSteps>>
        /\ shown' \in Showing /\ calcError' \in Errors /\ amount' \in Amounts \cup {0}
    BY <1>0, <1>5 DEF ReadSale, EnterAmount, BuyPageTypeOK
  <2>2. WalletInv'
    BY <2>1, WalletStands
  <2> QED
    BY <2>1, <2>2 DEF BuyPageTypeOK, Showing
<1>6. CASE \E c \in {eth, usd} : SelectCurrency(c)
  <2>1. /\ UNCHANGED <<pageVars, sale, bought, allowance, saleSteps>>
        /\ shown' \in Showing /\ calcError' \in Errors /\ amount' = 0 /\ currency' \in {eth, usd}
    BY <1>0, <1>6 DEF SelectCurrency
  <2>2. WalletInv'
    BY <2>1, WalletStands
  <2> QED
    BY <2>1, <2>2 DEF BuyPageTypeOK, Showing
<1>7. CASE BuyWalletChanged
  <2>1. PICK w \in Buyers \cup {NoWallet} : Connect(w) \/ SwitchWallet(w)
    BY <1>7 DEF BuyWalletChanged
  <2>2. w \in Wallets \cup {NoWallet}
    BY BuyAssumption
  <2>3. WalletInv'
    BY <2>1, <2>2, ConnectKeeps, SwitchWalletKeeps
  <2>4. /\ UNCHANGED <<sale, bought, allowance, amount, currency, saleSteps>>
        /\ shown' \in Showing /\ calcError' \in Errors
    BY <1>0, <1>7 DEF BuyWalletChanged
  <2> QED
    BY <2>3, <2>4 DEF BuyPageTypeOK, Showing
<1>8. CASE Buy
  <2> DEFINE order == [currency |-> currency, amount |-> amount]
  <2>1. /\ success' \in BOOLEAN /\ UNCHANGED bpVars /\ amount # 0
        /\ Click("approve", order, "approving", TRUE) \/ Click("buy", order, "purchasing", TRUE)
    BY <1>8 DEF Buy
  <2>2. order \in Args
    BY <1>b, <2>1 DEF Orders, BuyPageTypeOK
  <2>3. "approve" \in Kinds /\ "buy" \in Kinds
    BY DEF Kinds
  <2> HIDE DEF order
  <2>4. WalletInv'
    BY <2>1, <2>2, <2>3, ClickKeeps
  <2> QED
    BY <1>a, <2>1, <2>4
<1>9. CASE BuyOnWrongNetwork
  BY <1>a, <1>9, WrongNetworkKeeps DEF BuyOnWrongNetwork, bpVars
<1>10. CASE ReloadBuy
  <2>1. /\ Reload /\ UNCHANGED <<sale, bought, allowance, saleSteps>>
        /\ shown' \in Showing /\ calcError' \in Errors /\ amount' = 0 /\ currency' \in {eth, usd}
    BY <1>0, <1>10 DEF ReloadBuy, Errors
  <2>2. WalletInv'
    BY <2>1, ReloadKeeps
  <2> QED
    BY <2>1, <2>2 DEF BuyPageTypeOK, Showing
<1>11. CASE \E f \in flows : SignApproval(f) \/ Resume(f) \/ SignPurchase(f)
  <2>1. PICK f \in flows : SignApproval(f) \/ Resume(f) \/ SignPurchase(f)
    BY <1>11
  <2>2. CASE SignApproval(f)
    <3> DEFINE g == [f EXCEPT !.kind = "paused"]
    <3>1. Sign(f, "approved", {g}) /\ UNCHANGED bpVars
      BY <2>2 DEF SignApproval
    <3>2. f \in Asking
      BY DEF WalletInv, PageTypeOK, Asking
    <3>3. g \in Asking /\ g.kept = f.kept /\ g.from = f.from
      BY <3>2 DEF Asking, Kinds
    <3>4. {g} \in SUBSET Asking /\ \E h \in Asking : {g} = {h} /\ h.kept = f.kept /\ h.from = f.from
      BY <3>3
    <3> HIDE DEF g
    <3>5. WalletInv'
      BY <3>1, <3>4, SignKeeps
    <3> QED
      BY <1>a, <3>1, <3>5
  <2>3. CASE Resume(f)
    BY <1>a, <2>3, ResumeKeeps DEF Resume, bpVars
  <2>4. CASE SignPurchase(f)
    <3>1. Sign(f, "waiting", {}) /\ f.kind # "approve" /\ UNCHANGED bpVars /\ {} \in SUBSET Asking
      BY <2>4 DEF SignPurchase
    <3>2. WalletInv'
      BY <3>1, SignKeeps
    <3> QED
      BY <1>a, <3>1, <3>2
  <2> QED
    BY <2>1, <2>2, <2>3, <2>4
<1>12. CASE \E f \in flows : f.kind # "paused" /\ Reject(f) /\ UNCHANGED bpVars
  BY <1>a, <1>12, RejectKeeps
<1>13. CASE (RetrySync \/ SwitchNetwork) /\ UNCHANGED bpVars
  BY <1>a, <1>13, RetryKeeps, SwitchNetworkKeeps
<1> QED
  BY <1>1, <1>2, <1>3, <1>4, <1>5, <1>6, <1>7, <1>8, <1>9, <1>10, <1>11, <1>12, <1>13
    DEF BuyPageNext, BuyPageStep

-----------------------------------------------------------------------------
(* The three pages together. *)

PagesInv == WalletInv /\ AirdropInv /\ VestingInv /\ BuyPageTypeOK

(* No step changes the page shown. *)
LEMMA RouteStands ==
    ASSUME PagesNext
    PROVE  route' = route
<1>1. CASE AirdropPageNext
  <2>1. CASE \E i \in DOMAIN txs : MineClaim(i)
    BY <2>1 DEF MineClaim, MineTx
  <2>2. CASE AirdropMoves \/ ReadAirdrop \/ Tick
             \/ \E w \in Wallets : CheckAnswered(w) \/ CheckFails(w)
    <3>1. UNCHANGED pageVars
      BY <2>2 DEF AirdropMoves, Govern, ReadAirdrop, Tick, CheckAnswered, CheckFails, Answered
    <3> QED
      BY <3>1 DEF pageVars
  <2>3. CASE LearnReceipt(eligibility # NoEligibility) \/ ReportAnswered \/ WalletChanged \/ TryAgain
    BY <2>3 DEF LearnReceipt, ReportAnswered, SyncAnswer, WalletChanged, Connect, SwitchWallet, TryAgain
  <2>4. CASE ClaimAirdrop \/ ReloadAirdrop \/ SwitchNetwork \/ \E f \in flows : Reject(f) \/ Sign(f, "waiting", {})
    BY <2>4 DEF ClaimAirdrop, Click, ReloadAirdrop, Reload, SwitchNetwork, Reject, Sign
  <2> QED
    BY <1>1, <2>1, <2>2, <2>3, <2>4 DEF AirdropPageNext, AirdropPageStep
<1>2. CASE VestingPageNext
  <2>1. CASE \E i \in DOMAIN txs : MineRelease(i)
    BY <2>1 DEF MineRelease, MineTx
  <2>2. CASE NextStage \/ ReadVesting \/ \E w \in Wallets, a \in Grants : Allocate(w, a)
    <3>1. UNCHANGED pageVars
      BY <2>2 DEF NextStage, ReadVesting, Allocate
    <3> QED
      BY <3>1 DEF pageVars
  <2>3. CASE ClaimConfirmed \/ ClaimReportAnswered \/ VestingWalletChanged \/ ClaimTokens
    BY <2>3 DEF ClaimConfirmed, LearnReceipt, ClaimReportAnswered, SyncAnswer, VestingWalletChanged,
                Connect, SwitchWallet, ClaimTokens, Click
  <2>4. CASE ReloadVesting \/ RetrySync \/ SwitchNetwork \/ \E f \in flows : Reject(f) \/ Sign(f, "waiting", {})
    BY <2>4 DEF ReloadVesting, Reload, RetrySync, SwitchNetwork, Reject, Sign
  <2> QED
    BY <1>2, <2>1, <2>2, <2>3, <2>4 DEF VestingPageNext, VestingPageStep
<1>3. CASE BuyPageNext
  <2>1. CASE \E i \in DOMAIN txs : MinePurchase(i)
    BY <2>1 DEF MinePurchase, MineTx
  <2>2. CASE SaleMoves \/ ReadSale \/ (\E a \in Amounts \cup {0} : EnterAmount(a))
             \/ (\E c \in {eth, usd} : SelectCurrency(c))
    <3>1. UNCHANGED pageVars
      BY <2>2 DEF SaleMoves, SaleBecomes, ReadSale, EnterAmount, SelectCurrency
    <3> QED
      BY <3>1 DEF pageVars
  <2>3. CASE LearnReceipt(TRUE) \/ PurchaseReportAnswered \/ BuyWalletChanged \/ Buy
    BY <2>3 DEF LearnReceipt, PurchaseReportAnswered, SyncAnswer, BuyWalletChanged, Connect, SwitchWallet,
                Buy, Click
  <2>4. CASE ReloadBuy \/ RetrySync \/ SwitchNetwork \/ BuyOnWrongNetwork
    BY <2>4 DEF ReloadBuy, Reload, RetrySync, SwitchNetwork, BuyOnWrongNetwork
  <2>5. CASE \E f \in flows : Reject(f) \/ SignApproval(f) \/ Resume(f) \/ SignPurchase(f)
    BY <2>5 DEF Reject, SignApproval, SignPurchase, Sign, Resume
  <2> QED
    BY <1>3, <2>1, <2>2, <2>3, <2>4, <2>5 DEF BuyPageNext, BuyPageStep
<1> QED
  BY <1>1, <1>2, <1>3 DEF PagesNext

LEMMA PagesStart == PagesInit => PagesInv
<1> SUFFICES ASSUME PagesInit PROVE PagesInv
  OBVIOUS
<1>1. /\ route \in DOMAIN Routes /\ wallet = NoWallet /\ sepolia = TRUE /\ jolts = 0
      /\ step = "idle" /\ flows = {} /\ tx = 0 /\ told = "no" /\ overlap = FALSE
      /\ success = FALSE /\ syncError = FALSE /\ retrying = FALSE /\ syncs = {}
      /\ txs = << >> /\ reports = {}
  BY DEF PagesInit, PageInit
<1>2. IsFiniteSet(flows) /\ Cardinality(flows) = 0
  BY <1>1, FS_EmptySet
<1>3. txs \in Seq(Sent) /\ Len(txs) = 0 /\ DOMAIN txs = {}
  BY <1>1
<1>4. PageTypeOK(Args)
  <2>1. jolts \in 0..MaxJolts /\ step \in Steps /\ tx \in 0..Len(txs) /\ Cardinality(flows) <= 2
    BY <1>1, <1>2, <1>3, WalletAssumption DEF Steps
  <2>2. txs \in Seq([from : Wallets, kind : Kinds, arg : Args, paid : Nat, kept : BOOLEAN,
                      asked : BOOLEAN, state : {"pending", "mined", "reverted"}])
    BY <1>3 DEF Sent
  <2> QED
    BY <1>1, <2>1, <2>2 DEF PageTypeOK
<1>5. WalletInv
  BY <1>1, <1>2, <1>3, <1>4 DEF WalletInv, KeptIsConnected, WaitingIsForPayment, ReportingInOrder
<1>6. AirdropInv
  <2>1. 0 \in 0..(MaxJolts + 1) /\ 0 \in 0..MaxDecrees /\ Unset \in Contract
    BY WalletAssumption, AirdropAssumption DEF Unset, Contract
  <2>2. /\ eligibility = NoEligibility /\ checks = [w \in Wallets |-> 0] /\ checkError = FALSE
        /\ seen = Unset /\ seenTaken = FALSE /\ airdrop = Unset /\ clock = 0 /\ taken = {} /\ decrees = 0
    BY DEF PagesInit, AirdropPageInit, AirdropPageReads
  <2>3. checks \in [Wallets -> 0..(MaxJolts + 1)] /\ \A w \in Wallets : checks[w] = 0
    BY <2>1, <2>2
  <2>4. AirdropPageTypeOK
    <3>1. checkError \in BOOLEAN /\ seenTaken \in BOOLEAN /\ taken \subseteq Listed
      BY <2>2, Zenon
    <3>2. clock \in 0..3 /\ decrees \in 0..MaxDecrees
      BY <2>1, <2>2
    <3>3. eligibility \in {NoEligibility} \cup
            [owner : Wallets, eligible : BOOLEAN, payable : BOOLEAN, claimed : BOOLEAN]
      BY <2>2
    <3> QED
      BY <2>1, <2>2, <2>3, <3>1, <3>2, <3>3 DEF AirdropPageTypeOK
  <2>5. EligibilityIsTrue
    BY <1>1, <2>2, <2>3 DEF EligibilityIsTrue
  <2> QED
    BY <2>4, <2>5 DEF AirdropInv
<1>7. VestingInv
  <2>1. VestingPageTypeOK
    <3>1. /\ total = [w \in Wallets |-> 0] /\ claimed = [w \in Wallets |-> 0] /\ stage = 0
          /\ vestingPaused = FALSE /\ read = Unread /\ claimOnChainSuccess = FALSE /\ grants = 0
      BY DEF PagesInit, VestingPageInit
    <3>2. total \in [Wallets -> Nat] /\ claimed \in [Wallets -> Nat]
      BY <3>1
    <3>3. read \in [total : Nat, claimed : Nat, releasable : Nat, paused : BOOLEAN]
      BY <3>1 DEF Unread
    <3>4. stage \in 0..Stages /\ grants \in 0..MaxGrants
      BY <3>1, ShareKnown
    <3> QED
      BY <3>1, <3>2, <3>3, <3>4 DEF VestingPageTypeOK
  <2>2. CaptureIsCovered
    BY <1>1, <1>3 DEF CaptureIsCovered, ReadIsCovered, FlowsAreCovered, TxsAreCovered
  <2> QED
    BY <2>1, <2>2 DEF VestingInv
<1>8. BuyPageTypeOK
  <2>1. SaleCap \in Nat /\ WalletCap \in Nat /\ MaxSteps \in Nat
    BY BuyAssumption
  <2>2. sale \in [paused : BOOLEAN, finalized : BOOLEAN, phase : 1..3, sold : 0..SaleCap]
    <3>1. sale \in [paused : {FALSE}, finalized : {FALSE}, phase : 1..2, sold : {0}]
      BY DEF PagesInit, BuyPageInit
    <3>2. /\ sale = [paused |-> sale.paused, finalized |-> sale.finalized, phase |-> sale.phase, sold |-> sale.sold]
          /\ sale.paused \in {FALSE} /\ sale.finalized \in {FALSE} /\ sale.phase \in 1..2 /\ sale.sold \in {0}
      BY <3>1
    <3>3. sale.paused \in BOOLEAN /\ sale.finalized \in BOOLEAN
      BY <3>2, Zenon
    <3>4. sale.phase \in 1..3 /\ sale.sold \in 0..SaleCap
      BY <2>1, <3>2
    <3> QED
      BY <3>2, <3>3, <3>4
  <2>3. bought \in [Wallets -> 0..WalletCap]
    BY <2>1 DEF PagesInit, BuyPageInit
  <2> QED
    BY <2>1, <2>2, <2>3 DEF PagesInit, BuyPageInit, BuyPageTypeOK, Blank, Errors
<1> QED
  BY <1>5, <1>6, <1>7, <1>8 DEF PagesInv

LEMMA PagesKeep == PagesInv /\ [PagesNext]_pagesVars => PagesInv'
<1> SUFFICES ASSUME PagesInv, [PagesNext]_pagesVars PROVE PagesInv'
  OBVIOUS
<1>1. WalletInv /\ AirdropInv /\ VestingInv /\ BuyPageTypeOK
  BY DEF PagesInv
<1>2. UNCHANGED apVars /\ (route' = route) /\ (route = "airdrop" => UNCHANGED <<wallet, jolts>>) => AirdropInv'
  BY <1>1 DEF apVars, AirdropInv, AirdropPageTypeOK, EligibilityIsTrue
<1>3. UNCHANGED vpVars /\ route' = route /\ route # "vesting" => VestingInv'
  BY <1>1 DEF vpVars, VestingInv, VestingPageTypeOK, CaptureIsCovered
<1>4. UNCHANGED bpVars => BuyPageTypeOK'
  BY <1>1 DEF bpVars, BuyPageTypeOK
<1>5. CASE PagesNext
  <2>1. route' = route
    BY <1>5, RouteStands
  <2>2. CASE route = "airdrop" /\ AirdropPageNext /\ UNCHANGED <<vpVars, bpVars>>
    BY <1>1, <1>3, <1>4, <2>1, <2>2, AirdropPageKeeps DEF PagesInv
  <2>3. CASE route = "vesting" /\ VestingPageNext /\ UNCHANGED <<apVars, bpVars>>
    BY <1>1, <1>2, <1>4, <2>1, <2>3, VestingPageKeeps DEF PagesInv
  <2>4. CASE route = "buy" /\ BuyPageNext /\ UNCHANGED <<apVars, vpVars>>
    BY <1>1, <1>2, <1>3, <2>1, <2>4, BuyPageKeeps DEF PagesInv
  <2> QED
    BY <1>5, <2>2, <2>3, <2>4 DEF PagesNext
<1>6. CASE UNCHANGED pagesVars
  <2>1. UNCHANGED <<pageVars, apVars, vpVars, bpVars>>
    BY <1>6 DEF pagesVars
  <2>2. WalletInv'
    BY <1>1, <2>1, WalletStands
  <2>3. UNCHANGED <<route, wallet, jolts, overlap, syncs, syncError, flows, txs>>
    BY <2>1 DEF pageVars, connVars, sendVars, syncVars
  <2>4. VestingInv'
    <3>1. UNCHANGED <<total, claimed, stage, vestingPaused, read, claimOnChainSuccess, grants>>
      BY <2>1 DEF vpVars
    <3>2. \A w : Releasable(w)' = Releasable(w)
      BY <3>1, CoverStands
    <3>3. (ReadIsCovered /\ FlowsAreCovered /\ TxsAreCovered)' = (ReadIsCovered /\ FlowsAreCovered /\ TxsAreCovered)
      BY <2>3, <3>1 DEF ReadIsCovered, FlowsAreCovered, TxsAreCovered, Releasable
    <3> QED
      BY <1>1, <2>3, <3>1, <3>3 DEF VestingInv, VestingPageTypeOK, CaptureIsCovered
  <2> QED
    BY <1>2, <1>4, <2>1, <2>2, <2>3, <2>4 DEF PagesInv
<1> QED
  BY <1>5, <1>6

(* The notices are two readings of the same five facts. *)
LEMMA NoticesFollow ==
    ASSUME AirdropPageTypeOK
    PROVE  NoticesAgree
<1>1. /\ seen.root \in BOOLEAN /\ seen.finalized \in BOOLEAN /\ seen.paused \in BOOLEAN
      /\ seen.opens \in Nat /\ clock \in Nat
  BY DEF AirdropPageTypeOK, Contract
<1>2. clock < seen.opens \/ clock = seen.opens \/ clock > seen.opens
  BY <1>1
<1>3. /\ ~ claimWindowOpen /\ StatusLabel # "Active"
      /\ \/ ButtonNotice = StatusLabel
         \/ ButtonNotice = "Ended" /\ StatusLabel \in {"Finalized", "Paused"} /\ claimWindowEnded
      => NoticesAgree
  BY DEF NoticesAgree, claimWindowOpen, live
<1>4. claimWindowOpen /\ StatusLabel = "Active" => NoticesAgree
  BY DEF NoticesAgree, ButtonEnabled, claimWindowOpen, live
<1>5. CASE ~ seen.root
  <2>1. ~ claimWindowOpen /\ ~ claimWindowNotStarted /\ ~ claimWindowEnded /\ ~ live
    BY <1>5 DEF live, claimWindowOpen, claimWindowNotStarted, claimWindowEnded
  <2>2. StatusLabel = "Uninitialized"
    BY <1>5, <2>1 DEF StatusLabel
  <2>3. ButtonNotice = "Uninitialized"
    BY <1>5, <2>1 DEF ButtonNotice
  <2> QED
    BY <1>3, <2>1, <2>2, <2>3
<1>6. CASE seen.root /\ seen.finalized
  <2>1. /\ StatusLabel = "Finalized" /\ ~ claimWindowOpen /\ claimWindowEnded /\ ~ claimWindowNotStarted
    BY <1>6 DEF StatusLabel, live, claimWindowOpen, claimWindowEnded, claimWindowNotStarted
  <2>2. ButtonNotice = "Ended"
    BY <1>6, <2>1 DEF ButtonNotice
  <2> QED
    BY <1>3, <2>1, <2>2
<1>7. CASE seen.root /\ ~ seen.finalized /\ seen.paused
  <2>1. StatusLabel = "Paused" /\ ~ claimWindowOpen /\ ~ claimWindowNotStarted
    BY <1>7 DEF StatusLabel, live, claimWindowOpen, claimWindowNotStarted
  <2>2. CASE claimWindowEnded
    <3>1. ButtonNotice = "Ended"
      BY <1>7, <2>1, <2>2 DEF ButtonNotice
    <3> QED
      BY <1>3, <2>1, <2>2, <3>1
  <2>3. CASE ~ claimWindowEnded
    <3>1. ButtonNotice = "Paused"
      BY <1>7, <2>1, <2>3 DEF ButtonNotice
    <3> QED
      BY <1>3, <2>1, <3>1
  <2> QED
    BY <2>2, <2>3
<1>8. CASE seen.root /\ ~ seen.finalized /\ ~ seen.paused
  <2>0. live
    BY <1>8 DEF live
  <2>1. CASE clock < seen.opens
    <3>1. StatusLabel = "Upcoming" /\ ~ claimWindowOpen /\ claimWindowNotStarted
      BY <1>1, <1>8, <2>0, <2>1 DEF StatusLabel, claimWindowOpen, claimWindowNotStarted
    <3>2. ~ claimWindowEnded
      BY <1>1, <1>8, <2>1 DEF claimWindowEnded
    <3>3. ButtonNotice = "Upcoming"
      BY <1>8, <3>1, <3>2 DEF ButtonNotice
    <3> QED
      BY <1>3, <3>1, <3>3
  <2>2. CASE clock = seen.opens
    <3>1. StatusLabel = "Active" /\ claimWindowOpen
      BY <1>1, <1>8, <2>0, <2>2 DEF StatusLabel, claimWindowOpen
    <3> QED
      BY <1>4, <3>1
  <2>3. CASE clock > seen.opens
    <3>1. StatusLabel = "Ended" /\ ~ claimWindowOpen /\ ~ claimWindowNotStarted /\ claimWindowEnded
      BY <1>1, <1>8, <2>0, <2>3 DEF StatusLabel, claimWindowOpen, claimWindowNotStarted, claimWindowEnded
    <3>2. ButtonNotice = "Ended"
      BY <1>8, <3>1 DEF ButtonNotice
    <3> QED
      BY <1>3, <3>1, <3>2
  <2> QED
    BY <1>2, <2>1, <2>2, <2>3
<1> QED
  BY <1>1, <1>5, <1>6, <1>7, <1>8

(* The page's quarter of an amount, times the stages, against the          *)
(* contract's share of it: what rounding loses is less than a unit a stage.*)
LEMMA QuarterAndShare ==
    ASSUME NEW t \in Nat, NEW i \in 1..Stages
    PROVE  /\ (t \div Stages) * i <= Matured(t, i)
           /\ Matured(t, i) < (t \div Stages) * i + Stages
           /\ t \div Stages \in Nat /\ Matured(t, i) \in Nat
<1> DEFINE q == t \div Stages
           r == t - q * Stages
           v == t * i * Share
<1>1. Share \in Nat /\ Stages \in Nat \ {0} /\ Stages * Share = 100 /\ i \in Nat
  BY ShareKnown
<1>2. q \in Nat
  BY <1>1, DivGrows
<1>3. r \in Nat /\ r <= Stages - 1
  <2>1. Stages * q <= t /\ t < Stages * q + Stages
    BY <1>1
  <2>2. Stages * q = q * Stages
    BY <1>1, <1>2
  <2> QED
    BY <1>1, <1>2, <2>1, <2>2
<1>4. t = q * Stages + r
  BY <1>1, <1>2
<1> HIDE DEF q, r
<1>5. v = 100 * (q * i) + r * i * Share
  <2>1. t * i = (q * i) * Stages + r * i
    BY <1>1, <1>2, <1>3, <1>4
  <2>2. q * i \in Nat /\ r * i \in Nat
    BY <1>1, <1>2, <1>3, ProductGrows
  <2>3. t * i * Share = (q * i) * (Stages * Share) + (r * i) * Share
    BY <1>1, <2>1, <2>2
  <2> QED
    BY <1>1, <2>2, <2>3
<1>6. q * i \in Nat /\ r * i * Share \in Nat /\ r * i * Share <= 100 * (Stages - 1)
  <2>1. q * i \in Nat /\ r * i \in Nat /\ i * Share \in Nat
    BY <1>1, <1>2, <1>3, ProductGrows
  <2>2. i * Share <= Stages * Share
    BY <1>1, ProductGrows
  <2>3. (i * Share) * r <= 100 * r /\ (i * Share) * r \in Nat
    BY <1>1, <1>3, <2>1, <2>2, ProductGrows
  <2>4. (i * Share) * r = r * i * Share
    BY <1>1, <1>3
  <2> QED
    BY <1>1, <1>3, <2>1, <2>3, <2>4
<1> HIDE DEF v
<1>7. v \in Nat /\ 100 * (q * i) <= v /\ v <= 100 * (q * i + Stages - 1)
  BY <1>1, <1>5, <1>6
<1>8. v \div 100 = Matured(t, i)
  BY DEF v, Matured
<1>9. v \div 100 \in Nat /\ q * i <= v \div 100 /\ v \div 100 <= q * i + Stages - 1
  BY <1>1, <1>6, <1>7
<1> QED
  BY <1>1, <1>2, <1>6, <1>8, <1>9 DEF q

LEMMA StagesFollow ==
    ASSUME VestingInv, WalletInv
    PROVE  StagesTellTheTruth
<1> SUFFICES ASSUME wallet # NoWallet, read = NowRead, NEW i \in 1..Stages
             PROVE  /\ StageStatus(i) = "available" => Releasable(wallet) > 0
                    /\ StageStatus(i) = "claimed" =>
                          (total[wallet] * i * Share) \div 100 < claimed[wallet] + Stages
  BY DEF StagesTellTheTruth
<1> DEFINE t == total[wallet]
           c == claimed[wallet]
           q == t \div Stages
<1>1. wallet \in Wallets
  BY DEF WalletInv, PageTypeOK
<1>2. t \in Nat /\ c \in Nat /\ stage \in 0..Stages /\ read.total = t /\ read.claimed = c
  BY <1>1 DEF VestingInv, VestingPageTypeOK, NowRead, Current
<1>3. Stages \in Nat \ {0} /\ i \in Nat /\ i >= 1
  BY ShareKnown
<1>4. q \in Nat /\ q * i \in Nat /\ Matured(t, i) < q * i + Stages /\ Matured(t, i) \in Nat
  <2>1. q \in Nat /\ Matured(t, i) < q * i + Stages /\ Matured(t, i) \in Nat
    BY <1>2, QuarterAndShare
  <2> HIDE DEF q
  <2>2. q * i \in Nat
    BY <1>3, <2>1
  <2> QED
    BY <2>1, <2>2
<1>5. stageAmount = q
  BY <1>2 DEF stageAmount
<1>6. ASSUME StageStatus(i) = "available" PROVE Releasable(wallet) > 0
  <2>1. ~ (c >= q * i) /\ stage >= i
    BY <1>2, <1>5, <1>6 DEF StageStatus
  <2>2. stage \in 1..Stages
    BY <1>2, <1>3, <2>1
  <2>3. q * stage <= Matured(t, stage) /\ Matured(t, stage) \in Nat
    BY <1>2, <2>2, QuarterAndShare
  <2>4. q * i <= q * stage /\ q * stage \in Nat
    <3>1. i * q <= stage * q /\ stage * q \in Nat
      BY <1>3, <1>4, <2>1, <2>2, ProductGrows
    <3> QED
      BY <1>3, <1>4, <2>2, <3>1
  <2>5. Releasable(wallet) = IF stage = 0 THEN 0 ELSE Monus(Matured(t, stage), c)
    BY <1>1, ReleasableKnown DEF VestingInv
  <2> HIDE DEF q, t, c
  <2> QED
    BY <1>2, <1>4, <2>1, <2>2, <2>3, <2>4, <2>5 DEF Monus
<1>7. ASSUME StageStatus(i) = "claimed" PROVE Matured(t, i) < c + Stages
  <2>1. c >= q * i
    BY <1>2, <1>5, <1>7 DEF StageStatus
  <2> HIDE DEF q, t, c
  <2> QED
    BY <1>2, <1>3, <1>4, <2>1
<1> QED
  BY <1>6, <1>7 DEF Matured

(* What the backend is told a claim paid is covered by what it paid. *)
LEMMA ReportsAreCovered ==
    ASSUME WalletInv, VestingInv
    PROVE  ReportNeverExceedsPayment
<1> SUFFICES ASSUME route = "vesting", NEW r \in reports, txs[r.tx].kept
             PROVE  txs[r.tx].arg <= txs[r.tx].paid
  BY DEF ReportNeverExceedsPayment
<1>1. r.tx \in DOMAIN txs
  BY TxsKnown DEF WalletInv, PageTypeOK
<1>2. ~ overlap /\ TxsAreCovered
  BY DEF VestingInv, CaptureIsCovered
<1>3. txs[r.tx].state = "mined"
  BY <1>2 DEF WalletInv, ReportingInOrder, Reportable
<1> QED
  BY <1>1, <1>2, <1>3 DEF TxsAreCovered

(* On every route of a tab (pages/airdrop.tsx, vesting.tsx, buy.tsx): as   *)
(* long as nothing was clicked while a report was being retried, a report  *)
(* names a transaction that was mined; it names the wallet that sent it,   *)
(* and a vesting claim no more than was paid, if that wallet stayed        *)
(* connected, and not otherwise: the pages post the address of the moment. *)
(* The airdrop's two notices agree; on true reads a stage shown as         *)
(* available is money the contract would pay, one shown as claimed has     *)
(* been paid but for rounding.                                             *)
THEOREM PagesAreTruthful == PagesSpec => []PagesTellTheTruth
<1>1. PagesInv => PagesTellTheTruth
  <2> SUFFICES ASSUME PagesInv PROVE PagesTellTheTruth
    OBVIOUS
  <2>1. WalletInv /\ AirdropInv /\ VestingInv /\ BuyPageTypeOK
    BY DEF PagesInv
  <2>2. PagesTypeOK
    BY <2>1 DEF PagesTypeOK, WalletInv, AirdropInv, VestingInv
  <2>3. ReportsAreOwn
    BY <2>1 DEF ReportsAreOwn, WalletInv, ReportingInOrder, BySender, Reportable
  <2> QED
    BY <2>1, <2>2, <2>3, ReportsAreCovered, NoticesFollow, StagesFollow DEF PagesTellTheTruth, AirdropInv
<1> QED
  BY <1>1, PagesStart, PagesKeep, PTL DEF PagesSpec

-----------------------------------------------------------------------------
(* Only a click adds a handler to those that await the wallet. *)

NoNewFlow ==
    \/ flows' = flows \/ flows' = {}
    \/ \E f \in flows : flows' = flows \ {f}
    \/ \E f \in flows, g \in flows' : flows' = (flows \ {f}) \cup {g}
    \/ \E h \in [flows -> flows'] : flows' = {h[f] : f \in flows}

LEMMA NotMore ==
    ASSUME WalletInv, NoNewFlow
    PROVE  ~ (Cardinality(flows') > Cardinality(flows))
<1>1. IsFiniteSet(flows) /\ Cardinality(flows) \in Nat
  BY FS_CardinalityType DEF WalletInv
<1>2. CASE flows' = flows
  BY <1>1, <1>2
<1>3. CASE flows' = {}
  <2>1. Cardinality(flows') = 0
    BY <1>3, FS_EmptySet
  <2> QED
    BY <1>1, <2>1
<1>4. CASE \E f \in flows : flows' = flows \ {f}
  <2>1. PICK f \in flows : flows' = flows \ {f}
    BY <1>4
  <2>2. Cardinality(flows \ {f}) = IF f \in flows THEN Cardinality(flows) - 1 ELSE Cardinality(flows)
    BY <1>1, FS_RemoveElement
  <2> QED
    BY <1>1, <2>1, <2>2
<1>5. CASE \E f \in flows, g \in flows' : flows' = (flows \ {f}) \cup {g}
  <2>1. PICK f \in flows, g \in flows' : flows' = (flows \ {f}) \cup {g}
    BY <1>5
  <2>2. IsFiniteSet(flows \ {f})
        /\ Cardinality(flows \ {f}) = IF f \in flows THEN Cardinality(flows) - 1 ELSE Cardinality(flows)
    BY <1>1, FS_RemoveElement
  <2>3. Cardinality((flows \ {f}) \cup {g})
           = IF g \in flows \ {f} THEN Cardinality(flows \ {f}) ELSE Cardinality(flows \ {f}) + 1
    BY <2>2, FS_AddElement
  <2> QED
    BY <1>1, <2>1, <2>2, <2>3
<1>6. CASE \E h \in [flows -> flows'] : flows' = {h[f] : f \in flows}
  <2>1. PICK h \in [flows -> flows'] : flows' = {h[f] : f \in flows}
    BY <1>6
  <2>2. IsFiniteSet(flows') /\ Cardinality(flows') <= Cardinality(flows)
    BY <1>1, <2>1, FlowsReleased
  <2>3. Cardinality(flows') \in Nat
    BY <2>2, FS_CardinalityType
  <2> QED
    BY <1>1, <2>2, <2>3
<1> QED
  BY <1>2, <1>3, <1>4, <1>5, <1>6 DEF NoNewFlow

LEMMA DisturbAddsNone ==
    ASSUME Disturb
    PROVE  NoNewFlow
<1> DEFINE h == [f \in flows |-> [f EXCEPT !.kept = FALSE]]
<1>1. flows' = {h[f] : f \in flows} /\ h \in [flows -> flows']
  BY DEF Disturb
<1> HIDE DEF h
<1> QED
  BY <1>1 DEF NoNewFlow

LEMMA MineAddsNone ==
    ASSUME NEW i, NEW ok, NEW pay, MineTx(i, ok, pay)
    PROVE  NoNewFlow
<1> DEFINE h == [f \in flows |-> [f EXCEPT !.kept = @ /\ f.from # txs[i].from]]
<1>1. flows' = {h[f] : f \in flows} /\ h \in [flows -> flows']
  BY DEF MineTx
<1> HIDE DEF h
<1> QED
  BY <1>1 DEF NoNewFlow

LEMMA SharedAddNone ==
    ASSUME \/ UNCHANGED pageVars \/ Reload \/ RetrySync \/ SwitchNetwork
           \/ (\E w \in Wallets \cup {NoWallet} : Connect(w) \/ SwitchWallet(w))
           \/ (\E ready \in BOOLEAN : LearnReceipt(ready))
           \/ (\E s \in syncs, ok \in BOOLEAN, anyway \in BOOLEAN : SyncAnswer(s, ok, anyway))
           \/ (\E f \in flows : Reject(f) \/ Sign(f, "waiting", {}))
    PROVE  NoNewFlow
<1>1. CASE UNCHANGED pageVars \/ Reload \/ RetrySync \/ SwitchNetwork
           \/ (\E ready \in BOOLEAN : LearnReceipt(ready))
           \/ (\E s \in syncs, ok \in BOOLEAN, anyway \in BOOLEAN : SyncAnswer(s, ok, anyway))
  BY <1>1 DEF pageVars, sendVars, Reload, RetrySync, SwitchNetwork, LearnReceipt, SyncAnswer, NoNewFlow
<1>2. CASE \E w \in Wallets \cup {NoWallet} : Connect(w) \/ SwitchWallet(w)
  <2>1. PICK w \in Wallets \cup {NoWallet} : Connect(w) \/ SwitchWallet(w)
    BY <1>2
  <2>2. CASE Connect(w)
    BY <2>2 DEF Connect, sendVars, NoNewFlow
  <2>3. CASE SwitchWallet(w)
    BY <2>3, DisturbAddsNone DEF SwitchWallet
  <2> QED
    BY <2>1, <2>2, <2>3
<1>3. CASE \E f \in flows : Reject(f) \/ Sign(f, "waiting", {})
  <2>1. PICK f \in flows : flows' = flows \ {f}
    BY <1>3 DEF Reject, Sign
  <2> QED
    BY <2>1 DEF NoNewFlow
<1> QED
  BY <1>1, <1>2, <1>3

LEMMA AirdropClicks ==
    ASSUME AirdropPageNext, ~ NoNewFlow
    PROVE  ClaimAirdrop
<1>1. ~ \E i \in DOMAIN txs : MineClaim(i)
  BY MineAddsNone DEF MineClaim
<1>2. ~ LearnReceipt(eligibility # NoEligibility)
  <2>1. (eligibility # NoEligibility) \in BOOLEAN
    OBVIOUS
  <2> QED
    BY <2>1, SharedAddNone
<1>3. ~ ReportAnswered
  BY SharedAddNone DEF ReportAnswered
<1>4. ~ (AirdropMoves \/ ReadAirdrop \/ Tick \/ \E w \in Wallets : CheckAnswered(w) \/ CheckFails(w))
  <2>1. ~ UNCHANGED pageVars
    BY SharedAddNone
  <2> QED
    BY <2>1 DEF AirdropMoves, Govern, ReadAirdrop, Tick, CheckAnswered, CheckFails, Answered
<1>5. ~ (WalletChanged \/ ReloadAirdrop \/ SwitchNetwork)
  BY SharedAddNone DEF WalletChanged, ReloadAirdrop
<1>6. ~ TryAgain
  BY DisturbAddsNone DEF TryAgain
<1>7. ~ \E f \in flows : Reject(f) \/ Sign(f, "waiting", {})
  BY SharedAddNone
<1> QED
  BY <1>1, <1>2, <1>3, <1>4, <1>5, <1>6, <1>7 DEF AirdropPageNext, AirdropPageStep

LEMMA BuyClicks ==
    ASSUME WalletInv, BuyPageNext, ~ NoNewFlow
    PROVE  Buy
<1>1. ~ \E i \in DOMAIN txs : MinePurchase(i)
  BY MineAddsNone DEF MinePurchase
<1>2. ~ LearnReceipt(TRUE) /\ ~ PurchaseReportAnswered /\ ~ BuyWalletChanged
  <2>1. \A w \in Buyers \cup {NoWallet} : w \in Wallets \cup {NoWallet}
    BY BuyAssumption
  <2> QED
    BY <2>1, SharedAddNone DEF PurchaseReportAnswered, BuyWalletChanged
<1>3. ~ (SaleMoves \/ ReadSale \/ (\E a \in Amounts \cup {0} : EnterAmount(a))
         \/ (\E c \in {eth, usd} : SelectCurrency(c)))
  <2>1. ~ UNCHANGED pageVars
    BY SharedAddNone
  <2> QED
    BY <2>1 DEF SaleMoves, SaleBecomes, ReadSale, EnterAmount, SelectCurrency
<1>4. ~ (ReloadBuy \/ RetrySync \/ SwitchNetwork)
  BY SharedAddNone DEF ReloadBuy
<1>5. ~ BuyOnWrongNetwork
  BY DEF BuyOnWrongNetwork, sendVars, NoNewFlow
<1>6. ~ \E f \in flows : Reject(f) \/ SignPurchase(f)
  BY SharedAddNone DEF SignPurchase
<1>7. ~ \E f \in flows : SignApproval(f) \/ Resume(f)
  <2> SUFFICES ASSUME NEW f \in flows, SignApproval(f) \/ Resume(f) PROVE FALSE
    OBVIOUS
  <2>1. PICK g : flows' = (flows \ {f}) \cup {g}
    BY DEF SignApproval, Sign, Resume
  <2> QED
    BY <2>1 DEF NoNewFlow
<1> QED
  BY <1>1, <1>2, <1>3, <1>4, <1>5, <1>6, <1>7 DEF BuyPageNext, BuyPageStep

(* What the airdrop page offers to claim, the contract would pay. *)
LEMMA ClaimIsAccepted ==
    ASSUME PagesInv, route = "airdrop", ClaimAirdrop, NEW f \in flows' \ flows,
           seen = airdrop, seenTaken = (f.from \in taken), f.arg = f.from
    PROVE  Accepts(f)
<1>1. /\ ButtonEnabled /\ Click("claim", eligibility.owner, "claiming", TRUE)
  BY DEF ClaimAirdrop
<1>2. f = [from |-> wallet, kind |-> "claim", arg |-> eligibility.owner, kept |-> TRUE]
  BY <1>1 DEF Click
<1>3. /\ eligibility # NoEligibility /\ eligibility.eligible /\ ~ seenTaken
      /\ seen.root /\ ~ seen.paused /\ clock = seen.opens
  BY <1>1 DEF ButtonEnabled, ButtonShown, IsEligible, alreadyClaimed, claimWindowOpen, live
<1>4. eligibility.owner \in Listed
  BY <1>3 DEF PagesInv, AirdropInv, EligibilityIsTrue
<1>5. f.from \in Listed /\ f.from \notin taken
  BY <1>2, <1>3, <1>4
<1> QED
  BY <1>3, <1>5 DEF Accepts

(* What the buy page offers for sale, the contract would sell. *)
LEMMA PurchaseFits ==
    ASSUME PagesInv, route = "buy", Buy, NEW f \in flows' \ flows,
           Checked, shown = NowShown, calcError = CalculatorError
    PROVE  saleStateKey = "active" /\ SaleTakes(f.from, f.arg.amount)
<1> DEFINE order == [currency |-> currency, amount |-> amount]
<1>1. /\ amount # 0 /\ calcError = "none" /\ shown' = shown /\ amount' = amount /\ wallet # NoWallet
      /\ \/ Click("approve", order, "approving", TRUE) \/ Click("buy", order, "purchasing", TRUE)
  BY DEF Buy, bpVars, Click, MayClick
<1>2. f.from = wallet /\ f.arg.amount = amount
  BY <1>1 DEF Click
<1>3. /\ WalletCap \in Nat /\ SaleCap \in Nat /\ MinPurchase \in Nat /\ amount \in Nat
      /\ wallet \in Wallets /\ bought[wallet] \in 0..WalletCap /\ sale.sold \in 0..SaleCap
      /\ sale.phase \in 1..3 /\ sale.paused \in BOOLEAN /\ sale.finalized \in BOOLEAN
  BY <1>1, BuyAssumption DEF PagesInv, WalletInv, PageTypeOK, BuyPageTypeOK
<1>4. shown.paused = sale.paused /\ shown.finalized = sale.finalized /\ shown.sold = sale.sold
      /\ shown.bought = bought[wallet]
  BY <1>1 DEF NowShown
<1>5. CalculatorError = "none"
  BY <1>1
<1>6. ~ shown.paused /\ ~ shown.finalized
  BY <1>1, <1>3, <1>4, <1>5 DEF CalculatorError
<1>7. /\ sale.phase = 2 /\ amount >= MinPurchase
      /\ ~ (userRemainingCap > 0 /\ shown.bought + amount > userRemainingCap)
      /\ ~ (remainingSaleCap # 0 /\ amount > remainingSaleCap)
  BY <1>1, <1>3, <1>5, <1>6 DEF CalculatorError
<1>8. userRemainingCap = WalletCap - bought[wallet] /\ remainingSaleCap = SaleCap - sale.sold
  BY <1>1, <1>4 DEF Checked, userRemainingCap, remainingSaleCap
<1>9. bought[wallet] # WalletCap /\ sale.sold # SaleCap
  BY <1>4 DEF Checked
<1>10. bought[wallet] + amount <= WalletCap /\ sale.sold + amount <= SaleCap
  BY <1>3, <1>4, <1>7, <1>8, <1>9
<1>11. saleStateKey = "active"
  BY <1>6, <1>7 DEF saleStateKey
<1> QED
  BY <1>2, <1>4, <1>6, <1>7, <1>10, <1>11 DEF SaleTakes

(* A click that the pages let through on true reads is a transaction the   *)
(* contract accepts at that moment: the claim button's window, pause and   *)
(* claimed checks (airdrop.tsx) and the Calculator's caps (Calculator.tsx) *)
(* are the contracts' checks coded a second time.                          *)
THEOREM OffersAreAccepted == PagesSpec => OffersAreTaken
<1>1. PagesInv /\ [PagesNext]_pagesVars =>
        [\A f \in flows' \ flows :
            (/\ route = "airdrop" /\ Cardinality(flows') > Cardinality(flows)
             /\ seen = airdrop /\ seenTaken = (f.from \in taken) /\ f.arg = f.from)
                => Accepts(f)]_airdropPageVars
  <2> SUFFICES ASSUME PagesInv, [PagesNext]_pagesVars, NEW f \in flows' \ flows,
                      route = "airdrop", Cardinality(flows') > Cardinality(flows),
                      seen = airdrop, seenTaken = (f.from \in taken), f.arg = f.from
               PROVE  Accepts(f)
    OBVIOUS
  <2>1. ~ NoNewFlow /\ PagesNext
    <3>1. UNCHANGED pagesVars => flows' = flows
      BY DEF pagesVars, pageVars, sendVars
    <3> QED
      BY <3>1, NotMore DEF PagesInv
  <2>2. ClaimAirdrop
    BY <2>1, AirdropClicks DEF PagesNext
  <2> QED
    BY <2>2, ClaimIsAccepted
<1>2. PagesInv /\ [PagesNext]_pagesVars =>
        [\A f \in flows' \ flows :
            (/\ route = "buy" /\ Cardinality(flows') > Cardinality(flows)
             /\ Checked /\ shown = NowShown /\ calcError = CalculatorError)
                => saleStateKey = "active" /\ SaleTakes(f.from, f.arg.amount)]_buyPageVars
  <2> SUFFICES ASSUME PagesInv, [PagesNext]_pagesVars, NEW f \in flows' \ flows,
                      route = "buy", Cardinality(flows') > Cardinality(flows),
                      Checked, shown = NowShown, calcError = CalculatorError
               PROVE  saleStateKey = "active" /\ SaleTakes(f.from, f.arg.amount)
    OBVIOUS
  <2>1. ~ NoNewFlow /\ PagesNext
    <3>1. UNCHANGED pagesVars => flows' = flows
      BY DEF pagesVars, pageVars, sendVars
    <3> QED
      BY <3>1, NotMore DEF PagesInv
  <2>2. Buy
    BY <2>1, BuyClicks DEF PagesNext, PagesInv
  <2> QED
    BY <2>2, PurchaseFits
<1> QED
  BY <1>1, <1>2, PagesStart, PagesKeep, PTL
    DEF PagesSpec, OffersAreTaken, OfferedClaimIsAccepted, OfferedPurchaseFits
=============================================================================
