------------------------------- MODULE DeepLink -------------------------------
(***************************************************************************)
(* Linking a Telegram account: the site makes a single-use token bound to  *)
(* a user, the user opens the bot with it, and the bot's webhook validates *)
(* the token, consumes it atomically and writes the PlatformAccount.       *)
(* Updates run concurrently: the same link may be opened twice, or from    *)
(* two Telegram accounts, and the process may stop between two steps.      *)
(***************************************************************************)
EXTENDS Naturals, FiniteSets

CONSTANTS
    LinkUsers, Telegrams, Tokens,
    Updates,       \* Telegram updates with a /start command
    NoUser, NoToken, NoTelegram,
    MaxUpsets      \* bound: Redis or database errors, and crashes

ASSUME LinkAssumption ==
    /\ NoUser \notin LinkUsers /\ NoToken \notin Tokens
    /\ NoTelegram \notin Telegrams
    /\ MaxUpsets \in Nat

VARIABLES
    issued,    \* history: the user each token was made for
    token,     \* verification:token:<t>: absent, live, or past expiresAt
    meta,      \* verification:token:meta:<t>: the Telegram id that consumed it
    accounts,  \* PlatformAccount rows of the platform
    update,    \* local state of the webhook's calls
    won,       \* history: updates that consumed a token, in a token's name
    upsets

linkVars == <<issued, token, meta, accounts, update, won, upsets>>

Account == [user : LinkUsers, tg : Telegrams]
LinkPlace == {"new", "meta", "take", "check", "mark", "find", "upsert",
              "linked", "refused", "lost"}

LinkTypeOK ==
    /\ issued \in [Tokens -> LinkUsers \cup {NoUser}]
    /\ token \in [Tokens -> {"absent", "live", "expired"}]
    /\ meta \in [Tokens -> Telegrams \cup {NoTelegram}]
    /\ accounts \subseteq Account
    /\ update \in [Updates -> [at : LinkPlace, token : Tokens \cup {NoToken},
                               tg : Telegrams \cup {NoTelegram}, late : BOOLEAN]]
    /\ won \in [Tokens -> SUBSET Updates]
    /\ upsets \in 0..MaxUpsets

LinkInit ==
    /\ issued = [t \in Tokens |-> NoUser]
    /\ token = [t \in Tokens |-> "absent"]
    /\ meta = [t \in Tokens |-> NoTelegram]
    /\ accounts = {}
    /\ update = [u \in Updates |-> [at |-> "new", token |-> NoToken,
                                    tg |-> NoTelegram, late |-> FALSE]]
    /\ won = [t \in Tokens |-> {}]
    /\ upsets = 0

Stands(u, place) == update[u].at = place
Move(u, place) == update' = [update EXCEPT ![u].at = place]
Upset == upsets < MaxUpsets /\ upsets' = upsets + 1

\* a fresh random token; the user may already be linked
generateDeepLink(t, user) ==
    /\ issued[t] = NoUser
    /\ issued' = [issued EXCEPT ![t] = user]
    /\ token' = [token EXCEPT ![t] = "live"]
    /\ UNCHANGED <<meta, accounts, update, won, upsets>>

\* 600 seconds are over; Redis drops the key then or a little later
Expire(t) ==
    /\ \/ token[t] = "live" /\ token' = [token EXCEPT ![t] = "expired"]
       \/ token[t] = "expired" /\ token' = [token EXCEPT ![t] = "absent"]
    /\ UNCHANGED <<issued, meta, accounts, update, won, upsets>>

\* the key with the consumption data has a time to live of its own
ExpireMeta(t) ==
    /\ meta[t] # NoTelegram
    /\ meta' = [meta EXCEPT ![t] = NoTelegram]
    /\ UNCHANGED <<issued, token, accounts, update, won, upsets>>

\* an update arrives and the token is validated, which drops an expired one
validate(u, t, tg) ==
    /\ Stands(u, "new") /\ issued[t] # NoUser
    /\ update' = [update EXCEPT ![u] = [at |-> IF token[t] = "live" THEN "meta" ELSE "refused",
                                        token |-> t, tg |-> tg, late |-> FALSE]]
    /\ IF token[t] = "expired"
         THEN token' = [token EXCEPT ![t] = "absent"] /\ meta' = [meta EXCEPT ![t] = NoTelegram]
         ELSE UNCHANGED <<token, meta>>
    /\ UNCHANGED <<issued, accounts, won, upsets>>

\* the replay guard, which a failing Redis lets through
ReadMeta(u) ==
    LET used == meta[update[u].token] # NoTelegram IN
    /\ Stands(u, "meta")
    /\ \/ Move(u, IF used THEN "refused" ELSE "take") /\ UNCHANGED upsets
       \/ Move(u, "take") /\ Upset
    /\ UNCHANGED <<issued, token, meta, accounts, won>>

\* mutant: GET here, the DEL of MarkConsumed later
getThenDel(u) ==
    LET t == update[u].token IN
    /\ Stands(u, "take")
    /\ Move(u, IF token[t] = "absent" THEN "refused" ELSE "check")
    /\ won' = [won EXCEPT ![t] = IF token[t] = "absent" THEN @ ELSE @ \cup {u}]
    /\ UNCHANGED <<issued, token, meta, accounts, upsets>>

\* GETDEL: one caller gets the record, everyone else nothing
getAndDel(u) ==
    LET t == update[u].token IN
    /\ Stands(u, "take")
    /\ token' = [token EXCEPT ![t] = "absent"]
    /\ \/ /\ token[t] # "absent"
          /\ update' = [update EXCEPT ![u].at = "check", ![u].late = token[t] = "expired"]
          /\ won' = [won EXCEPT ![t] = @ \cup {u}]
       \/ /\ token[t] = "absent"
          /\ Move(u, "refused")
          /\ UNCHANGED won
    /\ UNCHANGED <<issued, meta, accounts, upsets>>

\* a record past its time is dropped for good; the platform and the user in
\* the context are those validate returned, so their checks pass
CheckExpiry(u) ==
    LET t == update[u].token IN
    /\ Stands(u, "check")
    /\ IF update[u].late
         THEN /\ Move(u, "refused")
              /\ token' = [token EXCEPT ![t] = "absent"]
              /\ meta' = [meta EXCEPT ![t] = NoTelegram]
         ELSE Move(u, "mark") /\ UNCHANGED <<token, meta>>
    /\ UNCHANGED <<issued, accounts, won, upsets>>

\* the write of the metadata may fail unnoticed, the delete after it throws
MarkConsumed(u) ==
    LET t == update[u].token IN
    /\ Stands(u, "mark")
    /\ token' = [token EXCEPT ![t] = "absent"]
    /\ \/ /\ meta' = [meta EXCEPT ![t] = update[u].tg]
          /\ Move(u, "find")
          /\ UNCHANGED upsets
       \/ /\ Upset
          /\ \/ UNCHANGED meta /\ Move(u, "find")
             \/ meta' = [meta EXCEPT ![t] = update[u].tg] /\ Move(u, "refused")
    /\ UNCHANGED <<issued, accounts, won>>

\* linkAccount: the Telegram account must not be another user's
FindAccount(u) ==
    LET user == issued[update[u].token]
        taken == \E a \in accounts : a.tg = update[u].tg /\ a.user # user
    IN
    /\ Stands(u, "find")
    /\ Move(u, IF taken THEN "refused" ELSE "upsert")
    /\ UNCHANGED <<issued, token, meta, accounts, won, upsets>>

\* upsert of the user's row; the database refuses a second owner (P2002)
link(u) ==
    LET user == issued[update[u].token]
        tg == update[u].tg
        others == {a \in accounts : a.user # user}
    IN
    /\ Stands(u, "upsert")
    /\ IF \E a \in others : a.tg = tg
         THEN Move(u, "refused") /\ UNCHANGED accounts
         ELSE /\ Move(u, "linked")
              /\ accounts' = others \cup {[user |-> user, tg |-> tg]}
    /\ UNCHANGED <<issued, token, meta, won, upsets>>

unlinkAccount(user) ==
    /\ \E a \in accounts : a.user = user
    /\ accounts' = {a \in accounts : a.user # user}
    /\ UNCHANGED <<issued, token, meta, update, won, upsets>>

\* the process stops under the webhook, which has answered 200 already
Lose(u) ==
    /\ update[u].at \notin {"new", "linked", "refused", "lost"}
    /\ Upset
    /\ Move(u, "lost")
    /\ UNCHANGED <<issued, token, meta, accounts, won>>

Handle(u) ==
    \/ ReadMeta(u) \/ getAndDel(u) \/ CheckExpiry(u) \/ MarkConsumed(u)
    \/ FindAccount(u) \/ link(u)

LinkNext ==
    \/ \E t \in Tokens : \/ \E user \in LinkUsers : generateDeepLink(t, user)
                         \/ Expire(t) \/ ExpireMeta(t)
    \/ \E u \in Updates : \/ \E t \in Tokens, tg \in Telegrams : validate(u, t, tg)
                          \/ Handle(u) \/ Lose(u)
    \/ \E user \in LinkUsers : unlinkAccount(user)

LinkSpec == LinkInit /\ [][LinkNext]_linkVars

-----------------------------------------------------------------------------
(* Properties.                                                             *)

\* Whatever is replayed, raced, expired or lost, a token is consumed by one
\* update at most: not again once its metadata is gone, either.
TokenConsumedOnce == \A t \in Tokens : Cardinality(won[t]) <= 1

\* Every link was made by an update that consumed a token of that very user
\* and came from that very Telegram account.
LinkFollowsConsent ==
    \A a \in accounts :
      \E t \in Tokens : \E u \in won[t] :
        issued[t] = a.user /\ update[u].tg = a.tg /\ Stands(u, "linked")

\* A Telegram account counts for one user and a user has one Telegram account,
\* although two updates may both find it free.
OneOwner ==
    \A a, b \in accounts : a.tg = b.tg \/ a.user = b.user => a = b

\* A link goes by being unlinked, or is replaced by its own user's: no update
\* for another user takes it over.  (Unlinking and asking for a token are public
\* requests that name a wallet: whose wish they are is not known.)
LinkNotTaken ==
    [][\A a \in accounts :
         a \notin accounts'
           => \/ \A b \in accounts' : b.user # a.user /\ b.tg # a.tg
              \/ \E b \in accounts' : b.user = a.user]_linkVars

\* A token makes one link, the one its user asked for.
LinksInv == LinkTypeOK /\ TokenConsumedOnce /\ LinkFollowsConsent /\ OneOwner
=============================================================================
