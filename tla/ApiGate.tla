------------------------------- MODULE ApiGate -------------------------------
(***************************************************************************)
(* What a request passes before a controller sees it (f/src/core/middle-   *)
(* ware, core/auth): the rate limiter, one record for each client address  *)
(* whatever the route; the wallet's signature; the role, read from the     *)
(* Airdrop contract; and, for POST /airdrop/claim, the idempotency key,    *)
(* looked up and marked in Redis in two steps.                             *)
(***************************************************************************)
EXTENDS Naturals, Sequences, FiniteSets

CONSTANTS
    Addresses, NoAddress,
    Clients,                  \* values of req.ip
    Limiters, MaxOf, Window,  \* maxRequests of each limiter; windowMs of all
    Keys, ClaimRequests,
    MaxTime, MaxLapses        \* bounds: the clock; expiries and Redis errors

ASSUME GateAssumption ==
    /\ NoAddress \notin Addresses
    /\ MaxOf \in [Limiters -> Nat \ {0}] /\ Window \in Nat \ {0}
    /\ MaxTime \in Nat /\ MaxLapses \in Nat

VARIABLES
    holders,    \* the contract's roles
    time, windows, admitted,     \* the limiter; admitted is history
    claimRequest, marked,       \* claims under way; keys that Redis has
    lapses

gateVars == <<holders, time, windows, admitted, claimRequest, marked, lapses>>

Roles == {"DEFAULT_ADMIN_ROLE", "GOVERNANCE_ROLE", "OPERATOR_ROLE"}
Somebody == Addresses \cup {NoAddress}

GateTypeOK ==
    /\ holders \in [Roles -> SUBSET Addresses]
    /\ time \in 0..MaxTime /\ lapses \in 0..MaxLapses /\ marked \subseteq Keys
    /\ windows \in [Clients -> [count : Nat, resetAt : 0..(MaxTime + Window)]]
    /\ admitted \in [Clients -> Seq([by : Limiters, at : 0..MaxTime])]
    /\ claimRequest \in [ClaimRequests ->
         [at : {"new", "exists", "mark", "handler", "refused"}, wallet : Somebody,
          key : Keys, after : SUBSET ClaimRequests]]

GateInit ==
    /\ holders \in [Roles -> SUBSET Addresses]
    /\ time = 0 /\ lapses = 0 /\ marked = {}
    /\ windows = [c \in Clients |-> [count |-> 0, resetAt |-> 0]]
    /\ admitted = [c \in Clients |-> << >>]
    /\ claimRequest \in [ClaimRequests ->
         [at : {"new"}, wallet : {NoAddress}, key : Keys, after : {{}}]]

-----------------------------------------------------------------------------
(* core/auth/role.service.ts: every role includes those above it. *)
hasRole(role, w) == w \in holders[role]
isAdmin(w) == hasRole("DEFAULT_ADMIN_ROLE", w)
isGov(w) == hasRole("GOVERNANCE_ROLE", w) \/ isAdmin(w)
isOperator(w) == hasRole("OPERATOR_ROLE", w) \/ isGov(w)

requireAdmin(w) == isAdmin(w)
requireAdminOrGov(w) == isAdmin(w) \/ isGov(w) \/ isOperator(w)

(* The answer of GET /auth/check-role. *)
CheckRole(w) == [isAdmin |-> isAdmin(w),
                 isAuthorized |-> isAdmin(w) \/ isGov(w) \/ isOperator(w)]

(* The wallet a request is served for: named by it, and the signer of its  *)
(* message. A wallet or a signature that is missing is NoAddress.          *)
authenticateWallet(w, signer) == w # NoAddress /\ signer # NoAddress /\ signer = w

-----------------------------------------------------------------------------
PassTime ==
    /\ time < MaxTime /\ time' = time + 1
    /\ UNCHANGED <<holders, windows, admitted, claimRequest, marked, lapses>>

WindowOver(c) == windows[c].count = 0 \/ windows[c].resetAt < time

CountRequest(c) ==
    windows' = [windows EXCEPT ![c] = IF WindowOver(c)
                 THEN [count |-> 1, resetAt |-> time + Window]
                 ELSE [windows[c] EXCEPT !.count = @ + 1]]

(* A request that is not let through changes nothing. *)
rateLimit(c, limiter) ==
    /\ WindowOver(c) \/ windows[c].count < MaxOf[limiter]
    /\ CountRequest(c)
    /\ admitted' = [admitted EXCEPT ![c] = Append(@, [by |-> limiter, at |-> time])]
    /\ UNCHANGED <<holders, time, claimRequest, marked, lapses>>

-----------------------------------------------------------------------------
Is(r, place) == claimRequest[r].at = place
Lapse == lapses < MaxLapses /\ lapses' = lapses + 1

Authenticate(r, w, signer) ==
    /\ Is(r, "new")
    /\ claimRequest' = [claimRequest EXCEPT ![r].wallet = w,
            ![r].at = IF authenticateWallet(w, signer) THEN "exists" ELSE "refused"]
    /\ UNCHANGED <<holders, time, windows, admitted, marked, lapses>>

(* Requests with the key of r that have been let through. *)
Before(r) == {s \in ClaimRequests : Is(s, "handler") /\ claimRequest[s].key = claimRequest[r].key}

(* redis.exists; when Redis is down the key counts as new. *)
LookUpKey(r) ==
    /\ Is(r, "exists")
    /\ \/ /\ claimRequest[r].key \in marked /\ UNCHANGED lapses
          /\ claimRequest' = [claimRequest EXCEPT ![r].at = "refused"]
       \/ /\ IF claimRequest[r].key \in marked THEN Lapse ELSE UNCHANGED lapses
          /\ claimRequest' = [claimRequest EXCEPT ![r].at = "mark", ![r].after = Before(r)]
    /\ UNCHANGED <<holders, time, windows, admitted, marked>>

(* Mutant: the key is marked by the handler, once it is done. *)
MarkLater(r) ==
    /\ Is(r, "mark") /\ claimRequest' = [claimRequest EXCEPT ![r].at = "handler"]
    /\ UNCHANGED <<holders, time, windows, admitted, marked, lapses>>

(* redis.set; an error is only logged. *)
MarkKey(r) ==
    /\ Is(r, "mark") /\ claimRequest' = [claimRequest EXCEPT ![r].at = "handler"]
    /\ \/ marked' = marked \cup {claimRequest[r].key} /\ UNCHANGED lapses
       \/ Lapse /\ UNCHANGED marked
    /\ UNCHANGED <<holders, time, windows, admitted>>

(* CACHE_TTL.idempotency is over. *)
ExpireKey(k) ==
    /\ k \in marked /\ marked' = marked \ {k} /\ Lapse
    /\ UNCHANGED <<holders, time, windows, admitted, claimRequest>>

GateNext ==
    \/ PassTime
    \/ \E c \in Clients, l \in Limiters : rateLimit(c, l)
    \/ \E r \in ClaimRequests, w \in Somebody, s \in Somebody : Authenticate(r, w, s)
    \/ \E r \in ClaimRequests : LookUpKey(r) \/ MarkKey(r)
    \/ \E k \in Keys : ExpireKey(k)

GateSpec == GateInit /\ [][GateNext]_gateVars

-----------------------------------------------------------------------------
(* However requests are spread over routes and moments, no span as long as *)
(* a window lets more than two windows' worth of a limiter's requests      *)
(* through (rateLimit: windows follow one another, and all limiters share  *)
(* one record, which only makes each of them stricter).                    *)
WindowBudget ==
    \A c \in Clients, l \in Limiters, from \in 0..MaxTime :
        Cardinality({i \in DOMAIN admitted[c] :
            admitted[c][i].by = l /\ admitted[c][i].at \in from..(from + Window - 1)}) <= 2 * MaxOf[l]

(* A claim whose key was let through before is let through again only      *)
(* after the key expired or Redis failed, or if it looked the key up       *)
(* before the other had marked it (idempotencyMiddleware).                 *)
DuplicatesOverlap ==
    lapses = 0 => \A r \in ClaimRequests : claimRequest[r].after = {}

(* No window lets through more than its budget, and of two claims with one *)
(* key one is refused unless they overlap.                                 *)
GateInv == GateTypeOK /\ WindowBudget /\ DuplicatesOverlap
=============================================================================
