---------------------------- MODULE CreditLedger ----------------------------
(***************************************************************************)
(* The prepaid credits of kore-api (middleware/credits.py, billing.py,     *)
(* routes/register.py, main.py).  railway.toml starts two uvicorn workers. *)
(* Each answers one request after the other, for no handler awaits while   *)
(* it accounts; between them the workers share two JSON files, balances    *)
(* and meters, which every change reads whole, opens (which empties it)    *)
(* and dumps.  A file that cannot be parsed reads as no file.  A dump goes *)
(* out block by block, each at the place its text has it, so that blocks   *)
(* of two dumps that overlap may end up in one text.                       *)
(*                                                                         *)
(* Stripe is external: it delivers a paid session to any worker, and again *)
(* as it is never answered 200.  The two services stand for those the      *)
(* routes name; none names one with a daily allowance or one that is free. *)
(* set_stripe_customer_id has no caller, so no call is metered to Stripe.  *)
(***************************************************************************)
EXTENDS Integers, Sequences, SequencesExt

CONSTANTS Workers,      \* processes of uvicorn
          Customers,    \* customer ids register.py draws
          Purchases,    \* checkout sessions
          FreeCredits, PackCredits,  \* PACKS: what a pack holds
          Cost,         \* SERVICE_COSTS: service -> credits
          QuotaLimit,   \* TIERS: calls in the month
          Garbled, GarbledCounts,    \* what the seam of two texts may read as
          MaxCalls,     \* bound: calls answered to a customer
          MaxSends,     \* bound: deliveries of one session
          MaxCrashes    \* bound: workers that die

ASSUME LedgerBounds ==
  /\ {FreeCredits, PackCredits, QuotaLimit, MaxCalls, MaxSends, MaxCrashes} \subseteq Nat
  /\ \A s \in DOMAIN Cost : Cost[s] \in Nat \ {0}
  /\ Garbled \subseteq [balance : Int, history : Seq(Int)] /\ GarbledCounts \subseteq Nat

VARIABLES balances,   \* credit_balances.json
          meters,     \* billing_state.json: the calls of the month
          texts,      \* the dumps whose blocks each file may hold
          job,        \* what each worker is at
          agents,     \* _agents of each worker: the customers whose key it knows
          session,    \* Stripe: a session's metadata, its deliveries
          crashes,
          registered, \* history: customers that were answered their key
          granted,    \* history: credits of completed add_credits
          charged,    \* history: credits of completed spend_credits
          served,     \* history: answered calls
          overlapped, \* history: two requests were in work, or one was cut off
          mingled     \* history: the balances were opened during another dump

fileVars == <<balances, meters, texts>>
moneyVars == <<granted, charged, served, registered>>
flagVars == <<overlapped, mingled>>
ledgerVars == <<fileVars, job, agents, session, crashes, moneyVars, flagVars>>

Unknown == "unknown"      \* the customer of a session without one
Anonymous == "anonymous"  \* the customer of a key a worker does not know
Accounts == Customers \cup {Unknown, Anonymous}
Services == DOMAIN Cost
Unreadable == [readable |-> FALSE]   \* missing, empty or no JSON
Saved(data) == [readable |-> TRUE, data |-> data]
Idle == [at |-> "idle"]
Nothing == <<>>          \* not read yet, or no part of the request
NoSession == [sends |-> 0]

(* _load_balances, _load_state; an account without entry has the empty one *)
NoEntry == [balance |-> 0, history |-> <<>>]
Load(file, empty) == IF file.readable THEN file.data ELSE empty
Ledger == Load(balances, [a \in Accounts |-> NoEntry])
Meter == Load(meters, [c \in Customers |-> 0])

\* A mutant of Moved: a charge is not written to the history.
MovedUnrecorded(ledger, a, delta) ==
  [ledger EXCEPT ![a] = [balance |-> @.balance + delta,
                         history |-> IF delta < 0 THEN @.history ELSE Append(@.history, delta)]]

(* add_credits and spend_credits on the entry they loaded                  *)
Moved(ledger, a, delta) ==
  [ledger EXCEPT ![a] = [balance |-> @.balance + delta, history |-> Append(@.history, delta)]]

(* What a file may read as that holds blocks of these dumps: an entry is   *)
(* that of one of them, missing, or what the seam of two texts makes of it.*)
Mixtures(dumps, keys, seam) ==
  LET entries(k) == {d[2][k] : d \in dumps} \cup seam IN
  {Saved(m) : m \in {n \in [keys -> UNION {entries(k) : k \in keys}] :
                       \A k \in keys : n[k] \in entries(k)}}
(* In the midst of a dump, and at its end                                  *)
Blocks(dumps, keys, seam) ==
  {Unreadable} \cup (IF \E d, e \in dumps : d # e THEN Mixtures(dumps, keys, seam) ELSE {})
Dumped(dumps, data, keys, seam) ==
  {Saved(data)} \cup (IF \E d, e \in dumps : d # e THEN Blocks(dumps, keys, seam) ELSE {})

LedgerInit ==
  /\ balances = Unreadable /\ meters = Unreadable /\ texts = [balances |-> {}, meters |-> {}]
  /\ job = [w \in Workers |-> Idle] /\ agents = [w \in Workers |-> {}]
  /\ session = [p \in Purchases |-> NoSession] /\ crashes = 0 /\ registered = {}
  /\ granted = [a \in Accounts |-> 0] /\ charged = [c \in Customers |-> 0]
  /\ served = [c \in Customers |-> 0]
  /\ overlapped = FALSE /\ mingled = FALSE

-----------------------------------------------------------------------------
(* A request that has read nothing yet but the meter it was checked by; of *)
(* is the service that is called or the session that was paid.             *)
Request(kind, who, of, meter) ==
  [at |-> "load", kind |-> kind, who |-> who, of |-> of, meter |-> meter, ledger |-> Nothing]
InWork(who) == \E w \in Workers : job[w] # Idle /\ job[w].who = who
Begins(w, request) ==
  /\ job[w] = Idle /\ job' = [job EXCEPT ![w] = request]
  /\ overlapped' = (overlapped \/ \E v \in Workers : job[v] # Idle) /\ UNCHANGED mingled

(* register_agent draws a fresh id, which activate_free_tier does not find.*)
Register(w, c) ==
  /\ c \notin registered /\ ~InWork(c) /\ Begins(w, Request("register", c, Nothing, Nothing))
  /\ UNCHANGED <<fileVars, agents, session, crashes, moneyVars>>

\* A mutant of CheckAndRecord: one call beyond the quota.
CheckAndRecordLate(w, c, s) ==
  /\ c \in agents[w] /\ Meter[c] <= QuotaLimit /\ served[c] < MaxCalls
  /\ Begins(w, Request("call", c, s, Meter))
  /\ UNCHANGED <<fileVars, agents, session, crashes, moneyVars>>

(* check_and_record up to the quota; another worker's key is refused.      *)
CheckAndRecord(w, c, s) ==
  /\ c \in agents[w] /\ Meter[c] < QuotaLimit /\ served[c] < MaxCalls
  /\ Begins(w, Request("call", c, s, Meter))
  /\ UNCHANGED <<fileVars, agents, session, crashes, moneyVars>>

(* The webhook: the pack of a session, for the customer of its metadata.   *)
StripeWebhook(w, p) ==
  /\ session[p] # NoSession /\ session[p].sends < MaxSends
  /\ session' = [session EXCEPT ![p].sends = @ + 1]
  /\ Begins(w, Request("purchase", session[p].customer, p, Nothing))
  /\ UNCHANGED <<fileVars, agents, crashes, moneyVars>>

(* buy_pack, and the payment: a payment link carries no customer; only if  *)
(* Stripe refuses the link, a session names the customer of the key.       *)
BuyPack(w, c, p) ==
  /\ job[w] = Idle /\ c \in registered /\ session[p] = NoSession
  /\ \E customer \in {Unknown, IF c \in agents[w] THEN c ELSE Anonymous} :
       session' = [session EXCEPT ![p] = [sends |-> 0, customer |-> customer]]
  /\ UNCHANGED <<fileVars, job, agents, crashes, moneyVars, flagVars>>

-----------------------------------------------------------------------------
(* What add_credits grants.                                                *)
Amount(j) == IF j.kind = "register" THEN FreeCredits ELSE PackCredits

LoadToAdd(w) ==
  LET j == job[w] IN
  /\ j.at = "load" /\ j.kind \in {"register", "purchase"}
  /\ job' = [job EXCEPT ![w] = [j EXCEPT !.at = "open",
                                        !.ledger = Moved(Ledger, j.who, Amount(j))]]
  /\ UNCHANGED <<fileVars, agents, session, crashes, moneyVars, flagVars>>

\* A mutant of LoadToSpend: the charge is credited.
LoadToSpendBack(w) ==
  LET j == job[w] IN
  /\ j.at = "load" /\ j.kind = "call"
  /\ job' = [job EXCEPT ![w] =
               IF Ledger[j.who].balance < Cost[j.of] THEN Idle
               ELSE [j EXCEPT !.at = "open", !.ledger = Moved(Ledger, j.who, Cost[j.of])]]
  /\ UNCHANGED <<fileVars, agents, session, crashes, moneyVars, flagVars>>

(* spend_credits; too few are answered 429, and nothing is saved.          *)
LoadToSpend(w) ==
  LET j == job[w] IN
  /\ j.at = "load" /\ j.kind = "call"
  /\ job' = [job EXCEPT ![w] =
               IF Ledger[j.who].balance < Cost[j.of] THEN Idle
               ELSE [j EXCEPT !.at = "open",
                              !.ledger = Moved(Ledger, j.who, -Cost[j.of])]]
  /\ UNCHANGED <<fileVars, agents, session, crashes, moneyVars, flagVars>>

(* _save_balances.  Opening empties the file; the dumps under way go on at *)
(* their own places in it.                                                 *)
OpenBalances(w) ==
  /\ job[w].at = "open" /\ balances' = Unreadable
  /\ LET dumping == {v \in Workers : job[v].at = "dump"} IN
     /\ texts' = [texts EXCEPT !.balances = {<<v, job[v].ledger>> : v \in dumping \cup {w}}]
     /\ mingled' = (mingled \/ dumping # {})
  /\ job' = [job EXCEPT ![w].at = "dump"]
  /\ UNCHANGED <<meters, agents, session, crashes, moneyVars, overlapped>>

(* A block of the dump goes out, and is not the last.                      *)
WriteBalances(w) ==
  /\ job[w].at = "dump"
  /\ balances' \in Blocks(texts.balances, Accounts, Garbled \cup {NoEntry})
  /\ UNCHANGED <<meters, texts, job, agents, session, crashes, moneyVars, flagVars>>

SaveBalances(w, kind) ==
  /\ job[w].at = "dump" /\ job[w].kind = kind
  /\ balances' \in Dumped(texts.balances, job[w].ledger, Accounts, Garbled \cup {NoEntry})

(* The key is known to the worker that drew it.                            *)
Registered(w) ==
  LET c == job[w].who IN
  /\ SaveBalances(w, "register") /\ job' = [job EXCEPT ![w] = Idle]
  /\ agents' = [agents EXCEPT ![w] = @ \cup {c}] /\ registered' = registered \cup {c}
  /\ granted' = [granted EXCEPT ![c] = @ + FreeCredits]
  /\ UNCHANGED <<meters, texts, session, crashes, charged, served, flagVars>>

(* The handler logs with a name main.py does not define: it answers 500.   *)
Purchased(w) ==
  /\ SaveBalances(w, "purchase") /\ job' = [job EXCEPT ![w] = Idle]
  /\ granted' = [granted EXCEPT ![job[w].who] = @ + PackCredits]
  /\ UNCHANGED <<meters, texts, agents, session, crashes, charged, served, registered, flagVars>>

Charged(w) ==
  /\ SaveBalances(w, "call") /\ job' = [job EXCEPT ![w].at = "open_meter"]
  /\ charged' = [charged EXCEPT ![job[w].who] = @ + Cost[job[w].of]]
  /\ UNCHANGED <<meters, texts, agents, session, crashes, granted, served, registered, flagVars>>

(* _save_state of what check_and_record loaded before it spent             *)
Recorded(j) == [j.meter EXCEPT ![j.who] = @ + 1]

OpenMeters(w) ==
  /\ job[w].at = "open_meter" /\ meters' = Unreadable
  /\ LET dumping == {v \in Workers : job[v].at = "dump_meter"} IN
     texts' = [texts EXCEPT !.meters = {<<v, Recorded(job[v])>> : v \in dumping \cup {w}}]
  /\ job' = [job EXCEPT ![w].at = "dump_meter"]
  /\ UNCHANGED <<balances, agents, session, crashes, moneyVars, flagVars>>

WriteMeters(w) ==
  /\ job[w].at = "dump_meter"
  /\ meters' \in Blocks(texts.meters, Customers, GarbledCounts \cup {0})
  /\ UNCHANGED <<balances, texts, job, agents, session, crashes, moneyVars, flagVars>>

Served(w) ==
  /\ job[w].at = "dump_meter" /\ job' = [job EXCEPT ![w] = Idle]
  /\ meters' \in Dumped(texts.meters, Recorded(job[w]), Customers, GarbledCounts \cup {0})
  /\ served' = [served EXCEPT ![job[w].who] = @ + 1]
  /\ UNCHANGED <<balances, texts, agents, session, crashes, granted, charged, registered, flagVars>>

(* restartPolicyType "always": the worker's memory is lost, and the rest   *)
(* of a dump it was at.                                                    *)
Crash(w) ==
  /\ crashes < MaxCrashes /\ crashes' = crashes + 1
  /\ job' = [job EXCEPT ![w] = Idle] /\ agents' = [agents EXCEPT ![w] = {}]
  /\ overlapped' = (overlapped \/ job[w] # Idle) /\ UNCHANGED mingled
  /\ UNCHANGED <<fileVars, session, moneyVars>>

WorkerStep(w) ==
  \/ LoadToAdd(w) \/ LoadToSpend(w) \/ OpenBalances(w) \/ WriteBalances(w)
  \/ Registered(w) \/ Purchased(w) \/ Charged(w)
  \/ OpenMeters(w) \/ WriteMeters(w) \/ Served(w)

LedgerNext ==
  \E w \in Workers :
    \/ WorkerStep(w) \/ Crash(w)
    \/ \E c \in Customers : Register(w, c)
    \/ \E c \in Customers, s \in Services : CheckAndRecord(w, c, s)
    \/ \E p \in Purchases : StripeWebhook(w, p)
    \/ \E c \in Customers, p \in Purchases : BuyPack(w, c, p)

LedgerSpec == LedgerInit /\ [][LedgerNext]_ledgerVars

-----------------------------------------------------------------------------
(* Without a lock requests lose one another's updates, and a worker may    *)
(* die in a dump.  Still, as long as no two dumps of the balances overlap, *)
(* what is on file of an account is a history of its own: the balance is   *)
(* the sum of it and never negative.  With two dumps in one text all of it *)
(* may fail: credits.py takes whatever parses for the truth.               *)
BalanceIsHistory ==
  ~mingled => \A a \in Accounts :
    LET e == Ledger[a] IN e.balance = FoldSeq(+, 0, e.history) /\ e.balance >= 0

(* Nor does a lost update ever make credits: charges may be lost, but an   *)
(* account has no more on file than it was granted.                        *)
CreditsWereGranted == ~mingled => \A a \in Accounts : Ledger[a].balance <= granted[a]

Quiet == \A w \in Workers : job[w] = Idle

(* As long as no two requests were in work at once and none was cut off,   *)
(* the file holds between requests every grant and every charge, and the   *)
(* meter every call that was answered, none beyond the quota.  With an     *)
(* overlap all of this fails: there is no lock.                            *)
LedgerIsComplete ==
  Quiet /\ ~overlapped =>
    /\ \A c \in Customers : Ledger[c].balance = granted[c] - charged[c]
    /\ \A a \in Accounts \ Customers : Ledger[a].balance = granted[a]
    /\ \A c \in Customers : Meter[c] = served[c] /\ served[c] <= QuotaLimit
=============================================================================
