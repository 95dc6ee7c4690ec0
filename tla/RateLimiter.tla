---------------------------- MODULE RateLimiter ----------------------------
(***************************************************************************)
(* The in-memory sliding-window limiter of services/rate_limit.py, as the  *)
(* intake route of api/routes/intake.py uses it.  The route is a coroutine *)
(* that does not await between reading its address and recording the       *)
(* request, so one check is one step.                                      *)
(*                                                                         *)
(* Time is counted in ticks, Second of them to a second.  A stored time is *)
(* the number of ticks since it, no longer counted beyond the longest      *)
(* window, so that the clock needs no bound.                               *)
(***************************************************************************)
EXTENDS Naturals, Sequences, FiniteSets

CONSTANTS
    Clients,        \* addresses of clients
    Proxy,          \* the address of the trusted proxy
    Emails,         \* normalised addresses: a form without one is refused before
    NoHeader,       \* no usable forwarding header
    Configurations, \* [enabled, ip, email, global]: what the limits may be set to
    Second,         \* ticks in a second
    Minute, Hour,   \* the windows, in seconds
    MaxLog          \* bound: accepted requests remembered at a time

ASSUME LimiterAssumption ==
    /\ Second \in Nat \ {0} /\ Minute \in Nat \ {0} /\ Hour \in Nat \ {0}
    /\ Minute <= Hour
    /\ Proxy \notin Clients /\ NoHeader \notin Clients
    /\ Configurations \subseteq
          [enabled : BOOLEAN, ip : Nat, email : Nat, global : Nat]

VARIABLES
    config, \* the limits of this process
    events, \* _events: per key, the age of each recorded request, oldest first
    log     \* history: the requests accepted since the start, oldest first

limiterVars == <<config, events, log>>

Addresses == Clients \cup {Proxy}
Keys == ({"ip"} \X Addresses) \cup ({"email"} \X Emails) \cup {<<"global", "all">>}

WindowSeconds(scope) == IF scope = "email" THEN Hour ELSE Minute
Window(scope) == WindowSeconds(scope) * Second
Longest == Hour * Second

Limit(scope) == config[scope]

Init ==
    /\ config \in Configurations
    /\ events = [k \in Keys |-> <<>>]
    /\ log = <<>>

-----------------------------------------------------------------------------
\* _client_ip: only a trusted proxy may say whom it forwards.
ClientIp(peer, header) ==
    IF peer = Proxy /\ header # NoHeader THEN header ELSE peer

\* _rules: the keys a request is charged to, in the order they are checked.
Rules(ip, email) ==
    <<<<"ip", ip>>, <<"email", email>>, <<"global", "all">>>>

\* How many of these ages, oldest first, are popped because they left the window.
Expired(ages, window) == CHOOSE n \in 0..Len(ages) :
    /\ \A i \in 1..n : ages[i] >= window
    /\ n < Len(ages) => ages[n + 1] < window

Unexpired(ages, window) == SubSeq(ages, Expired(ages, window) + 1, Len(ages))

\* What is left of a key's requests.
Fresh(key) == Unexpired(events[key], Window(key[1]))

\* Broken variant: one request too many.
FullLate(key) == Limit(key[1]) > 0 /\ Len(Fresh(key)) > Limit(key[1])
Full(key) == Limit(key[1]) > 0 /\ Len(Fresh(key)) >= Limit(key[1])

\* The first rule that denies, 0 if none does.
Denying(rules) ==
    IF \E i \in DOMAIN rules : Full(rules[i])
    THEN CHOOSE i \in DOMAIN rules :
            Full(rules[i]) /\ \A k \in 1..i-1 : ~Full(rules[k])
    ELSE 0

\* Broken variant: fractions of a second are cut off.
RetryAfterCut(key) ==
    LET left == (Window(key[1]) - Head(Fresh(key))) \div Second
    IN  IF left > 1 THEN left ELSE 1

\* retry_after_seconds: the time until the oldest request expires, rounded up.
RetryAfter(key) ==
    LET left == (Window(key[1]) - Head(Fresh(key)) + Second - 1) \div Second
    IN  IF left > 1 THEN left ELSE 1

\* Broken variant: every rule passed charges its key, also of a denied request.
ChargedAsPassed(rules) ==
    LET denied == Denying(rules)
        last == IF denied = 0 THEN Len(rules) ELSE denied
    IN  [k \in Keys |->
            IF Limit(k[1]) > 0 /\ \E i \in 1..last : rules[i] = k
            THEN IF \E i \in 1..last : rules[i] = k /\ i # denied
                 THEN Append(Fresh(k), 0) ELSE Fresh(k)
            ELSE events[k]]

\* check: each rule looked at drops what has expired; the request is recorded
\* under every key once no rule denies it.
Charged(rules) ==
    LET denied == Denying(rules)
        last == IF denied = 0 THEN Len(rules) ELSE denied
    IN  [k \in Keys |->
            IF Limit(k[1]) > 0 /\ \E i \in 1..last : rules[i] = k
            THEN IF denied = 0 THEN Append(Fresh(k), 0) ELSE Fresh(k)
            ELSE events[k]]

\* upload_volunteer_application, for a form that validate_intake accepted.
Request(peer, header, email) ==
    LET rules == Rules(ClientIp(peer, header), email)
    IN  /\ Len(log) < MaxLog
        /\ events' = IF config.enabled THEN Charged(rules) ELSE events
        /\ log' = IF config.enabled /\ Denying(rules) # 0 THEN log
                  ELSE Append(log, [from  |-> IF peer \in Clients \/ header = NoHeader
                                              THEN peer ELSE header,
                                    email |-> email, age |-> 0])
        /\ UNCHANGED config

\* The clock advances by a tick.
Tick ==
    /\ events' = [k \in Keys |->
                    [i \in DOMAIN events[k] |->
                        IF events[k][i] < Longest THEN events[k][i] + 1
                        ELSE Longest]]
    /\ LET older == [i \in DOMAIN log |-> [log[i] EXCEPT !.age = @ + 1]]
           n == Expired([i \in DOMAIN log |-> log[i].age + 1], Longest)
       IN  log' = SubSeq(older, n + 1, Len(older))
    /\ UNCHANGED config

\* The process restarts, with other limits perhaps: the counters are gone.
Restart ==
    /\ config' \in Configurations
    /\ events' = [k \in Keys |-> <<>>]
    /\ log' = <<>>

Next ==
    \/ \E peer \in Addresses, header \in Clients \cup {NoHeader},
          email \in Emails : Request(peer, header, email)
    \/ Tick
    \/ Restart

Spec == Init /\ [][Next]_limiterVars

-----------------------------------------------------------------------------
\* Whether an accepted request counts against a key.
Concerns(request, key) ==
    /\ key[1] = "ip" => request.from = key[2]
    /\ key[1] = "email" => request.email = key[2]

\* The accepted requests that a key's window covers.
Accepted(key) ==
    {i \in DOMAIN log : Concerns(log[i], key) /\ log[i].age < Window(key[1])}

Limited(key) == config.enabled /\ Limit(key[1]) > 0

\* Deques are sorted, never longer than their limit, and nothing is recorded
\* for a limit that is off.
LimiterTypeOK ==
    /\ config \in Configurations
    /\ \A k \in Keys :
          /\ events[k] \in Seq(0..Longest)
          /\ \A i, m \in DOMAIN events[k] : i < m => events[k][i] >= events[k][m]
          /\ Len(events[k]) <= IF Limited(k) THEN Limit(k[1]) ELSE 0

\* Whatever the requests, their addresses and their timing, no sender, email
\* address or process ever has more than its limit of requests accepted within
\* one window; and the limiter decides by the accepted requests alone: a request
\* is denied exactly when one of its keys has its fill of them, the first such
\* key is named, and requests that were denied have cost nobody anything.
WithinQuota ==
    /\ \A k \in Keys : Limited(k) => Cardinality(Accepted(k)) <= Limit(k[1])
    /\ config.enabled =>
         \A ip \in Addresses, email \in Emails :
           LET rules == Rules(ip, email)
               full == {i \in DOMAIN rules :
                          /\ Limited(rules[i])
                          /\ Cardinality(Accepted(rules[i])) >= Limit(rules[i][1])}
           IN  IF full = {} THEN Denying(rules) = 0
               ELSE Denying(rules) \in full /\ \A i \in full : Denying(rules) <= i

\* Retry-After keeps its word: whoever waits the seconds it names finds the
\* scope open if nobody else used it meanwhile, and one second less is too
\* early.
RetryAfterExact ==
    \A k \in Keys : config.enabled /\ Full(k) =>
        LET open(seconds) ==
                Cardinality({i \in Accepted(k) :
                               log[i].age + seconds * Second < Window(k[1])}) < Limit(k[1])
        IN  open(RetryAfter(k)) /\ ~open(RetryAfter(k) - 1)
=============================================================================
