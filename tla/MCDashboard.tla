---------------------------- MODULE MCDashboard ----------------------------
(* Small instance of Dashboard, with the layout's own minima: streams that *)
(* fill the feed, the history and the story in different orders.           *)
EXTENDS Dashboard

Bash == <<"bash", 100>>
Sudo == <<"sudo", 100>>
Perl == <<"perl", 7>>

MCProcWidth == (Bash :> 9) @@ (Sudo :> 9) @@ (Perl :> 7)

Alert(rule, sev, proc, tactics, steps) ==
    [rule |-> rule, sev |-> sev, proc |-> proc, tactics |-> tactics, steps |-> steps,
     event |-> steps = 0]

Low == Alert("sensitive-file-access", 0, Perl, {4}, 0)
High == Alert("reverse-shell", 2, Bash, {1, 5}, 0)
Setuid == Alert("privilege-escalation", 1, Sudo, {2, 3}, 0)
Chain(n) == Alert("attack-chain", 3, Bash, {}, n)

Repeat(a, n) == [i \in 1..n |-> a]

\* Stories long and short, a full feed, a history full of alerts that are
\* not shown, and an alert of a rule that is not in the list.
MCStreams ==
    {<<High, Chain(9), Quiet, Setuid, High, High, Chain(2)>>,
     <<High, Chain(3), Quiet, Setuid>> \o Repeat(Low, 4) \o <<Alert("extra", 2, Perl, {}, 0)>>}

MCRules == {"privilege-escalation", "sensitive-file-access", "process-injection",
            "reverse-shell", "attack-chain"}
=============================================================================
