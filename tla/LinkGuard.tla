----------------------------- MODULE LinkGuard -----------------------------
(* sanctum link: the sentinel that samples the Wi-Fi link, the verdict read   *)
(* from its log, and the enrolment of a node in a stable-MAC profile.         *)
(* (net/link.py, commands/link.py)                                            *)
(*                                                                            *)
(* The node may join another network, or rotate its address, between any two  *)
(* of the reads a command makes.  A sample is its line's kind; percentages    *)
(* are whole numbers.                                                         *)
EXTENDS Integers, Sequences, FiniteSets, FiniteSetsExt

CONSTANTS WifiNets,     \* networks the node can join
          Wpa3Nets,     \* those whose security is WPA3
          LogCap,       \* lines the sampler keeps (10000 in the code; bound)
          MaxDeeds      \* joins, rotations, samples and commands (bound)

ASSUME LinkAssumption == Wpa3Nets \subseteq WifiNets /\ LogCap \in Nat \ {0} /\ MaxDeeds \in Nat

\* What a ping window can log: fine, slow while idle, slow while busy, a stray
\* lost frame, no answer at all with its loss read or unread, no gateway.
LineKinds == {"ok", "spike", "busy", "stray", "dead", "unread", "NO_GATEWAY"}
Probes == {"IDENTITY_UNVERIFIED", "IDENTITY_QUARANTINED", "IDENTITY_ROTATING", "IDENTITY_STABLE"}

VARIABLES net, mac, arp, portable, settled,   \* the node; whether the router knows it
          pinned,                             \* networks whose profile was approved
          log,                                \* the sentinel's lines
          script, agent,                      \* the sampler's files; whether launchd runs it
          opt, seen, klass, ask,              \* optimize: its place, first probe, class, --force
          profile, shown, deeds
linkNode == <<net, mac, arp, portable, settled, pinned>>
sentinel == <<log, script, agent>>
optimize == <<opt, seen, klass, ask>>
linkVars == <<linkNode, sentinel, optimize, profile, shown, deeds>>

Nothing == "none"
NoProfile == [ssid |-> Nothing, enc |-> Nothing]
Deeds == deeds < MaxDeeds /\ deeds' = deeds + 1

---------------------------------------------------------------------------
\* The log and its verdict.

Latency == [k \in LineKinds |-> CASE k \in {"ok", "stray"} -> 10 [] k \in {"spike", "busy"} -> 40
                                  [] OTHER -> 9999]
Busy == [k \in LineKinds |-> IF k = "busy" THEN 3 ELSE 1]
Degraded(k) == k \notin {"ok", "NO_GATEWAY"}

\* The kinds of the lines the parser keeps, each by its place in the log.
Kept(lines, dropped) == [i \in {j \in DOMAIN lines : lines[j].kind \notin dropped} |-> lines[i].kind]

\* (mutant) a window without a round-trip line is skipped
ParseNumeric(lines) == Kept(lines, {"NO_GATEWAY", "dead", "unread"})

\* A line without a gateway carries no signal; one without a round trip is the
\* worst there is, its loss read on its own channel.
parse_log(lines) == Kept(lines, {"NO_GATEWAY"})

\* The loss of every window together: all of it in one that nothing came back
\* in, read or not; a stray frame otherwise.
Count(s, K) == Cardinality({i \in DOMAIN s : s[i] \in K})
Loss(s) == 100 * Count(s, {"dead", "unread"}) + 5 * Count(s, {"stray"})

Total(f, s) == MapThenSumSet(LAMBDA i : f[s[i]], DOMAIN s)

\* cov / sqrt(vx * vy) >= 0.5, multiplied out.
_pearson(s) ==
    LET n == Cardinality(DOMAIN s)
        dev(f, i) == n * f[s[i]] - Total(f, s)
        cov == MapThenSumSet(LAMBDA i : dev(Latency, i) * dev(Busy, i), DOMAIN s)
        spread(f) == MapThenSumSet(LAMBDA i : dev(f, i) * dev(f, i), DOMAIN s)
    IN /\ n >= 2 /\ spread(Latency) # 0 /\ spread(Busy) # 0
       /\ cov > 0 /\ 4 * cov * cov >= spread(Latency) * spread(Busy)

\* Load in the slow windows at least 1.3 times that in the others.
_busier(s) ==
    LET slow == {i \in DOMAIN s : Degraded(s[i])}
        fine == DOMAIN s \ slow
        load(I) == MapThenSumSet(LAMBDA i : Busy[s[i]], I)
    IN fine # {} /\ 10 * load(slow) * Cardinality(fine) >= 13 * load(fine) * Cardinality(slow)

classify(s) ==
    LET n == Cardinality(DOMAIN s)
        slow == Cardinality({i \in DOMAIN s : Degraded(s[i])})
    IN CASE n = 0 -> "NO_DATA"
         [] n > 0 /\ Loss(s) > n -> "RADIO"
         [] n > 0 /\ Loss(s) <= n /\ 5 * slow < n -> "HEALTHY"
         [] OTHER -> IF _pearson(s) \/ _busier(s) THEN "LOAD" ELSE "SCAN"

---------------------------------------------------------------------------
\* Who the node is: the four reads of one probe, made together.

lan_dead == arp = "FALSE"
diagnose_identity ==
    CASE net = Nothing -> "IDENTITY_UNVERIFIED"
      [] net # Nothing /\ mac = "private" /\ lan_dead -> "IDENTITY_QUARANTINED"
      [] net # Nothing /\ mac = "private" /\ ~lan_dead -> "IDENTITY_ROTATING"
      [] OTHER -> "IDENTITY_STABLE"

_enc_from_security(n) == IF n \in Wpa3Nets THEN "WPA3" ELSE "WPA2"

probe_identity == [verdict |-> diagnose_identity, ssid |-> net,
                   enc |-> IF net = Nothing THEN "WPA2" ELSE _enc_from_security(net)]

\* (mutant) a model that cannot be read is taken for a desktop
SignalsHopeful(missed) ==
    [is_portable |-> portable /\ "model" \notin missed,
     fixed |-> settled /\ ~({"uptime", "address"} \subseteq missed),
     ssids |-> IF "log" \in missed \/ log = <<>> THEN 1 ELSE Cardinality({log[i].ssid : i \in DOMAIN log})]

\* Host signals, any of which may not be read: the model's absence says
\* portable, the uptime's and the address's say recent and leased; a missing log
\* says one network.
_node_signals(missed) ==
    [is_portable |-> portable \/ "model" \in missed,
     fixed |-> settled /\ ~({"uptime", "address"} \subseteq missed),
     ssids |-> IF "log" \in missed \/ log = <<>> THEN 1 ELSE Cardinality({log[i].ssid : i \in DOMAIN log})]

SSID_SERVER_MAX == 3
SSID_ROAMER_THRESHOLD == 5
classify_node(sig) ==
    CASE sig.is_portable \/ sig.ssids > SSID_ROAMER_THRESHOLD -> "ROAMER"
      [] ~sig.is_portable /\ sig.fixed /\ sig.ssids <= SSID_SERVER_MAX -> "SERVER"
      [] OTHER -> "UNKNOWN"

---------------------------------------------------------------------------
LinkInit ==
    /\ net \in WifiNets /\ mac = "private" /\ arp = "TRUE"
    /\ portable \in BOOLEAN /\ settled \in BOOLEAN /\ pinned = {}
    /\ log = <<>> /\ script = FALSE /\ agent = FALSE
    /\ opt = "idle" /\ seen = [verdict |-> "IDENTITY_UNVERIFIED", ssid |-> Nothing, enc |-> "WPA2"]
    /\ klass = "UNKNOWN" /\ ask = FALSE
    /\ profile = NoProfile /\ shown = Nothing /\ deeds = 0

\* The world: the node joins a network, or its address rotates, and the router
\* knows it (its ARP entry verified, its gateway answering) or not; macOS takes the profile for the network it names.
Join(n, t) ==
    /\ Deeds /\ n # net /\ net' = n
    /\ mac' = IF n \in pinned THEN "hw" ELSE "private"
    /\ arp' = IF n = Nothing THEN "NA" ELSE t
    /\ UNCHANGED <<portable, settled, pinned, sentinel, optimize, profile, shown>>

Approve ==
    /\ Deeds /\ profile # NoProfile /\ net = profile.ssid /\ mac' = "hw" /\ arp' = "TRUE"
    /\ pinned' = pinned \cup {net}
    /\ UNCHANGED <<net, portable, settled, sentinel, optimize, profile, shown>>

\* (mutant) the log is never cut back
SampleUncapped(k) ==
    /\ Deeds /\ script /\ agent
    /\ net = Nothing => k = "NO_GATEWAY"
    /\ log' = Append(log, [ssid |-> net, kind |-> k])
    /\ UNCHANGED <<linkNode, script, agent, optimize, profile, shown>>

\* The sampler, once per interval, and its cap.
Sample(k) ==
    /\ Deeds /\ script /\ agent
    /\ net = Nothing => k = "NO_GATEWAY"
    /\ LET all == Append(log, [ssid |-> net, kind |-> k])
       IN log' = IF Len(all) > LogCap THEN Tail(all) ELSE all
    /\ UNCHANGED <<linkNode, script, agent, optimize, profile, shown>>

\* The files are the contract; the load that follows is best-effort, and boots
\* the running instance out first.
link_install(written, booted) ==
    /\ Deeds /\ opt = "idle"
    /\ script' = (script \/ "script" \in written)
    /\ agent' = IF "plist" \in written THEN booted ELSE agent
    /\ shown' = IF "plist" \in written THEN "installed" ELSE "error"
    /\ UNCHANGED <<linkNode, log, optimize, profile>>

link_status ==
    /\ Deeds /\ opt = "idle"
    /\ shown' = IF log = <<>> THEN "NO_DATA" ELSE classify(parse_log(log))
    /\ UNCHANGED <<linkNode, sentinel, optimize, profile>>

\* --verify: one fresh probe.
_render_verify ==
    /\ Deeds /\ opt = "idle"
    /\ shown' = IF mac = "hw" /\ net # Nothing /\ arp = "TRUE" THEN "verified" ELSE "not verified"
    /\ UNCHANGED <<linkNode, sentinel, optimize, profile>>

\* --apply: the identity probe, ...
link_optimize(force) ==
    /\ Deeds /\ opt = "idle" /\ opt' = "signals" /\ seen' = probe_identity /\ ask' = force
    /\ UNCHANGED <<linkNode, sentinel, klass, profile, shown>>

\* ... the host's signals, ...
_signals(missed) ==
    /\ opt = "signals" /\ opt' = "wifi" /\ klass' = classify_node(_node_signals(missed))
    /\ UNCHANGED <<linkNode, sentinel, seen, ask, profile, shown, deeds>>

Enrolls == ask \/ (klass = "SERVER" /\ seen.verdict \in {"IDENTITY_QUARANTINED", "IDENTITY_ROTATING"})

\* ... then a second probe, whose network and address the profile names, while
\* its encryption is the first's.
_write_profile(wrote) ==
    /\ opt = "wifi" /\ opt' = "idle"
    /\ LET writes == Enrolls /\ net # Nothing /\ wrote
       IN /\ profile' = IF writes THEN [ssid |-> net, enc |-> seen.enc] ELSE profile
          /\ shown' = CASE writes -> "profile" [] Enrolls /\ ~writes -> "error" [] ~Enrolls -> "opt-in"
    /\ UNCHANGED <<linkNode, sentinel, seen, klass, ask, deeds>>

LinkNext ==
    \/ \E n \in WifiNets \cup {Nothing}, t \in {"TRUE", "FALSE"} : Join(n, t)
    \/ Approve \/ link_status \/ _render_verify
    \/ \E k \in LineKinds : Sample(k)
    \/ \E w \in {{}, {"script"}, {"script", "plist"}}, b \in BOOLEAN : link_install(w, b)
    \/ \E f \in BOOLEAN : link_optimize(f) \/ _write_profile(f)
    \/ \E m \in SUBSET {"model", "uptime", "address", "log"} : _signals(m)

---------------------------------------------------------------------------
LinkTypeOK ==
    /\ net \in WifiNets \cup {Nothing} /\ mac \in {"hw", "private"} /\ arp \in {"TRUE", "FALSE", "NA"}
    /\ Len(log) <= LogCap /\ \A i \in DOMAIN log : log[i].kind \in LineKinds
    /\ opt \in {"idle", "signals", "wifi"} /\ seen.verdict \in Probes
    /\ klass \in {"SERVER", "ROAMER", "UNKNOWN"}
    /\ profile # NoProfile => profile.ssid \in WifiNets /\ profile.enc \in {"WPA2", "WPA3"}

\* What status says of a log with a window in which nothing came back: never
\* that the link is healthy, busy or that there is nothing to say.  Such a window
\* has no round-trip line, and the parser must count it all the same (at most 99
\* windows: one dead one of more than that is under the noise floor).
DeadLinkIsNeverHealthy ==
    (Len(log) < 100 /\ \E i \in DOMAIN log : log[i].kind \in {"dead", "unread"})
        => classify(parse_log(log)) = "RADIO"

\* A portable node is never pinned unless its owner asked with --force, however
\* few of its signals could be read.
PortableIsAsked == [][profile' # profile => (ask \/ ~portable)]_linkVars

\* The profile written carries the encryption of the network it names.
ProfileFitsItsNetwork == profile # NoProfile => profile.enc = _enc_from_security(profile.ssid)
=============================================================================
