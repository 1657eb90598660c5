-------------------------------- MODULE Routing --------------------------------
(***************************************************************************)
(* Which host name the web server answers how, before and after HTTPS is   *)
(* set up (install/vhost.rs).  A site is [domain, www, web] of the plan; a *)
(* server block answers its hosts on its port with the application (to =   *)
(* Here) or with a redirect to an address, and on port 80 it may serve the *)
(* challenge of the certificate authority first.                           *)
(***************************************************************************)
EXTENDS Integers, SequencesExt

IsWww(d) == d[1] = "www"
Www(d) == <<"www", ".">> \o d

Address(scheme, host) == [scheme |-> scheme, host |-> host]
Here == Address("here", <<>>)

Block(port, hosts, to, challenge) ==
    [port |-> port, hosts |-> hosts, to |-> to, challenge |-> challenge]

CertificateHosts(site) ==
    {site.domain}
    \cup (IF site.www # "none" /\ ~IsWww(site.domain) THEN {Www(site.domain)} ELSE {})

\* Slip: the application answers on the name itself in every mode but include.
AppHostsPlain(site) ==
    {site.domain} \cup (IF site.www = "include" /\ ~IsWww(site.domain) THEN {Www(site.domain)} ELSE {})

\* nginx_app_hosts and apache_app_hosts
AppHosts(site) ==
    IF IsWww(site.domain) \/ site.www \in {"redirect-to-root", "none"} THEN {site.domain}
    ELSE IF site.www = "redirect-to-www" THEN {Www(site.domain)}
    ELSE {site.domain, Www(site.domain)}

PrimaryHost(site) ==
    IF site.www = "redirect-to-www" /\ ~IsWww(site.domain) THEN Www(site.domain)
    ELSE site.domain

\* The block that sends the other of the two names to the canonical one; only
\* on port 80 does it serve the challenge.
CanonicalRedirect(site, port, scheme) ==
    IF IsWww(site.domain) THEN {}
    ELSE CASE site.www = "redirect-to-root" ->
                {Block(port, {Www(site.domain)}, Address(scheme, site.domain), port = 80)}
           [] site.www = "redirect-to-www" ->
                {Block(port, {site.domain}, Address(scheme, Www(site.domain)), port = 80)}
           [] OTHER -> {}

\* Apache has no rule for the challenge here: it is a file below the root.
HttpBlocks(site) ==
    CanonicalRedirect(site, 80, "http") \cup {Block(80, AppHosts(site), Here, TRUE)}

\* Nginx sends plain requests to the primary host, Apache to the host asked for.
PlainRedirects(site) ==
    IF site.web = "apache"
      THEN {Block(80, {h}, Address("https", h), TRUE) :
              h \in CertificateHosts(site) \cup {PrimaryHost(site)}}
      ELSE {Block(80, CertificateHosts(site), Address("https", PrimaryHost(site)), TRUE)}

TlsBlocks(site) ==
    PlainRedirects(site) \cup CanonicalRedirect(site, 443, "https")
    \cup {Block(443, AppHosts(site), Here, FALSE)}

---------------------------------------------------------------------------

PortOf(scheme) == IF scheme = "https" THEN 443 ELSE 80

Answering(blocks, a) == {b \in blocks : b.port = PortOf(a.scheme) /\ a.host \in b.hosts}

\* Where a client that asked for a is sent by one answer; a name nobody answers
\* for, and the application, are ends.
Follow(blocks, a) ==
    IF a # Here /\ Answering(blocks, a) # {}
      THEN (CHOOSE b \in Answering(blocks, a) : TRUE).to ELSE a

Reaches(blocks, a) == Follow(blocks, Follow(blocks, Follow(blocks, a))) = Here

Unambiguous(blocks) ==
    \A b, c \in blocks : b # c /\ b.port = c.port => b.hosts \cap c.hosts = {}

\* The certificate can be issued and renewed: the authority's request for every
\* name on it is answered by a block that serves the challenge.
ChallengeServed(site, blocks) ==
    \A h \in CertificateHosts(site) : \E b \in Answering(blocks, Address("http", h)) : b.challenge

===============================================================================
