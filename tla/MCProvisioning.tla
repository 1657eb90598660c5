---------------------------- MODULE MCProvisioning ----------------------------
(***************************************************************************)
(* Provisioning on small sets of servers and options.                      *)
(***************************************************************************)
EXTENDS Provisioning

Good ==
    [mem |-> 2048, available |-> 1500, swapped |-> 0, vcpu |-> 2, disk |-> 20480,
     inodes |-> 50, root |-> TRUE, ubuntu |-> TRUE, nginx |-> "inactive",
     apache |-> "inactive", port80 |-> "free", port443 |-> "free",
     nginxsites |-> "empty", apachesites |-> "empty", testroot |-> FALSE, traces |-> {},
     mysqldata |-> "empty", certificates |-> FALSE, swapfile |-> {},
     dns |-> "here", installed |-> {"curl", "ca-certificates"}, auto |-> {}, needs |-> {},
     archive |-> [php |-> {"8.3"}, mysql |-> "8.0"]]

\* A server with packages on it, some brought by others and one of no use now.
Lived ==
    [Good EXCEPT !.installed = @ \cup {"mysql-server", "certbot", "software-properties-common",
                                       "python3-certbot", "libcurl", "old-library"},
                 !.auto = {"ca-certificates", "python3-certbot", "libcurl", "old-library"},
                 !.needs = {<<"curl", "libcurl">>, <<"curl", "ca-certificates">>,
                            <<"libcurl", "ca-certificates">>, <<"certbot", "python3-certbot">>}]

\* Both sides of every border between the tiers, and of what doctor admits.
Memories == {899, 900, 1024, 1536, 1537, 3072, 3073, 6144, 6145, 12288, 12289, 24576,
             24577, 32768, 32769, 65536, 131072, 1048576}
Sized == {[Good EXCEPT !.mem = m, !.vcpu = v] : m \in Memories, v \in {1, 2, 8, 1023, 1024}}

\* A good server with one thing different.
Odd ==
    {[Good EXCEPT !.mem = Unread], [Good EXCEPT !.available = 127],
     [Good EXCEPT !.available = 127, !.swapped = 512], [Good EXCEPT !.vcpu = Unread],
     [Good EXCEPT !.disk = 6143], [Good EXCEPT !.disk = 6144, !.mem = 16384],
     [Good EXCEPT !.disk = Unread], [Good EXCEPT !.inodes = 4], [Good EXCEPT !.root = FALSE],
     [Good EXCEPT !.ubuntu = FALSE], [Good EXCEPT !.testroot = TRUE],
     [Good EXCEPT !.traces = {"state"}], [Good EXCEPT !.traces = {"owned"}],
     [Good EXCEPT !.certificates = TRUE], [Good EXCEPT !.dns = "elsewhere"],
     [Good EXCEPT !.swapfile = {"file", "signature", "on"}],
     [Good EXCEPT !.swapfile = {"file"}],
     [Good EXCEPT !.archive.php = {"8.5"}, !.archive.mysql = "8.4"],
     Lived}
    \cup {[Good EXCEPT !.nginx = s] : s \in Service}
    \cup {[Good EXCEPT !.apache = s] : s \in Service}
    \cup {[Good EXCEPT !.port80 = p] : p \in Port} \cup {[Good EXCEPT !.port443 = p] : p \in Port}
    \cup {[Good EXCEPT !.nginxsites = d] : d \in Folder}
    \cup {[Good EXCEPT !.apachesites = d] : d \in Folder}
    \cup {[Good EXCEPT !.mysqldata = d] : d \in Folder}

Given == [domain |-> <<"example", ".", "com">>] @@ Defaults

\* Options with one thing different, and a few with two.
Singles ==
    {[Given EXCEPT !.domain = d] :
       d \in {<<"www", ".", "example", ".", "com">>, <<"my", "-", "site", ".", "io">>,
              <<"localhost">>, <<>>}}
    \cup {[Given EXCEPT !.web = w] : w \in WebServers \cup {"caddy"}}
    \cup {[Given EXCEPT !.php = "8.3", !.source = s] : s \in PhpSources}
    \cup {[Given EXCEPT !.source = s] : s \in PhpSources}
    \cup {[Given EXCEPT !.app = a] : a \in DOMAIN Profiles}
    \cup {[Given EXCEPT !.app = a, !.web = "frankenphp"] : a \in DOMAIN Profiles}
    \cup {[Given EXCEPT !.www = w] : w \in WwwModes}
    \cup {[Given EXCEPT !.www = w, !.web = "apache"] : w \in WwwModes}
    \cup {[Given EXCEPT !.domain = <<"www", ".", "example", ".", "com">>, !.www = w] : w \in WwwModes}
    \cup {[Given EXCEPT !.rootmode = r] : r \in RootModes}
    \cup {[Given EXCEPT !.custom = <<"/", "srv", "/", "g7">>],
          [Given EXCEPT !.custom = <<"/", "srv", "/", "..">>],
          [Given EXCEPT !.custom = <<"/", "srv", "/", "g7">>, !.rootmode = "custom"],
          [Given EXCEPT !.local = TRUE], [Given EXCEPT !.redis = FALSE],
          [Given EXCEPT !.dns = FALSE], [Given EXCEPT !.dbver = "8.4"],
          [Given EXCEPT !.user = <<"shop">>], [Given EXCEPT !.user = <<"my", "-", "shop">>],
          [Given EXCEPT !.user = <<"-", "shop">>], [Given EXCEPT !.userpw = "bad"],
          [Given EXCEPT !.dbpw = "good"], [Given EXCEPT !.dbname = <<"shop", "_", "db">>],
          [Given EXCEPT !.dbuser = <<"a", "-", "b">>],
          [Given EXCEPT !.mail = "local-postfix"], [Given EXCEPT !.mail = "smtp-relay"],
          [Given EXCEPT !.mail = "local-postfix", !.port = 465, !.encryption = "tls"],
          [Given EXCEPT !.mail = "smtp-relay", !.smtp = "good", !.smtppw = "good"]}

\* Servers that answer to some option: other packages in the archive, names
\* that resolve elsewhere, packages and swap that were there.
Usual ==
    {Good, [Good EXCEPT !.dns = "elsewhere"],
     [Good EXCEPT !.archive.php = {"8.5"}, !.archive.mysql = "8.4"],
     Lived,
     [Good EXCEPT !.swapfile = {"file"}]}

\* Every odd server with the plain options, every option on the usual servers.
MCHosts == Sized \cup Odd
MCOptions == Singles

MCInit ==
    /\ Init
    /\ host \in Usual \/ opt = Given

MCSpec == MCInit /\ [][Next]_vars

===============================================================================
