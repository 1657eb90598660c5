----------------------------- MODULE InstallPlan -----------------------------
(***************************************************************************)
(* What g7inst plan makes of the operator's options (commands/plan): the   *)
(* checks each option has to pass, the values derived from them, and the   *)
(* packages, services and ports that follow.                               *)
(*                                                                         *)
(* A name (account, domain, database, path) is the sequence of its parts:  *)
(* words and the marks between them.  Lengths are left out.                *)
(***************************************************************************)
EXTENDS Integers, SequencesExt

Marks == {"-", "_", ".", "/"}

WebServers == {"nginx", "apache", "frankenphp"}
PhpVersions == {"8.3", "8.5"}
DatabaseVersions == {"8.0", "8.4"}
PhpSources == {"auto", "ubuntu", "ondrej"}
WwwModes == {"redirect-to-root", "redirect-to-www", "include", "none"}
RootModes == {"public-html", "www", "system", "custom"}
MailModes == {"none", "smtp-relay", "local-postfix"}
Encryptions == {"none", "starttls", "tls"}

DefaultUser == <<"g7">>
DefaultPort == 587
NoPort == -1

\* PlanOptions::default; a password or an SMTP field is "none", "good" or
\* "bad"; a name not given is <<>>.
Defaults ==
    [local |-> FALSE, app |-> "gnuboard7", web |-> "nginx", php |-> "8.5",
     source |-> "auto", dbver |-> "8.0", dbname |-> <<>>, dbuser |-> <<>>,
     dbpw |-> "none", user |-> DefaultUser, userpw |-> "none",
     rootmode |-> "public-html", custom |-> <<>>, www |-> "redirect-to-www",
     redis |-> TRUE, mail |-> "none", smtp |-> "none", smtppw |-> "none",
     port |-> DefaultPort, encryption |-> "starttls", dns |-> TRUE]

---------------------------------------------------------------------------
(* Application profiles.  ext: the apt packages its PHP extensions come    *)
(* in; the extensions built into PHP have none.                            *)

CommonExt == {"php-curl", "php-xml", "php-mbstring", "php-mysql"}
LaravelProfile ==
    [octane |-> FALSE, prefix |-> "laravel", public |-> TRUE,
     ext |-> CommonExt \cup {"php-bcmath"}, tools |-> {"composer", "nodejs", "npm"},
     units |-> {"laravel-queue", "laravel-scheduler"}]
GnuboardProfile ==
    [octane |-> FALSE, prefix |-> "g7", public |-> TRUE,
     ext |-> CommonExt \cup {"php-bcmath", "php-gd", "php-imagick", "php-intl", "php-ldap",
                 "php-maxminddb", "php-memcached", "php-redis", "php-zip"},
     tools |-> {"git", "composer"},
     units |-> {"g7-queue", "g7-scheduler", "g7-reverb"}]
WordpressProfile ==
    [octane |-> FALSE, prefix |-> "wp", public |-> FALSE,
     ext |-> CommonExt \cup {"php-gd", "php-imagick", "php-intl", "php-zip"},
     tools |-> {"wp-cli"}, units |-> {}]
GnuboardOctaneProfile == [GnuboardProfile EXCEPT !.octane = TRUE]
LaravelOctaneProfile == [LaravelProfile EXCEPT !.octane = TRUE]

Profiles ==
    [gnuboard7 |-> GnuboardProfile, wordpress |-> WordpressProfile,
     laravel |-> LaravelProfile, g7octane |-> GnuboardOctaneProfile,
     octane |-> LaravelOctaneProfile]

Profile(app) == Profiles[app]

---------------------------------------------------------------------------
(* The checks.                                                             *)

\* Labels separated by dots, two or more, none empty, none with a dash at an end.
DomainOk(d) ==
    /\ d # <<>> /\ Range(d) \cap {"/", "_"} = {} /\ "." \in Range(d)
    /\ d[1] \notin Marks /\ d[Len(d)] \notin Marks
    /\ \A i \in 1..Len(d) - 1 : {d[i], d[i + 1]} \subseteq Marks => d[i] = "-" /\ d[i + 1] = "-"

AccountOk(u) == u # <<>> /\ Range(u) \cap {".", "/"} = {} /\ u[1] # "-"

\* Letters, digits and underscore, with a letter or an underscore first.
IdentifierOk(n) == n # <<>> /\ Range(n) \cap {"-", ".", "/"} = {}

PasswordOk(p) == p \in {"none", "good"}

CustomRootOk(path) == Len(path) >= 2 /\ path[1] = "/" /\ ".." \notin Range(path)

\* A relay needs its host, sender, user and password, all of them well formed.
MailOk(o) == o.mail = "smtp-relay" => o.smtp = "good" /\ o.smtppw = "good"

\* Giving a path with the default mode means custom.
RootMode(o) ==
    IF o.custom # <<>> /\ o.rootmode = "public-html" THEN "custom" ELSE o.rootmode

Supported(o) ==
    /\ o.web \in WebServers /\ o.php \in PhpVersions /\ o.source \in PhpSources
    /\ o.dbver \in DatabaseVersions /\ o.rootmode \in RootModes /\ o.www \in WwwModes
    /\ o.mail \in MailModes /\ o.encryption \in Encryptions

\* build_with_options returns a plan, and not an error.
Builds(o) ==
    /\ DomainOk(o.domain)
    /\ o.app \in DOMAIN Profiles
    /\ Supported(o)
    /\ Profile(o.app).octane => o.web = "frankenphp"
    /\ AccountOk(o.user)
    /\ PasswordOk(o.userpw) /\ PasswordOk(o.dbpw)
    /\ RootMode(o) = "custom" => CustomRootOk(o.custom)
    /\ MailOk(o)
    /\ o.dbname # <<>> => IdentifierOk(o.dbname)
    /\ o.dbuser # <<>> => IdentifierOk(o.dbuser)

---------------------------------------------------------------------------
(* The derived values.                                                     *)

\* FrankenPHP brings its own PHP, always 8.5.
PhpVersion(o) == IF o.web = "frankenphp" THEN "8.5" ELSE o.php

WebRoot(o) ==
    CASE RootMode(o) = "public-html" -> <<"/", "home", "/">> \o o.user \o <<"/", "public_html">>
      [] RootMode(o) = "www"         -> <<"/", "home", "/">> \o o.user \o <<"/", "www">>
      [] RootMode(o) = "system"      -> <<"/", "var", "/", "www", "/">> \o o.domain
      [] OTHER                       -> o.custom

DocumentRoot(o) == IF Profile(o.app).public THEN WebRoot(o) \o <<"/", "public">> ELSE WebRoot(o)

\* Every mark of the domain becomes an underscore.
DatabaseName(o) ==
    IF o.dbname # <<>> THEN o.dbname
    ELSE <<Profile(o.app).prefix, "_">>
         \o [i \in DOMAIN o.domain |-> IF o.domain[i] \in Marks THEN "_" ELSE o.domain[i]]

\* The account's name as it is, after the profile's prefix.
DatabaseUser(o) ==
    IF o.dbuser # <<>> THEN o.dbuser
    ELSE IF o.user = DefaultUser THEN <<Profile(o.app).prefix, "_", "app">>
    ELSE <<Profile(o.app).prefix, "_">> \o o.user

\* Postfix delivers on port 25 unless another port was asked for.
SmtpPort(o) == IF o.mail = "local-postfix" /\ o.port = DefaultPort THEN 25 ELSE o.port

---------------------------------------------------------------------------
(* What the plan installs and starts.  "php-x" is the package of the       *)
(* plan's PHP version.                                                     *)

WebPackage(web) == IF web = "apache" THEN "apache2" ELSE "nginx"

PhpPackages(o) ==
    {"php-cli", "php-mysql", "php-mbstring", "php-xml", "php-curl", "php-gd", "php-zip",
     "php-intl", "php-bcmath", "php-imagick"}
    \cup (IF o.web = "frankenphp" THEN {} ELSE {"php-fpm"})

ProfilePackages(o) == Profile(o.app).ext \cup Profile(o.app).tools

\* Slip: no plugin for the web server, no certbot.
CertbotByPlugin(o) ==
    IF o.local \/ o.web = "frankenphp" THEN {}
    ELSE {"certbot", IF o.web = "apache" THEN "python3-certbot-apache" ELSE "python3-certbot-nginx"}

CertbotPackages(o) ==
    IF o.local THEN {}
    ELSE {"certbot"} \cup CASE o.web = "apache" -> {"python3-certbot-apache"}
                            [] o.web = "nginx"  -> {"python3-certbot-nginx"}
                            [] OTHER            -> {}

Packages(o) ==
    {WebPackage(o.web), "mysql-server", "curl", "unzip", "ca-certificates"}
    \cup PhpPackages(o) \cup ProfilePackages(o) \cup CertbotPackages(o)
    \cup (IF o.app \in {"laravel", "octane"} THEN {"git", "composer", "nodejs", "npm"} ELSE {})
    \cup (IF o.source = "ondrej" THEN {"software-properties-common", "lsb-release"} ELSE {})
    \cup (IF o.redis THEN {"redis-server", "php-redis"} ELSE {})
    \cup (IF o.mail = "local-postfix" THEN {"postfix", "mailutils"} ELSE {})

Services(o) ==
    {WebPackage(o.web), "mysql"}
    \cup (IF o.web = "frankenphp" THEN {"g7-frankenphp"} ELSE {"php-fpm"})
    \cup Profile(o.app).units
    \cup (IF o.local THEN {} ELSE {"certbot.timer"})
    \cup (IF o.redis THEN {"redis-server"} ELSE {})
    \cup (IF o.mail = "local-postfix" THEN {"postfix"} ELSE {})

Ports(o) ==
    {80, 3306} \cup (IF o.local THEN {} ELSE {443}) \cup (IF o.redis THEN {6379} ELSE {})
    \cup (IF o.mail = "none" THEN {} ELSE {SmtpPort(o)})

\* Those the packages phase starts, and those it waits for.
ManagedServices(o) ==
    Services(o) \cap {WebPackage(o.web), "php-fpm", "mysql", "certbot.timer", "redis-server", "postfix"}

ManagedPorts(o) == Ports(o) \cap {80, 3306, 6379}

PlanOf(o) ==
    [domain |-> o.domain, local |-> o.local, app |-> o.app, web |-> o.web,
     php |-> PhpVersion(o), source |-> o.source, dbver |-> o.dbver, user |-> o.user,
     rootmode |-> RootMode(o), root |-> WebRoot(o), document |-> DocumentRoot(o),
     www |-> o.www, redis |-> o.redis, mail |-> o.mail, smtp |-> o.smtp,
     port |-> IF o.mail = "none" THEN NoPort ELSE SmtpPort(o),
     encryption |-> IF o.mail = "none" THEN "none" ELSE o.encryption,
     dbname |-> DatabaseName(o), dbuser |-> DatabaseUser(o),
     dns |-> o.dns /\ ~o.local,
     packages |-> Packages(o), services |-> ManagedServices(o), ports |-> ManagedPorts(o)]

---------------------------------------------------------------------------
(* Resume has no options: it rebuilds them from report.json.               *)

OptionsFromReport(p) ==
    [domain |-> p.domain, local |-> p.local, app |-> p.app, web |-> p.web, php |-> p.php,
     source |-> p.source, dbver |-> p.dbver, dbname |-> p.dbname, dbuser |-> p.dbuser,
     dbpw |-> "good", user |-> p.user, userpw |-> "none",
     rootmode |-> p.rootmode, custom |-> IF p.rootmode = "custom" THEN p.root ELSE <<>>,
     www |-> p.www, redis |-> p.redis, mail |-> p.mail, smtp |-> p.smtp, smtppw |-> "good",
     port |-> IF p.port = NoPort THEN DefaultPort ELSE p.port,
     encryption |-> IF p.mail = "none" THEN "starttls" ELSE p.encryption,
     dns |-> p.dns]

===============================================================================
