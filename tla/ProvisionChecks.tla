---------------------------- MODULE ProvisionChecks ----------------------------
(***************************************************************************)
(* The read-only checks of the setup guide (web_setup/provision_actions):  *)
(* what each looks at, and the verdict over all of them.                   *)
(*                                                                         *)
(* r: what report.json says; up: running services; files: files and        *)
(* folders that are there; each check is "pass", "manual" or "fail".       *)
(***************************************************************************)
EXTENDS Integers

Active(up, service) == IF service \in up THEN "pass" ELSE "fail"
Present(files, f) == IF f \in files THEN "pass" ELSE "fail"

\* Whether a program accepts the configuration it has is not known here: the
\* checks are of an installation the steps of the installer have tested.
ConfigTest == "pass"

Webserver(r, up) ==
    {ConfigTest, Active(up, IF r.web = "apache" THEN "apache2" ELSE "nginx")}
    \cup (IF r.web = "frankenphp" THEN {Active(up, "g7-frankenphp")} ELSE {})

Php(r, up) ==
    IF r.web = "frankenphp" THEN {Active(up, "g7-frankenphp")}
    ELSE {ConfigTest, Active(up, "php-fpm")}

Database(up) == {ConfigTest, Active(up, "mysql")}

\* Without a certificate nothing is issued: that is left to the TLS step.
Ssl(up, files) ==
    LET pair == {Present(files, "fullchain"), Present(files, "privkey")}
    IN IF "fail" \in pair THEN pair \cup {"manual"}
       ELSE pair \cup {ConfigTest, Active(up, "certbot.timer")}

\* Slip: Postfix is looked for whatever the mail mode.
MailAlways(r, up) == {ConfigTest, Active(up, "postfix")}

Mail(r, up) ==
    IF r.mail # "local-postfix" THEN {"manual"} ELSE {ConfigTest, Active(up, "postfix")}

Verdict(checks) ==
    IF "fail" \in checks THEN "fail" ELSE IF "manual" \in checks THEN "manual" ELSE "pass"

---------------------------------------------------------------------------
(* GnuBoard7: its files, and what finalize has set up.                     *)

\* The editor plugin's upload limit in MB, or a value that cannot be read.
UploadLimit(limit) == IF limit \in Int /\ limit > 2 THEN "pass" ELSE "manual"

Permissions(files) ==
    {Present(files, f) : f \in {"storage", "bootstrap/cache", ".env"}} \cup {ConfigTest}

App(r, files, limit) ==
    {Present(files, "artisan"), ConfigTest} \cup Permissions(files)
    \cup (IF r.app # "gnuboard7" THEN {}
          ELSE {Present(files, "storage"), Present(files, "template-engine"),
                IF "g7_installed" \in files THEN "pass" ELSE "manual",
                UploadLimit(limit), "manual"})

DriverValue(drivers, key, expected) ==
    IF key \in DOMAIN drivers /\ drivers[key] = expected THEN "pass" ELSE "fail"

G7Runtime(r, up, files, drivers) ==
    IF r.app # "gnuboard7" \/ r.phase # "pass" THEN {"manual"}
    ELSE {Present(files, f) : f \in {"drivers", "g7-scheduler.service", "g7-scheduler.timer"}}
         \cup {Active(up, "g7-scheduler.timer"),
               DriverValue(drivers, "queue", IF r.redis THEN "redis" ELSE "sync"),
               DriverValue(drivers, "session", IF r.redis THEN "redis" ELSE "file")}
         \cup (IF ~r.redis THEN {}
               ELSE {Present(files, s) : s \in {"g7-queue.service", "g7-reverb.service"}}
                    \cup {Active(up, s) : s \in {"g7-queue.service", "g7-reverb.service"}}
                    \cup {DriverValue(drivers, "websocket", TRUE)})

===============================================================================
