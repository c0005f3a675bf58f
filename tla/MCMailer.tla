------------------------------ MODULE MCMailer -----------------------------
(* Instances of Mailer for TLC. *)
EXTENDS Mailer, TLC

Setting(smtps, starttls, good, mode, verify) ==
    [server |-> [smtps |-> smtps, starttls |-> starttls, goodCertificate |-> good],
     tls |-> mode, verify |-> verify]

\* Servers with and without STARTTLS, with a good and a bad certificate.
FourSettings ==
    {Setting(TRUE, FALSE, TRUE, "REQUIRE_STARTTLS", TRUE),
     Setting(TRUE, FALSE, FALSE, "SMTPS", TRUE),
     Setting(FALSE, TRUE, FALSE, "TRY_STARTTLS", FALSE),
     Setting(FALSE, TRUE, TRUE, "REQUIRE_STARTTLS", TRUE)}

\* Emails differ only in what is done with them.
EmailSymmetry == Permutations(Emails)
=============================================================================
