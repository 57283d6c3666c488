SPECIFICATION FairSpec
CONSTANTS
  Tasks = {t1, t2}
  Requests = {r1}
  Savers = {v1, v2}
  Views = {v1}
  Addresses = {{"recipient", "cosigner"}, {"cosigner"}}
  PaymentRequired = TRUE
  CosignRequired = TRUE
  SendsConfirmation = TRUE
  MaxSaves = 2
  MaxTroubles = 1
INVARIANT TypeOK
INVARIANT MailsHaveReasons
INVARIANT CosignerCopiedOnce
INVARIANT FlagsMeanMails
INVARIANT AttachedMailExists
CHECK_DEADLOCK FALSE
PROPERTY SignedIsMailed
PROPERTY CosignerIsAsked
