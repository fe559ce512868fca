SPECIFICATION FairSpec
CONSTANTS
  Request = {r1, r2}
  MaxWrites = 2
  LimitTicks = 2
  NoExpiry = NoExpiry
  Mailboxes = 1
  Settings = {c1, c2}
  MaxRetries = 1
  MaxAdverse = 1
  NoRow = NoRow
  NoSettings = NoSettings
INVARIANTS TypeOK LimitIsTemporary
PROPERTIES OldSettingsRunOut ForgottenForGood LimitLifts SettingsTakeEffect DeletedIsForgotten
