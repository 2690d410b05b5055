\* Three strings: a bech32 account, a string that does not decode, and "".
CONSTANTS
    Strings = {acc, bad, e}
    Empty = e
    Bech32Accounts = {acc}
    CoinTypes = {btc}
    Statuses = {pending, done}
    Values = {v}
SPECIFICATION Spec
\* A behaviour is one message checked once; it stops when it is signed or
\* rejected.
CHECK_DEADLOCK FALSE
INVARIANT SignersAfterValidate
