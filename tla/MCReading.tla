------------------------------ MODULE MCReading -------------------------------
EXTENDS Reading

MCSkews == {-1, 1}
MCCurrency == {"USD", "JPY", "KWD"}
MCListed == {"USD", "JPY"}
MCMinorUnits(c) == CASE c = "USD" -> 2 [] c = "JPY" -> 0 [] OTHER -> 3
Money(status, fee, currency, digits, minutes) ==
    [status |-> status, fee |-> fee, currency |-> currency, digits |-> digits,
     minutes |-> minutes]
MCMoneys ==
    {Money("priced", 1005, "USD", 2, 90), Money("priced", 1005, "KWD", -1, 60),
     Money("priced", 0, "USD", 2, -1), Money("priced", 700, "JPY", 0, 30),
     Money("priced", 1005, "JPY", 2, 60)}
================================================================================
